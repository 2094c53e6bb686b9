----------------------------- MODULE SynthProofs -----------------------------
(***************************************************************************)
(* The synthesizer: the envelope of the voices, for every pool, set of     *)
(* notes and step (no voice's volume ever jumps); the safety properties of *)
(* the loop, for every buffer size, wakeup threshold and speed of the      *)
(* card; and both together, where a commit plays any number of frames.     *)
(***************************************************************************)
EXTENDS SynthLoop, SynthVoices, FiniteSetTheorems, WellFoundedInduction, TLAPS

Whole == INSTANCE Synth

-----------------------------------------------------------------------------
(* The voices                                                              *)

Sig == [note : Notes \cup {"none"}, bar : Nat, curvol : Nat, targetvol : Nat]

VoicesTypeOK == sigs \in [Voice -> Sig] /\ second \in BOOLEAN

\* A voice that is not released never sounds louder than it was asked to:
\* without this the step up to its target could be a fall of any height.
Below(s) == s.targetvol = 0 \/ s.curvol <= s.targetvol
BelowTarget == \A v \in Voice : Below(sigs[v])

VoicesInv == VoicesTypeOK /\ BelowTarget

\* One step of a voice as the property sees it.
Smooth(s, t) == /\ t.curvol - s.curvol \in -Step .. Step
                /\ s # Silent /\ t # Silent => t.note = s.note /\ t.bar = s.bar

\* A free voice is one at rest.
LEMMA SilentSig == Silent \in Sig /\ Below(Silent)
BY DEF Silent, Sig, Below

\* The harmonic of a voice that is taken is a number.
LEMMA BarType ==
  ASSUME NEW v \in Voice
  PROVE  Cardinality({w \in Free : w <= v}) \in Nat
<1>1. IsFiniteSet(Voice)
  BY FS_Interval, VoicesAssumption DEF Voice
<1>2. {w \in Free : w <= v} \in SUBSET Voice
  BY DEF Free
<1> QED BY <1>1, <1>2, FS_Subset, FS_CardinalityType

\* The envelope keeps a voice one, below its target, and moves by a step.
LEMMA EnvelopeSmooth ==
  ASSUME NEW s \in Sig, Below(s)
  PROVE  Envelope(s) \in Sig /\ Below(Envelope(s)) /\ Smooth(s, Envelope(s))
BY SilentSig, VoicesAssumption DEF Envelope, Sig, Below, Smooth, Silent

\* A voice nothing happens to.
LEMMA SameSmooth ==
  ASSUME NEW s \in Sig
  PROVE  Smooth(s, s)
BY VoicesAssumption DEF Smooth, Sig

\* A sample: every voice moves on, or the stored one is taken.
LEMMA NextSmooth ==
  ASSUME VoicesInv, next
  PROVE  VoicesInv' /\ \A v \in Voice : Smooth(sigs[v], sigs'[v])
<1>1. CASE second
  BY <1>1, SameSmooth DEF next, VoicesInv, VoicesTypeOK, BelowTarget
<1>2. CASE ~second
  <2>1. ASSUME NEW v \in Voice
        PROVE  /\ sigs'[v] = Envelope(sigs[v])
               /\ sigs'[v] \in Sig /\ Below(sigs'[v]) /\ Smooth(sigs[v], sigs'[v])
    BY <1>2, EnvelopeSmooth DEF next, VoicesInv, VoicesTypeOK, BelowTarget
  <2> QED BY <1>2, <2>1 DEF next, VoicesInv, VoicesTypeOK, BelowTarget
<1> QED BY <1>1, <1>2 DEF VoicesInv, VoicesTypeOK

\* A note takes silent voices only, and from the volume zero.
LEMMA AddNoteSmooth ==
  ASSUME VoicesInv, NEW n \in Notes, NEW vol \in Vols, add_note(n, vol)
  PROVE  VoicesInv' /\ \A v \in Voice : Smooth(sigs[v], sigs'[v])
<1> DEFINE Taken(v) == [note |-> n, bar |-> Cardinality({w \in Free : w <= v}),
                        curvol |-> 0, targetvol |-> vol]
<1>1. ASSUME NEW v \in Voice, v \in Lowest(Bars)
      PROVE  /\ sigs'[v] \in Sig /\ Below(sigs'[v])
             /\ Smooth(sigs[v], sigs'[v])
  <2>1. sigs[v] = Silent
    BY <1>1 DEF Lowest, Free
  <2>2. sigs'[v] = Taken(v)
    BY <1>1 DEF add_note
  <2>3. Taken(v) \in Sig /\ Below(Taken(v))
    BY BarType, VoicesAssumption DEF Sig, Below
  <2>4. Taken(v).curvol - Silent.curvol \in -Step .. Step
    BY VoicesAssumption DEF Silent
  <2> QED BY <2>1, <2>2, <2>3, <2>4 DEF Smooth
<1>2. ASSUME NEW v \in Voice, v \notin Lowest(Bars)
      PROVE  /\ sigs'[v] \in Sig /\ Below(sigs'[v])
             /\ Smooth(sigs[v], sigs'[v])
  <2>1. sigs'[v] = sigs[v]
    BY <1>2 DEF add_note
  <2> QED BY <2>1, SameSmooth DEF VoicesInv, VoicesTypeOK, BelowTarget
<1>3. sigs' \in [Voice -> Sig]
  BY <1>1, <1>2 DEF add_note
<1> QED BY <1>1, <1>2, <1>3 DEF add_note, VoicesInv, VoicesTypeOK, BelowTarget

\* A release changes where volumes go, none of them at once.
LEMMA RemoveNoteSmooth ==
  ASSUME VoicesInv, NEW n \in Notes, remove_note(n)
  PROVE  VoicesInv' /\ \A v \in Voice : Smooth(sigs[v], sigs'[v])
<1>1. ASSUME NEW v \in Voice
      PROVE  /\ sigs'[v] \in Sig /\ Below(sigs'[v])
             /\ Smooth(sigs[v], sigs'[v])
  BY VoicesAssumption DEF remove_note, VoicesInv, VoicesTypeOK, BelowTarget, Sig, Below, Smooth
<1> QED BY <1>1 DEF remove_note, VoicesInv, VoicesTypeOK, BelowTarget

\* All voices are free at first.
LEMMA InitVoicesInv == VoicesInit => VoicesInv
BY SilentSig DEF VoicesInit, VoicesInv, VoicesTypeOK, BelowTarget

\* No step jumps, and the invariant that shows it is kept.
LEMMA StepSmooth ==
  VoicesInv /\ [VoicesNext]_voicesVars => VoicesInv' /\ [\A v \in Voice : Smooth(sigs[v], sigs'[v])]_voicesVars
<1> SUFFICES ASSUME VoicesInv, [VoicesNext]_voicesVars
             PROVE  VoicesInv' /\ [\A v \in Voice : Smooth(sigs[v], sigs'[v])]_voicesVars
  OBVIOUS
<1>1. CASE next
  BY <1>1, NextSmooth
<1>2. ASSUME NEW n \in Notes, remove_note(n)
      PROVE  VoicesInv' /\ \A v \in Voice : Smooth(sigs[v], sigs'[v])
  BY <1>2, RemoveNoteSmooth
<1>3. ASSUME NEW n \in Notes, NEW vol \in Vols, add_note(n, vol)
      PROVE  VoicesInv' /\ \A v \in Voice : Smooth(sigs[v], sigs'[v])
  BY <1>3, AddNoteSmooth
<1>4. CASE UNCHANGED voicesVars
  BY <1>4 DEF voicesVars, VoicesInv, VoicesTypeOK, BelowTarget
<1> QED BY <1>1, <1>2, <1>3, <1>4 DEF VoicesNext

\* Every volume moves by at most a step, whatever is played.
THEOREM VolumesNeverJump == VoicesSpec => NoClicks
<1>1. [\A v \in Voice : Smooth(sigs[v], sigs'[v])]_voicesVars
        => [\A v \in Voice : /\ sigs'[v].curvol - sigs[v].curvol \in -Step .. Step
                             /\ sigs[v] # Silent /\ sigs'[v] # Silent =>
                                  sigs'[v].note = sigs[v].note
                                  /\ sigs'[v].bar = sigs[v].bar]_voicesVars
  BY DEF Smooth
<1> QED BY InitVoicesInv, StepSmooth, <1>1, PTL DEF VoicesSpec, NoClicks

-----------------------------------------------------------------------------
(* The loop                                                                *)

\* The parts of the invariant, for steps that disturb one or two of them.
USE DEF IInv, TypeOK

\* A position moved forward within the ring stays in the ring.
LEMMA PosInRing ==
  ASSUME NEW p \in Nat
  PROVE  p % BufSize \in 0 .. BufSize - 1
BY LoopAssumption

LEMMA InitIInv == Init => IInv
BY LoopAssumption DEF Init, PreparedFilledOnce, RoomFits, EventFetched,
   SuspendsCounted, NoEventLeftBehind, EndsForCause

\* A step that writes samples, or acts on the stream's state.
LEMMA WriteSamplesStep ==
  ASSUME IInv, WriteSamples, UNCHANGED midi, burst' = 0, UNCHANGED suspends
  PROVE  IInv'
<1> USE LoopAssumption DEF midi, stream, avail, Prepared, Exit, Fail, Return,
        PreparedFilledOnce, RoomFits, EventFetched, SuspendsCounted,
        NoEventLeftBehind, EndsForCause
<1>1. CASE DirectWrite
  BY <1>1 DEF DirectWrite
<1>2. CASE IoWrite
  BY <1>2 DEF IoWrite
<1>3. CASE IoRecover
  BY <1>3 DEF IoRecover
<1>4. CASE IoFails
  BY <1>4 DEF IoFails
<1>5. CASE Commit
  <2>1. pos + room \in Nat /\ pending + room \in 0 .. BufSize
    BY <1>5 DEF Commit
  <2>2. pos' \in 0 .. BufSize - 1 /\ pending' \in 0 .. BufSize
    BY <1>5, <2>1, PosInRing DEF Commit
  <2>3. state = "Prepared" => pending' = BufSize
    BY <1>5 DEF Commit
  <2> QED BY <1>5, <2>2, <2>3 DEF Commit
<1>6. CASE StillRunning
  BY <1>6 DEF StillRunning
<1>7. CASE StartStream
  BY <1>7 DEF StartStream
<1>8. CASE PrepareStream
  <2>1. CASE Prepared /\ pc' = "write" /\ UNCHANGED <<direct, room>>
    BY <1>8, <2>1 DEF PrepareStream
  <2>2. CASE Fail
    BY <1>8, <2>2 DEF PrepareStream
  <2> QED BY <1>8, <2>1, <2>2 DEF PrepareStream
<1>9. CASE ResumeStream
  BY <1>9 DEF ResumeStream
<1>10. CASE IoNextRound
  BY <1>10 DEF IoNextRound
<1>11. CASE IoCallFails
  BY <1>11 DEF IoCallFails
<1>12. CASE UnexpectedState
  BY <1>12 DEF UnexpectedState
<1> QED BY <1>1, <1>2, <1>3, <1>4, <1>5, <1>6, <1>7, <1>8, <1>9, <1>10, <1>11, <1>12
        DEF WriteSamples

\* A step that reads an event or finds none.
LEMMA ReadMidiStep ==
  ASSUME IInv, ReadMidiEvent, UNCHANGED stream, burst' = 0, UNCHANGED suspends
  PROVE  IInv'
<1> USE LoopAssumption DEF midi, stream,
        PreparedFilledOnce, RoomFits, EventFetched, SuspendsCounted,
        NoEventLeftBehind, EndsForCause
<1>1. CASE EventsPending
  BY <1>1 DEF EventsPending
<1>2. CASE NoEvent
  BY <1>2 DEF NoEvent
<1>3. CASE HandleEvent
  BY <1>3 DEF HandleEvent
<1>4. CASE EventsFail
  BY <1>4 DEF EventsFail, Return
<1> QED BY <1>1, <1>2, <1>3, <1>4 DEF ReadMidiEvent

\* A step of the thread.
LEMMA LoopStep == IInv /\ Loop => IInv'
<1> SUFFICES ASSUME IInv, Loop PROVE IInv'
  OBVIOUS
<1>1. CASE PollReturns /\ UNCHANGED <<stream, midi>>
  BY <1>1 DEF Loop, PollReturns, midi, stream, PreparedFilledOnce, RoomFits,
     EventFetched, SuspendsCounted, NoEventLeftBehind, EndsForCause
<1> QED BY <1>1, WriteSamplesStep, ReadMidiStep DEF Loop

\* A step of the card.
LEMMA PlayStep ==
  ASSUME NEW n \in 1 .. BufSize, IInv, Play(n)
  PROVE  IInv'
BY LoopAssumption DEF Play, loop, midi, PreparedFilledOnce, RoomFits,
   EventFetched, SuspendsCounted, NoEventLeftBehind, EndsForCause

\* Every step preserves the invariant.
LEMMA NextIInv == IInv /\ [Next]_vars => IInv'
<1> SUFFICES ASSUME IInv, [Next]_vars PROVE IInv'
  OBVIOUS
<1> USE DEF PreparedFilledOnce, RoomFits, EventFetched, SuspendsCounted,
            NoEventLeftBehind, EndsForCause
<1>1. CASE Loop
  BY <1>1, LoopStep
<1>2. CASE Card
  BY <1>2, PlayStep DEF Card
<1>3. CASE Suspend
  BY <1>3, LoopAssumption DEF Suspend, loop, midi
<1>4. CASE Arrive
  BY <1>4 DEF Arrive, loop, stream
<1>5. CASE PollFails
  BY <1>5 DEF PollFails, Return, stream, midi
<1>6. CASE Unplug
  BY <1>6 DEF Unplug, loop, midi
<1>7. CASE UNCHANGED vars
  BY <1>7 DEF vars, loop, stream, midi
<1> QED BY <1>1, <1>2, <1>3, <1>4, <1>5, <1>6, <1>7 DEF Next

\* The invariant behind the loop's safety: a prepared stream is empty until the
\* commit of the pass that starts it, and a write in progress has its room.
THEOREM LoopInvariance == Spec => []IInv
BY InitIInv, NextIInv, PTL DEF Spec

\* The loop never sleeps on an event it has fetched into alsa-lib's buffer.
THEOREM EventsNeverLeftBehind == Spec => []NoEventLeftBehind
<1>1. IInv => NoEventLeftBehind
  OBVIOUS
<1> QED BY LoopInvariance, <1>1, PTL

\* What the program ends over when no call fails of itself: an unplugged card, a
\* suspend not undone, in emulated mode an underrun right after a resume.
THEOREM EndsOnlyForCause == Spec => []EndsForCause
<1>1. IInv => EndsForCause
  OBVIOUS
<1> QED BY LoopInvariance, <1>1, PTL

\* Whenever a prepared stream starts to run, its buffer is full.
THEOREM StartsWithFullBuffer == Spec => StartsFull
<1>1. IInv /\ [Next]_vars
        => [state = "Prepared" /\ state' = "Running" => pending = BufSize]_vars
  <2> SUFFICES ASSUME IInv, Next, state = "Prepared", state' = "Running"
               PROVE  pending = BufSize
    OBVIOUS
  <2>1. pc = "status"
    BY DEF Next, Loop, WriteSamples, ReadMidiEvent, PollReturns, PollFails, Card,
           Play, Suspend, Unplug, Arrive, stream, DirectWrite, IoWrite, IoRecover,
           IoFails, IoCallFails, Exit, Fail, Commit, StillRunning, StartStream,
           PrepareStream, ResumeStream, IoNextRound, UnexpectedState
  <2> QED BY <2>1 DEF PreparedFilledOnce
<1> QED BY InitIInv, NextIInv, <1>1, PTL DEF Spec, StartsFull

-----------------------------------------------------------------------------
(* The loop with its voices                                                *)

\* The voices decide nothing about the loop.
LEMMA WholeStep == [Whole!Next]_(Whole!vars) => [Next]_vars
<1> SUFFICES ASSUME [Whole!Next]_(Whole!vars) PROVE [Next]_vars
  OBVIOUS
<1>1. Whole!L!Loop => Loop
  <2>1. Whole!L!WriteSamples => WriteSamples
    BY DEF Whole!L!WriteSamples, Whole!L!DirectWrite, Whole!L!IoWrite, Whole!L!IoRecover,
           Whole!L!IoFails, Whole!L!IoCallFails, Whole!L!Commit, Whole!L!StillRunning,
           Whole!L!StartStream, Whole!L!PrepareStream, Whole!L!ResumeStream,
           Whole!L!IoNextRound, Whole!L!UnexpectedState, Whole!L!avail, Whole!L!stream,
           Whole!L!Exit, Whole!L!Fail, Whole!L!Return, Whole!L!Prepared,
           WriteSamples, DirectWrite, IoWrite, IoRecover, IoFails, IoCallFails, Commit,
           StillRunning, StartStream, PrepareStream, ResumeStream, IoNextRound,
           UnexpectedState, avail, stream, Exit, Fail, Return, Prepared
  <2>2. Whole!L!ReadMidiEvent => ReadMidiEvent
    BY DEF Whole!L!ReadMidiEvent, Whole!L!EventsPending, Whole!L!NoEvent,
           Whole!L!HandleEvent, Whole!L!EventsFail, Whole!L!Return, Whole!L!midi,
           ReadMidiEvent, EventsPending, NoEvent, HandleEvent, EventsFail, Return, midi
  <2>3. Whole!L!PollReturns => PollReturns
    BY DEF Whole!L!PollReturns, Whole!L!avail, PollReturns, avail
  <2> QED BY <2>1, <2>2, <2>3
          DEF Whole!L!Loop, Whole!L!midi, Whole!L!stream, Loop, midi, stream
<1>2. Whole!L!Card => Card
  BY DEF Whole!L!Card, Whole!L!Play, Whole!L!Returned, Whole!L!loop, Whole!L!midi,
         Card, Play, Returned, loop, midi
<1>3. (Whole!L!Suspend => Suspend) /\ (Whole!L!Unplug => Unplug)
  BY DEF Whole!L!Suspend, Whole!L!Unplug, Whole!L!Returned, Whole!L!loop, Whole!L!midi,
         Suspend, Unplug, Returned, loop, midi
<1>4. Whole!L!Arrive => Arrive
  BY DEF Whole!L!Arrive, Whole!L!Returned, Whole!L!loop, Whole!L!stream,
         Arrive, Returned, loop, stream
<1>5. Whole!L!PollFails => PollFails
  BY DEF Whole!L!PollFails, Whole!L!Return, Whole!L!stream, Whole!L!midi,
         PollFails, Return, stream, midi
<1>6. UNCHANGED Whole!vars => UNCHANGED vars
  BY DEF Whole!vars, Whole!loop, vars, loop, stream, midi
<1> QED BY <1>1, <1>2, <1>3, <1>4, <1>5, <1>6 DEF Whole!Next, Whole!Loop, Whole!Card, Next

\* The synthesizer with its voices implements the loop: whatever notes are
\* played, reading events and drawing samples add no behaviour to it and all
\* that is proved of the loop holds of the whole.
THEOREM SynthImplementsLoop == Whole!Spec => Spec
<1>1. Whole!Init => Init
  BY DEF Whole!Init, Whole!L!Init, Init
<1> QED BY <1>1, WholeStep, PTL DEF Whole!Spec, Spec

-----------------------------------------------------------------------------
(* The voices in the whole: what a write draws                             *)

HIDE DEF IInv, TypeOK

NatLess == {p \in Nat \X Nat : p[1] < p[2]}

\* A set of numbers that holds zero and with each number the next holds all: a
\* least one missing would have a predecessor that is not.
LEMMA NatSteps ==
  ASSUME NEW S \in SUBSET Nat, 0 \in S, \A n \in S : n + 1 \in S
  PROVE  S = Nat
<1>1. IsWellFoundedOn(NatLess, Nat)
  BY NatLessThanWellFounded DEF OpToRel, NatLess
<1> SUFFICES ASSUME Nat \ S # {} PROVE FALSE
  OBVIOUS
<1> DEFINE Missing == Nat \ S
<1>2. Missing \subseteq Nat /\ Missing # {}
  OBVIOUS
<1> HIDE DEF Missing
<1>3. PICK m \in Missing : \A k \in Missing : ~(<<k, m>> \in NatLess)
  BY <1>1, <1>2, WFMin
<1>4. \A k \in Missing : ~(k < m)
  BY <1>2, <1>3 DEF NatLess
<1>5. m \in Nat /\ m # 0 /\ m - 1 \in Nat
  BY DEF Missing
<1>6. m - 1 \in S
  BY <1>4, <1>5 DEF Missing
<1> QED BY <1>5, <1>6 DEF Missing

\* a is what the voices are after each of up to N frames.
Frames(a, N) ==
  a = [n \in 0 .. N |-> IF n = 0 THEN sigs ELSE [v \in Voice |-> Envelope(a[n - 1][v])]]

\* However many frames are drawn, the recursion of Drawn has a value.
LEMMA FramesExist == ASSUME NEW N \in Nat PROVE \E a : Frames(a, N)
<1> DEFINE S == {k \in Nat : \E a : Frames(a, k)}
<1>1. 0 \in S
  <2>1. Frames([n \in 0 .. 0 |-> sigs], 0)
    BY DEF Frames
  <2> QED BY <2>1
<1>2. ASSUME NEW k \in S PROVE k + 1 \in S
  <2>0. k \in Nat
    OBVIOUS
  <2>1. PICK a : Frames(a, k)
    OBVIOUS
  <2> DEFINE b == [n \in 0 .. k + 1 |->
                     IF n <= k THEN a[n] ELSE [v \in Voice |-> Envelope(a[k][v])]]
  <2>2. b = [n \in 0 .. k + 1 |-> b[n]]
    OBVIOUS
  <2>3. \A n \in 0 .. k : b[n] = a[n]
    BY <2>0
  <2>5. b[k + 1] = [v \in Voice |-> Envelope(a[k][v])]
    BY <2>0
  <2> HIDE DEF b
  <2>6. a[0] = sigs
    BY <2>0, <2>1 DEF Frames
  <2>7. ASSUME NEW n \in 0 .. k + 1
        PROVE  b[n] = IF n = 0 THEN sigs ELSE [v \in Voice |-> Envelope(b[n - 1][v])]
    <3>1. CASE n = 0
      BY <2>0, <2>3, <2>6, <3>1
    <3>2. CASE n \in 1 .. k
      <4>1. b[n] = a[n] /\ b[n - 1] = a[n - 1]
        BY <2>0, <2>3, <3>2
      <4>2. a[n] = [v \in Voice |-> Envelope(a[n - 1][v])]
        BY <2>1, <3>2 DEF Frames
      <4> QED BY <3>2, <4>1, <4>2
    <3>3. CASE n = k + 1
      <4>1. b[n - 1] = a[k] /\ n # 0
        BY <2>0, <2>3, <3>3
      <4> QED BY <2>5, <3>3, <4>1
    <3> QED BY <2>0, <3>1, <3>2, <3>3
  <2>4. Frames(b, k + 1)
    BY <2>2, <2>7 DEF Frames
  <2> QED BY <2>4
<1> HIDE DEF S
<1>3. S = Nat
  BY <1>1, <1>2, NatSteps DEF S
<1> QED BY <1>3 DEF S

\* A write takes the voices through the frames of its room.
LEMMA DrawnFrames ==
  ASSUME Whole!Drawn
  PROVE  \E a : Frames(a, BufSize) /\ sigs' = a[room] /\ second' = second
<1> DEFINE after == CHOOSE a : Frames(a, BufSize)
<1>1. Frames(after, BufSize)
  BY FramesExist, LoopAssumption
<1>2. sigs' = after[room] /\ UNCHANGED second
  BY DEF Whole!Drawn, Frames, Envelope, Voice, Silent, Whole!V!Envelope, Whole!V!Voice, Whole!V!Silent
<1> QED BY <1>1, <1>2

\* From one frame to the next.
LEMMA FrameToFrame ==
  ASSUME NEW N \in Nat, NEW a, Frames(a, N)
  PROVE  /\ a[0] = sigs
         /\ \A n \in Nat : n + 1 <= N => a[n + 1] = [v \in Voice |-> Envelope(a[n][v])]
<1>1. ASSUME NEW n \in Nat, n + 1 <= N
      PROVE  a[n + 1] = [v \in Voice |-> Envelope(a[n][v])]
  <2>1. n + 1 \in 0 .. N /\ n + 1 # 0 /\ (n + 1) - 1 = n
    BY <1>1
  <2> QED BY <2>1 DEF Frames
<1>2. a[0] = sigs
  BY DEF Frames
<1> QED BY <1>1, <1>2

\* n frames of a voice as the property sees them.
SmoothOver(s, t, n) ==
  /\ t.curvol - s.curvol \in -(n * Step) .. n * Step
  /\ s # Silent /\ t # Silent => t.note = s.note /\ t.bar = s.bar

\* What n frames leave of a released voice.
Faded(s, n) == IF s.curvol <= n * Step THEN Silent
               ELSE [s EXCEPT !.curvol = @ - n * Step]

\* A frame more is a step more.
LEMMA OneMore == ASSUME NEW n \in Nat PROVE n * Step \in Nat /\ (n + 1) * Step = n * Step + Step
BY VoicesAssumption

\* The steps of several frames add up, as a silent voice stays so.
LEMMA SmoothOnce ==
  ASSUME NEW s \in Sig, NEW t \in Sig, Below(t), NEW n \in Nat, SmoothOver(s, t, n)
  PROVE  SmoothOver(s, Envelope(t), n + 1)
<1>1. /\ Envelope(t) \in Sig /\ Smooth(t, Envelope(t))
      /\ t.curvol \in Nat /\ s.curvol \in Nat /\ Envelope(t).curvol \in Nat
  BY EnvelopeSmooth DEF Sig
<1>2. PICK d \in Nat : d = n * Step /\ (n + 1) * Step = d + Step
  BY OneMore
<1>3. Envelope(t).curvol - s.curvol \in -((n + 1) * Step) .. (n + 1) * Step
  <2>1. t.curvol - s.curvol \in -d .. d /\ Envelope(t).curvol - t.curvol \in -Step .. Step
    BY <1>1, <1>2 DEF SmoothOver, Smooth
  <2>2. Envelope(t).curvol - s.curvol \in -(d + Step) .. d + Step
    BY <1>1, <2>1, VoicesAssumption
  <2> QED BY <1>2, <2>2
<1>4. t = Silent => Envelope(t) = Silent
  BY DEF Envelope, Silent
<1> QED BY <1>1, <1>3, <1>4 DEF SmoothOver, Smooth

\* A released voice fades frame by frame.
LEMMA FadesOnce ==
  ASSUME NEW s \in Sig, s.targetvol = 0, s.curvol > 0, NEW n \in Nat
  PROVE  Envelope(Faded(s, n)) = Faded(s, n + 1)
<1>1. PICK d \in Nat : d = n * Step /\ (n + 1) * Step = d + Step
  BY OneMore
<1>2. CASE s.curvol <= d
  <2>1. Faded(s, n) = Silent /\ Faded(s, n + 1) = Silent
    BY <1>1, <1>2, VoicesAssumption DEF Faded, Sig
  <2> QED BY <2>1 DEF Envelope, Silent
<1>3. CASE ~(s.curvol <= d)
  <2>1. Faded(s, n) = [s EXCEPT !.curvol = @ - d]
    BY <1>1, <1>3 DEF Faded
  <2>2. /\ s \in [note : Notes \cup {"none"}, bar : Nat, curvol : Nat, targetvol : Nat]
        /\ Step \in Nat \ {0}
    BY VoicesAssumption DEF Sig
  <2>3. CASE s.curvol - d <= Step
    <3>1. Envelope(Faded(s, n)) = Silent
      BY <1>3, <2>1, <2>2, <2>3 DEF Envelope
    <3>2. s.curvol <= (n + 1) * Step
      BY <1>1, <2>2, <2>3
    <3> QED BY <3>1, <3>2 DEF Faded
  <2>4. CASE ~(s.curvol - d <= Step)
    <3>1. Envelope(Faded(s, n)) = [s EXCEPT !.curvol = @ - (d + Step)]
      <4>1. PICK t : t = [s EXCEPT !.curvol = @ - d]
        OBVIOUS
      <4>2. /\ t.targetvol = 0 /\ t.curvol = s.curvol - d
            /\ t.curvol # 0 /\ ~(t.curvol <= Step)
        BY <1>3, <2>2, <2>4, <4>1
      <4>3. Envelope(t) = [t EXCEPT !.curvol = @ - Step]
        BY <4>2 DEF Envelope
      <4>4. [t EXCEPT !.curvol = @ - Step] = [s EXCEPT !.curvol = (s.curvol - d) - Step]
        BY <2>2, <4>1, <4>2
      <4>5. (s.curvol - d) - Step = s.curvol - (d + Step)
        BY <2>2
      <4> QED BY <2>1, <4>1, <4>3, <4>4, <4>5
    <3>2. ~(s.curvol <= (n + 1) * Step)
      BY <1>1, <2>2, <2>4
    <3> QED BY <1>1, <3>1, <3>2 DEF Faded
  <2> QED BY <2>3, <2>4
<1> QED BY <1>2, <1>3

\* What the frames of a write do to the voices.
Played(f, n) ==
  \A v \in Voice : /\ f[v] \in Sig /\ Below(f[v]) /\ SmoothOver(sigs[v], f[v], n)
                   /\ sigs[v].targetvol = 0 /\ sigs[v].curvol > 0
                        => f[v] = Faded(sigs[v], n)

\* It does so after every one of them.
LEMMA FramesPlayed ==
  ASSUME VoicesInv, NEW N \in Nat, NEW a, Frames(a, N)
  PROVE  \A n \in 0 .. N : Played(a[n], n)
<1> DEFINE S == {n \in Nat : n <= N => Played(a[n], n)}
<1>1. 0 \in S
  <2>1. ASSUME NEW v \in Voice
        PROVE  /\ sigs[v] \in Sig /\ Below(sigs[v])
               /\ SmoothOver(sigs[v], sigs[v], 0)
               /\ sigs[v].targetvol = 0 /\ sigs[v].curvol > 0
                        => sigs[v] = Faded(sigs[v], 0)
    <3>1. sigs[v] \in Sig /\ Below(sigs[v])
      BY DEF VoicesInv, VoicesTypeOK, BelowTarget
    <3>2. 0 * Step = 0
      BY VoicesAssumption
    <3>3. SmoothOver(sigs[v], sigs[v], 0)
      BY <3>1, <3>2 DEF SmoothOver, Sig
    <3>4. sigs[v].curvol > 0 => sigs[v] = Faded(sigs[v], 0)
      BY <3>1, <3>2 DEF Faded, Sig
    <3> QED BY <3>1, <3>3, <3>4
  <2> QED BY <2>1, FrameToFrame DEF Played
<1>2. ASSUME NEW n \in S PROVE n + 1 \in S
  <2>1. n \in Nat /\ (n <= N => Played(a[n], n))
    OBVIOUS
  <2>2. ASSUME n + 1 <= N PROVE Played(a[n + 1], n + 1)
    <3>1. Played(a[n], n)
      BY <2>1, <2>2
    <3>2. ASSUME NEW v \in Voice
          PROVE  /\ Envelope(a[n][v]) \in Sig /\ Below(Envelope(a[n][v]))
                 /\ SmoothOver(sigs[v], Envelope(a[n][v]), n + 1)
                 /\ sigs[v].targetvol = 0 /\ sigs[v].curvol > 0
                        => Envelope(a[n][v]) = Faded(sigs[v], n + 1)
      <4>1. sigs[v] \in Sig /\ a[n][v] \in Sig /\ Below(a[n][v])
            /\ SmoothOver(sigs[v], a[n][v], n)
        BY <3>1 DEF Played, VoicesInv, VoicesTypeOK
      <4>2. ASSUME sigs[v].targetvol = 0, sigs[v].curvol > 0
            PROVE  Envelope(a[n][v]) = Faded(sigs[v], n + 1)
        BY <2>1, <3>1, <4>1, <4>2, FadesOnce DEF Played
      <4> QED BY <2>1, <4>1, <4>2, EnvelopeSmooth, SmoothOnce
    <3>3. a[n + 1] = [v \in Voice |-> Envelope(a[n][v])]
      BY <2>1, <2>2, FrameToFrame
    <3> QED BY <3>2, <3>3 DEF Played
  <2> QED BY <2>1, <2>2
<1> HIDE DEF S
<1>3. S = Nat
  BY <1>1, <1>2, NatSteps DEF S
<1> QED BY <1>3 DEF S

-----------------------------------------------------------------------------
(* The voices in the whole: theorems                                       *)

\* The step that commits a write, and has drawn the frames of its room.
Commits == pc = "commit" /\ pc' = "status"

\* What a step of the whole does to the voices.
VoicesChange ==
  \/ Commits /\ Whole!Drawn
  \/ ~Commits /\ UNCHANGED voicesVars
  \/ ~Commits /\ \E n \in Notes : remove_note(n) \/ \E vol \in Vols : add_note(n, vol)

\* Only a commit and the handling of an event change voices.
LEMMA WholeChanges == [Whole!Next]_(Whole!vars) => VoicesChange
<1> SUFFICES ASSUME [Whole!Next]_(Whole!vars) PROVE VoicesChange
  OBVIOUS
<1>1. UNCHANGED Whole!voices => UNCHANGED voicesVars
  BY DEF Whole!voices, voicesVars
<1>2. CASE \/ Whole!Card
           \/ /\ Whole!L!PollFails \/ Whole!L!Suspend \/ Whole!L!Unplug \/ Whole!L!Arrive
              /\ UNCHANGED Whole!voices
  <2>1. UNCHANGED Whole!voices /\ (pc' # "status" \/ pc' = pc)
    BY <1>2 DEF Whole!Card, Whole!L!Card, Whole!L!Play, Whole!L!Suspend, Whole!L!Unplug,
                Whole!L!Arrive, Whole!L!PollFails, Whole!L!Return, Whole!L!loop
  <2> QED BY <1>1, <2>1 DEF VoicesChange, Commits
<1>3. CASE UNCHANGED Whole!vars
  BY <1>1, <1>3 DEF Whole!vars, Whole!loop, VoicesChange, Commits
<1>4. CASE Whole!Loop
  <2>1. CASE Commits
    BY <1>4, <2>1 DEF Whole!Loop, Commits, VoicesChange
  <2>2. CASE ~Commits /\ UNCHANGED Whole!voices
    BY <1>1, <2>2 DEF VoicesChange
  <2>3. CASE ~Commits /\ Whole!Handled
    <3>1. ASSUME NEW n \in Notes, Whole!V!remove_note(n) PROVE remove_note(n)
      BY <3>1 DEF Whole!V!remove_note, Whole!V!Voice, remove_note, Voice
    <3>2. ASSUME NEW n \in Notes, NEW vol \in Vols, Whole!V!add_note(n, vol)
          PROVE  add_note(n, vol)
      <4>1. Whole!V!Voice = Voice /\ Whole!V!Silent = Silent
        BY DEF Whole!V!Voice, Whole!V!Silent, Voice, Silent
      <4>2. Whole!V!Free = Free
        BY <4>1 DEF Whole!V!Free, Free
      <4>3. ASSUME NEW S PROVE Whole!V!Cardinality(S) = Cardinality(S)
        BY DEF Whole!V!Cardinality, Cardinality
      <4>4. Whole!V!Lowest(Bars) = Lowest(Bars)
        BY <4>2, <4>3 DEF Whole!V!Lowest, Lowest
      <4> QED BY <3>2, <4>1, <4>2, <4>3, <4>4 DEF Whole!V!add_note, add_note
    <3>3. CASE UNCHANGED Whole!voices
      BY <1>1, <2>3, <3>3 DEF VoicesChange
    <3>4. ASSUME NEW n \in Notes,
                 Whole!V!remove_note(n) \/ \E vol \in Vols : Whole!V!add_note(n, vol)
          PROVE  VoicesChange
      BY <2>3, <3>1, <3>2, <3>4 DEF VoicesChange
    <3> QED BY <2>3, <3>3, <3>4 DEF Whole!Handled
  <2> QED BY <1>4, <2>1, <2>2, <2>3 DEF Whole!Loop, Commits
<1> QED BY <1>2, <1>3, <1>4 DEF Whole!Next

\* A commit plays the frames of its room.
LEMMA CommitPlays ==
  ASSUME VoicesInv, room \in 0 .. BufSize, Whole!Drawn
  PROVE  VoicesInv' /\ Played(sigs', room)
<1>1. PICK a : Frames(a, BufSize) /\ sigs' = a[room] /\ second' = second
  BY DrawnFrames
<1>2. Played(sigs', room) /\ room \in Nat
  BY <1>1, FramesPlayed, LoopAssumption
<1>3. sigs' = [v \in Voice |-> sigs'[v]]
  <2>1. CASE room = 0
    BY <1>1, <2>1, FrameToFrame, LoopAssumption DEF VoicesInv, VoicesTypeOK
  <2>2. CASE room # 0
    <3>1. room - 1 \in Nat /\ (room - 1) + 1 = room /\ room <= BufSize
      BY <2>2
    <3>2. sigs' = [v \in Voice |-> Envelope(a[room - 1][v])]
      BY <1>1, <3>1, FrameToFrame, LoopAssumption
    <3> QED BY <3>2
  <2> QED BY <2>1, <2>2
<1> QED BY <1>1, <1>2, <1>3 DEF Played, VoicesInv, VoicesTypeOK, BelowTarget

\* Any other step moves no volume, and changes a released voice that sounds in
\* nothing.
KeepsVoice(v) ==
  /\ SmoothOver(sigs[v], sigs'[v], 0)
  /\ sigs[v].targetvol = 0 /\ sigs[v].curvol > 0 => sigs'[v] = sigs[v]

LEMMA OthersKeep ==
  ASSUME VoicesInv, ~Commits, VoicesChange
  PROVE  VoicesInv' /\ \A v \in Voice : KeepsVoice(v)
<1>1. 0 * Step = 0 /\ \A v \in Voice : sigs[v] \in Sig /\ sigs[v].curvol \in Nat
  BY VoicesAssumption DEF VoicesInv, VoicesTypeOK, Sig
<1>2. ASSUME NEW v \in Voice, Smooth(sigs[v], sigs'[v]), sigs'[v].curvol = sigs[v].curvol
      PROVE  SmoothOver(sigs[v], sigs'[v], 0)
  BY <1>1, <1>2 DEF Smooth, SmoothOver
<1>3. CASE UNCHANGED voicesVars
  <2>1. sigs' = sigs /\ VoicesInv'
    BY <1>3 DEF voicesVars, VoicesInv, VoicesTypeOK, BelowTarget
  <2>2. ASSUME NEW v \in Voice PROVE KeepsVoice(v)
    BY <1>1, <1>2, <2>1, SameSmooth DEF KeepsVoice
  <2> QED BY <2>1, <2>2
<1>4. ASSUME NEW n \in Notes, remove_note(n)
      PROVE  VoicesInv' /\ \A v \in Voice : KeepsVoice(v)
  <2>1. ASSUME NEW v \in Voice
        PROVE  /\ sigs'[v].curvol = sigs[v].curvol
               /\ sigs[v].targetvol = 0 => sigs'[v] = sigs[v]
    BY <1>4 DEF remove_note, VoicesInv, VoicesTypeOK, Sig
  <2> QED BY <1>2, <1>4, <2>1, RemoveNoteSmooth DEF KeepsVoice
<1>5. ASSUME NEW n \in Notes, NEW vol \in Vols, add_note(n, vol)
      PROVE  VoicesInv' /\ \A v \in Voice : KeepsVoice(v)
  <2>1. ASSUME NEW v \in Voice
        PROVE  /\ sigs'[v].curvol = sigs[v].curvol
               /\ sigs[v].curvol > 0 => sigs'[v] = sigs[v]
    <3>1. CASE v \in Lowest(Bars)
      <4>1. sigs[v] = Silent /\ sigs'[v].curvol = 0
        BY <1>5, <3>1 DEF add_note, Lowest, Free
      <4> QED BY <4>1 DEF Silent
    <3>2. CASE v \notin Lowest(Bars)
      BY <1>5, <3>2 DEF add_note
    <3> QED BY <3>1, <3>2
  <2> QED BY <1>2, <1>5, <2>1, AddNoteSmooth DEF KeepsVoice
<1> QED BY <1>3, <1>4, <1>5 DEF VoicesChange

\* The frames a step plays.
frames == IF Commits THEN room ELSE 0

\* Both properties of a step.
VoicesMove == \A v \in Voice : SmoothOver(sigs[v], sigs'[v], frames)
ReleasedFade ==
  \A v \in Voice : sigs[v].targetvol = 0 /\ sigs[v].curvol > 0
                     => sigs'[v] = Faded(sigs[v], frames)

\* The invariant is kept, and both hold, by what the loop's types allow.
LEMMA WholeKeepsVoices ==
  VoicesInv /\ TypeOK /\ [Whole!Next]_(Whole!vars)
    => VoicesInv' /\ VoicesMove /\ ReleasedFade
<1> SUFFICES ASSUME VoicesInv, TypeOK, VoicesChange
             PROVE  VoicesInv' /\ VoicesMove /\ ReleasedFade
  BY WholeChanges
<1>1. CASE Commits
  <2>1. Whole!Drawn /\ room \in 0 .. BufSize /\ frames = room
    BY <1>1 DEF VoicesChange, TypeOK, frames
  <2> QED BY <2>1, CommitPlays DEF Played, VoicesMove, ReleasedFade
<1>2. CASE ~Commits
  <2>1. frames = 0
    BY <1>2 DEF frames
  <2>2. \A v \in Voice : sigs[v].curvol > 0 => Faded(sigs[v], 0) = sigs[v]
    <3>1. 0 * Step = 0
      BY VoicesAssumption
    <3> QED BY <3>1 DEF Faded, VoicesInv, VoicesTypeOK, Sig
  <2> QED BY <1>2, <2>1, <2>2, OthersKeep DEF KeepsVoice, VoicesMove, ReleasedFade
<1> QED BY <1>1, <1>2

\* All voices are free at first.
LEMMA WholeInitVoices == Whole!Init => VoicesInv
<1>1. Whole!V!VoicesInit => VoicesInit
  BY DEF Whole!V!VoicesInit, Whole!V!Voice, Whole!V!Silent, VoicesInit, Voice, Silent
<1> QED BY <1>1, InitVoicesInv DEF Whole!Init

\* Whatever the loop does, a voice is one, and none that is held sounds louder
\* than its key press asked for.
THEOREM WholeBelowTarget == Whole!Spec => []VoicesInv
<1>1. IInv => TypeOK
  BY DEF IInv
<1> QED BY <1>1, WholeInitVoices, WholeKeepsVoices, SynthImplementsLoop, LoopInvariance,
           PTL DEF Whole!Spec

\* main.rs:178: whatever the loop does between two commits - events read, an
\* underrun recovered from - no voice's volume moves by more than a step for each
\* frame written, and no voice in use is taken by another note.
THEOREM WholeNeverJumps == Whole!Spec => [][VoicesMove]_(Whole!vars)
<1>1. IInv => TypeOK
  BY DEF IInv
<1> QED BY <1>1, WholeBelowTarget, WholeKeepsVoices, SynthImplementsLoop, LoopInvariance,
           PTL DEF Whole!Spec

\* A released voice that sounds loses a step for each frame written, to the last
\* at which it is given back, and nothing else touches it: not a note that needs
\* voices, not a second release, not an underrun.  VoicesReturn then only needs
\* frames to be written.
THEOREM WholeReleasedFade == Whole!Spec => [][ReleasedFade]_(Whole!vars)
<1>1. IInv => TypeOK
  BY DEF IInv
<1> QED BY <1>1, WholeBelowTarget, WholeKeepsVoices, SynthImplementsLoop, LoopInvariance,
           PTL DEF Whole!Spec

=============================================================================
