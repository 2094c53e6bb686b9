-------------------------- MODULE MmapPlaybackProofs --------------------------
(***************************************************************************)
(* What TLC checks on a ring of three frames, for every ring and however   *)
(* often the counters wrap: the types, that avail() is exact although      *)
(* commit may store an appl_ptr below zero, and that no frame that waits   *)
(* is overwritten (StreamInv says which frames of the stream the regions   *)
(* hold, and what is in the ring); and, as long as no commit leaves        *)
(* appl_ptr below zero, that playback implements FrameFifo.                *)
(***************************************************************************)
EXTENDS MmapPlayback, MmapRingProofs, SequenceTheorems, TLAPS

-----------------------------------------------------------------------------
(* Regions                                                                 *)

\* data_ptr hands out min(avail, buffer_size) frames in one region or two.
LEMMA DataPtrFrames ==
  ASSUME NEW v \in Nat, NEW a \in Int,
         NEW regions, regions = DataPtr(v, a)
  PROVE  /\ regions \in Seq(Region)
         /\ (Len(regions) = 1 \/ Len(regions) = 2)
         /\ FramesIn(regions) \in 0 .. BufSize
         /\ FramesIn(regions) <= v
<1> DEFINE offs == RustRem(a, BufSize)
           m    == IF v <= BufSize THEN v ELSE BufSize
           b    == BufSize - offs
           at1  == offs * Channels
<1>1. offs \in Int /\ -BufSize < offs /\ offs < BufSize
  BY RustRemRange, RingAssumption
<1>2. at1 \in Int
  BY <1>1, RingAssumption
<1>3. m \in 0 .. BufSize /\ m <= v /\ b \in Int /\ b > 0
  BY <1>1, RingAssumption
<1> HIDE DEF offs, at1, m, b
<1>4. regions = IF b < m
                THEN <<[at |-> at1, frames |-> b], [at |-> 0, frames |-> m - b]>>
                ELSE <<[at |-> at1, frames |-> m]>>
  BY DEF DataPtr, offs, m, b, at1
<1>5. CASE b < m
  <2>1. /\ [at |-> at1, frames |-> b] \in Region
        /\ [at |-> 0, frames |-> m - b] \in Region
    BY <1>2, <1>3, <1>5, RingAssumption DEF Region
  <2>2. regions = <<[at |-> at1, frames |-> b], [at |-> 0, frames |-> m - b]>>
    BY <1>4, <1>5
  <2> QED BY <2>1, <2>2, <1>3, RingAssumption DEF FramesIn
<1>6. CASE ~(b < m)
  <2>1. [at |-> at1, frames |-> m] \in Region
    BY <1>2, <1>3, RingAssumption DEF Region
  <2>2. regions = <<[at |-> at1, frames |-> m]>>
    BY <1>4, <1>6
  <2> QED BY <2>1, <2>2, <1>3, RingAssumption DEF FramesIn
<1> QED BY <1>5, <1>6

-----------------------------------------------------------------------------
(* The inductive invariant                                                 *)

\* Freshly prepared, both counters are zero and nothing waits.
LEMMA InitIInv == Init => IInv
<1> SUFFICES ASSUME Init PROVE IInv
  OBVIOUS
<1>1. TypeOK
  BY RingAssumption, PlaybackAssumption DEF Init, TypeOK
<1>2. CountersAgree
  BY RingAssumption DEF Init, CountersAgree, applPtr, AsFrames
<1> QED BY <1>1, <1>2 DEF Init, IInv, CallBounded, RunningHasFrames

\* In a state of the invariant, avail() is exact.
LEMMA IInvAvail == IInv => AvailExact
<1> SUFFICES ASSUME IInv PROVE AvailExact
  OBVIOUS
<1>1. hw \in 0 .. Boundary - 1 /\ pending \in -BufSize .. BufSize
  BY RingAssumption, PlaybackAssumption DEF IInv, TypeOK
<1>2. /\ applPtr \in -BufSize .. Boundary - 1
      /\ applPtr - hw - pending \in {-Boundary, 0, Boundary}
  BY DEF IInv, CountersAgree
<1> QED BY <1>1, <1>2, AvailPlaybackValue DEF AvailExact, avail

\* write starts: it may store no more frames than there is room for.
LEMMA BeginWriteStep == IInv /\ BeginWrite => IInv'
<1> SUFFICES ASSUME IInv, BeginWrite PROVE IInv'
  OBVIOUS
<1> USE DEF BeginWrite, card
<1>1. avail = BufSize - pending /\ avail \in Nat
  BY IInvAvail, RingAssumption DEF AvailExact, IInv, TypeOK
<1>2. applPtr \in Int
  BY RingAssumption DEF IInv, CountersAgree
<1>3. /\ todo' \in Seq(Region)
      /\ (Len(todo') = 1 \/ Len(todo') = 2)
      /\ FramesIn(todo') \in 0 .. BufSize /\ FramesIn(todo') <= avail
  BY <1>1, <1>2, DataPtrFrames
<1>4. TypeOK'
  <2>1. todo' \in Seq(Region) /\ Len(todo') \in 0 .. 2
    BY <1>3
  <2> QED BY <2>1 DEF IInv, TypeOK
<1>5. CountersAgree'
  BY DEF IInv, CountersAgree, applPtr
<1>6. CallBounded'
  <2>1. todo' # <<>> /\ todo'[1] \in Region /\ z' = 0 /\ done' = 0
    BY <1>3 DEF IInv, CallBounded
  <2>2. z' <= SamplesOf(todo'[1])
    BY <2>1, RingAssumption DEF SamplesOf, Region
  <2>3. pc' = "store" /\ pending' = pending /\ pending \in Int
    BY RingAssumption, PlaybackAssumption DEF IInv, TypeOK
  <2> HIDE DEF BeginWrite
  <2> QED BY <1>1, <1>3, <2>1, <2>2, <2>3, RingAssumption DEF CallBounded, SamplesOf
<1> QED BY <1>4, <1>5, <1>6 DEF IInv, RunningHasFrames

\* A sample goes to the current region: no counter moves.
LEMMA StoreSampleStep == ASSUME NEW s \in Sample, IInv, StoreSample(s) PROVE IInv'
<1> USE DEF StoreSample, card
<1>1. TypeOK'
  BY DEF IInv, TypeOK
<1>2. CountersAgree'
  BY DEF IInv, CountersAgree, applPtr
<1>3. CallBounded'
  <2>1. todo[1] \in Region /\ z \in Nat
    BY DEF IInv, CallBounded, TypeOK
  <2>2. SamplesOf(todo[1]) \in Int
    BY <2>1, RingAssumption DEF SamplesOf, Region
  <2>3. z' <= SamplesOf(todo[1])
    BY <2>1, <2>2
  <2> QED BY <2>3 DEF IInv, CallBounded, FramesIn, SamplesOf
<1> QED BY <1>1, <1>2, <1>3 DEF IInv, RunningHasFrames

\* The current region has a whole number of frames no larger than its size in
\* the samples written to it.
LEMMA FramesOfRegion ==
  ASSUME IInv, pc = "store"
  PROVE  /\ todo \in Seq(Region) /\ (Len(todo) = 1 \/ Len(todo) = 2)
         /\ todo[1] \in Region /\ (Len(todo) = 2 => todo[2] \in Region)
         /\ z \div Channels \in 0 .. todo[1].frames
<1>1. todo \in Seq(Region) /\ (Len(todo) = 1 \/ Len(todo) = 2) /\ z \in Nat
  <2>1. todo \in Seq(Region) /\ Len(todo) \in 0 .. 2 /\ todo # <<>> /\ z \in Nat
    BY DEF IInv, TypeOK, CallBounded
  <2>2. Len(todo) \in Nat \ {0}
    BY <2>1, EmptySeq
  <2> QED BY <2>1, <2>2
<1>2. todo[1] \in Region /\ (Len(todo) = 2 => todo[2] \in Region)
  BY <1>1
<1>3. z <= todo[1].frames * Channels
  BY DEF IInv, CallBounded, SamplesOf
<1> QED BY <1>1, <1>2, <1>3, WholeFramesBound DEF Region

\* The iterator ends: what is left of the regions is not stored.
LEMMA IterEndsStep == IInv /\ IterEnds => IInv'
<1> SUFFICES ASSUME IInv, IterEnds PROVE IInv'
  OBVIOUS
<1> USE DEF IterEnds, card
<1>1. /\ todo[1] \in Region /\ (Len(todo) = 1 \/ Len(todo) = 2)
      /\ Len(todo) = 2 => todo[2] \in Region
      /\ z \div Channels \in 0 .. todo[1].frames
  BY FramesOfRegion
<1>2. /\ done + FramesIn(todo) <= BufSize
      /\ done + FramesIn(todo) + pending <= BufSize
      /\ done \in Nat /\ pending \in Int
  BY RingAssumption, PlaybackAssumption DEF IInv, CallBounded, TypeOK
<1>3. todo[1].frames <= FramesIn(todo) /\ FramesIn(todo) \in Int
  <2>1. CASE Len(todo) = 1
    BY <1>1, <2>1, RingAssumption DEF FramesIn, Region
  <2>2. CASE Len(todo) = 2
    BY <1>1, <2>2, RingAssumption DEF FramesIn, Region
  <2> QED BY <1>1, <2>1, <2>2
<1>4. done' \in 0 .. BufSize /\ done' + pending' <= BufSize
  BY <1>1, <1>2, <1>3, RingAssumption DEF Region
<1>5. TypeOK'
  BY <1>4 DEF IInv, TypeOK
<1>6. CountersAgree'
  BY DEF IInv, CountersAgree, applPtr
<1>7. CallBounded'
  BY <1>4 DEF CallBounded
<1> QED BY <1>5, <1>6, <1>7 DEF IInv, RunningHasFrames

\* A region is full: write goes on with the second one or commits.
LEMMA RegionFullStep == IInv /\ RegionFull => IInv'
<1> SUFFICES ASSUME IInv, RegionFull PROVE IInv'
  OBVIOUS
<1>1. /\ todo \in Seq(Region) /\ (Len(todo) = 1 \/ Len(todo) = 2)
      /\ todo[1] \in Region /\ (Len(todo) = 2 => todo[2] \in Region)
      /\ z \div Channels \in 0 .. todo[1].frames
  BY FramesOfRegion DEF RegionFull
<1>2. /\ done + FramesIn(todo) <= BufSize
      /\ done + FramesIn(todo) + pending <= BufSize
      /\ done \in Nat /\ pending \in Int
  BY RingAssumption, PlaybackAssumption DEF RegionFull, IInv, CallBounded, TypeOK
<1>3. done' = done + z \div Channels /\ pending' = pending
  BY DEF RegionFull
<1>4. CountersAgree'
  BY DEF RegionFull, card, IInv, CountersAgree, applPtr
<1>5. CASE Len(todo) = 2
  <2>1. pc' = "store" /\ todo' = Tail(todo) /\ z' = 0
    BY <1>5 DEF RegionFull
  <2>2. FramesIn(todo) = todo[1].frames + todo[2].frames
    BY <1>5 DEF FramesIn
  <2>3. /\ todo' \in Seq(Region) /\ Len(todo') = 1
        /\ todo'[1] = todo[2] /\ todo' # <<>>
    <3>1. todo # <<>>
      BY <1>5
    <3>2. Tail(todo) \in Seq(Region) /\ Len(Tail(todo)) = 1
      BY <1>1, <1>5, <3>1, HeadTailProperties
    <3>3. Tail(todo)[1] = todo[2]
      <4>1. \A i \in 1 .. Len(Tail(todo)) : Tail(todo)[i] = todo[i + 1]
        BY <1>1, <3>1, HeadTailProperties
      <4> QED BY <3>2, <4>1
    <3>4. Tail(todo) # <<>>
      <4>1. Len(<<>>) = 0 /\ 0 # 1
        OBVIOUS
      <4> QED BY <3>2, <4>1, Zenon
    <3> QED BY <2>1, <3>2, <3>3, <3>4, Zenon
  <2>4. FramesIn(todo') = todo[2].frames
    BY <2>3 DEF FramesIn
  <2>5. /\ done' + FramesIn(todo') <= BufSize
        /\ done' + FramesIn(todo') + pending' <= BufSize
        /\ done' \in 0 .. BufSize
    <3> DEFINE n == z \div Channels
    <3>1. /\ n \in 0 .. todo[1].frames /\ done' = done + n
          /\ todo[1].frames \in Nat /\ todo[2].frames \in Nat
      BY <1>1, <1>3, <1>5, RingAssumption DEF Region
    <3> HIDE DEF n
    <3> QED BY <1>2, <1>3, <2>2, <2>4, <3>1, RingAssumption
  <2>6. z' <= SamplesOf(todo'[1])
    BY <1>1, <1>5, <2>1, <2>3, RingAssumption DEF SamplesOf, Region
  <2>7. TypeOK'
    BY <2>1, <2>3, <2>5 DEF RegionFull, card, IInv, TypeOK
  <2>8. CallBounded'
    BY <2>1, <2>3, <2>5, <2>6 DEF CallBounded, SamplesOf
  <2> QED BY <1>4, <2>7, <2>8 DEF RegionFull, card, IInv, RunningHasFrames
<1>6. CASE Len(todo) = 1
  <2>1. pc' = "commit" /\ todo' = todo /\ z' = z
    BY <1>6 DEF RegionFull
  <2>2. FramesIn(todo) = todo[1].frames
    BY <1>6 DEF FramesIn
  <2>3. done' \in 0 .. BufSize /\ done' + pending' <= BufSize
    <3> DEFINE n == z \div Channels
    <3>1. /\ n \in 0 .. todo[1].frames /\ done' = done + n
          /\ todo[1].frames \in Nat
      BY <1>1, <1>3, RingAssumption DEF Region
    <3> HIDE DEF n
    <3> QED BY <1>2, <1>3, <2>2, <3>1, RingAssumption
  <2>4. TypeOK'
    BY <2>1, <2>3 DEF RegionFull, card, IInv, TypeOK
  <2>5. CallBounded'
    BY <2>1, <2>3 DEF CallBounded
  <2> QED BY <1>4, <2>4, <2>5 DEF RegionFull, card, IInv, RunningHasFrames
<1> QED BY <1>1, <1>5, <1>6

\* commit: appl_ptr moves by what was stored, and so does the count of frames
\* that wait; the difference may only grow or shrink by a turn of Boundary.
LEMMA CommitStep == IInv /\ Commit => IInv'
<1> SUFFICES ASSUME IInv, Commit PROVE IInv'
  OBVIOUS
<1> DEFINE new == CommitTo(applPtr, done)
<1>1. /\ applPtr \in -BufSize .. Boundary - 1
      /\ applPtr - hw - pending \in {-Boundary, 0, Boundary}
      /\ done \in 0 .. BufSize /\ done + pending <= BufSize
      /\ pending \in -MaxOverrun .. BufSize
      /\ hw \in 0 .. Boundary - 1
  BY DEF Commit, IInv, CountersAgree, CallBounded, TypeOK
<1>2. new \in -BufSize .. Boundary - 1 /\ new - applPtr - done \in {-Boundary, 0}
  BY <1>1, CommitToValue
<1>3. appl' \in 0 .. 2 * HalfWord - 1 /\ applPtr' = new
  BY <1>2, CastRoundTrip DEF Commit, applPtr
<1> HIDE DEF new
<1>4. pending' = pending + done /\ pending' \in -MaxOverrun .. BufSize /\ hw' = hw
  BY <1>1, RingAssumption, PlaybackAssumption DEF Commit, card
<1>5. CountersAgree'
  BY <1>1, <1>2, <1>3, <1>4, RingAssumption, PlaybackAssumption DEF CountersAgree
<1>6. TypeOK'
  <2>1. todo' = <<>> /\ yielded' = <<>> /\ done' = 0 /\ z' = 0
    BY DEF Commit
  <2> QED BY <1>3, <1>4, <2>1, RingAssumption DEF Commit, card, IInv, TypeOK
<1>7. CallBounded'
  BY DEF Commit, CallBounded
<1>8. RunningHasFrames'
  BY <1>1, <1>4, RingAssumption, PlaybackAssumption
     DEF Commit, card, IInv, RunningHasFrames
<1> QED BY <1>5, <1>6, <1>7, <1>8 DEF IInv

\* start needs a frame to play.
LEMMA StartStep == IInv /\ Start => IInv'
<1> SUFFICES ASSUME IInv, Start PROVE IInv'
  OBVIOUS
<1> USE DEF Start, call
<1>1. TypeOK'
  BY DEF IInv, TypeOK
<1>2. CountersAgree' /\ CallBounded'
  BY DEF IInv, CountersAgree, applPtr, CallBounded
<1> QED BY <1>1, <1>2 DEF IInv, RunningHasFrames

\* prepare sets both counters to zero.
LEMMA PrepareStep == IInv /\ Prepare => IInv'
<1> SUFFICES ASSUME IInv, Prepare PROVE IInv'
  OBVIOUS
<1> USE DEF Prepare, call
<1>1. TypeOK'
  BY RingAssumption, PlaybackAssumption DEF IInv, TypeOK
<1>2. CountersAgree'
  BY RingAssumption DEF CountersAgree, applPtr, AsFrames
<1>3. CallBounded'
  BY DEF IInv, CallBounded
<1> QED BY <1>1, <1>2, <1>3 DEF IInv, RunningHasFrames

\* Arithmetic of an advance of the card by n frames, over a turn or not.
LEMMA AdvanceArithmetic ==
  ASSUME NEW a \in -BufSize .. Boundary - 1,
         NEW h \in 0 .. Boundary - 1,
         NEW p \in 1 .. BufSize,
         NEW n \in 1 .. p + MaxOverrun,
         a - h - p \in {-Boundary, 0, Boundary},
         NEW h2, h2 = IF h + n >= Boundary THEN h + n - Boundary ELSE h + n
  PROVE  /\ h2 \in 0 .. Boundary - 1
         /\ p - n \in -MaxOverrun .. BufSize
         /\ a - h2 - (p - n) \in {-Boundary, 0, Boundary}
<1>1. /\ BufSize \in Nat /\ Boundary \in Nat /\ MaxOverrun \in Nat
      /\ MaxOverrun < BufSize /\ 4 * BufSize <= Boundary
  BY RingAssumption, PlaybackAssumption
<1>2. h2 \in 0 .. Boundary - 1 /\ h2 - h - n \in {-Boundary, 0}
  BY <1>1
<1>3. p - n \in -MaxOverrun .. BufSize /\ a - h2 - (p - n) < 2 * Boundary
  BY <1>1, <1>2
<1>4. a - h2 - (p - n) = (a - h - p) - (h2 - h - n)
  BY <1>1, <1>2
<1> QED BY <1>1, <1>2, <1>3, <1>4

\* With fewer frames waiting, what fitted still fits.
LEMMA RoomGrows ==
  ASSUME NEW d \in Int, NEW p \in Int, NEW q \in Int, q <= p, d + p <= BufSize
  PROVE  d + q <= BufSize
BY RingAssumption

\* The card plays: there is more room than before, never less.
LEMMA HwAdvanceStep ==
  ASSUME NEW n \in 1 .. BufSize + MaxOverrun, IInv, HwAdvance(n)
  PROVE  IInv'
<1>1. /\ applPtr \in -BufSize .. Boundary - 1
      /\ applPtr - hw - pending \in {-Boundary, 0, Boundary}
      /\ hw \in 0 .. Boundary - 1
      /\ pending \in 1 .. BufSize
      /\ n \in 1 .. pending + MaxOverrun
  BY RingAssumption, PlaybackAssumption
     DEF HwAdvance, IInv, CountersAgree, TypeOK, RunningHasFrames
<1>2. /\ pending' = pending - n
      /\ hw' = IF hw + n >= Boundary THEN hw + n - Boundary ELSE hw + n
      /\ applPtr' = applPtr
      /\ UNCHANGED <<appl, ring, pc, todo, z, done, yielded>>
  BY DEF HwAdvance, applPtr, call
<1>3. /\ hw' \in 0 .. Boundary - 1
      /\ pending - n \in -MaxOverrun .. BufSize
      /\ applPtr - hw' - (pending - n) \in {-Boundary, 0, Boundary}
  BY <1>1, <1>2, AdvanceArithmetic
<1>4. CountersAgree'
  BY <1>1, <1>2, <1>3 DEF CountersAgree
<1>5. TypeOK'
  <2>1. state' \in {"Prepared", "Running", "XRun"}
    BY DEF HwAdvance
  <2> QED BY <1>2, <1>3, <2>1 DEF IInv, TypeOK
<1>6. CallBounded'
  <2>1. pending - n \in Int /\ pending \in Int /\ pending - n <= pending
    BY <1>1
  <2>2. ASSUME pc = "store" PROVE done + FramesIn(todo) + (pending - n) <= BufSize
    <3>1. /\ todo[1].frames \in Int /\ (Len(todo) = 1 \/ Len(todo) = 2)
          /\ Len(todo) = 2 => todo[2].frames \in Int
      BY <2>2, FramesOfRegion DEF Region
    <3>2. done + FramesIn(todo) \in Int
      BY <3>1 DEF FramesIn, IInv, TypeOK
    <3>3. done + FramesIn(todo) + pending <= BufSize
      BY <2>2 DEF IInv, CallBounded
    <3> QED BY <2>1, <3>2, <3>3, RoomGrows
  <2>3. ASSUME pc = "commit" PROVE done + (pending - n) <= BufSize
    <3>1. done \in Int /\ done + pending <= BufSize
      BY <2>3 DEF IInv, TypeOK, CallBounded
    <3> QED BY <2>1, <3>1, RoomGrows
  <2> QED BY <1>2, <2>2, <2>3 DEF IInv, CallBounded, SamplesOf
<1>7. RunningHasFrames'
  BY <1>1, RingAssumption, PlaybackAssumption DEF HwAdvance, RunningHasFrames
<1> QED BY <1>4, <1>5, <1>6, <1>7 DEF IInv

\* Every step of write, of the card and of the PCM keeps the invariant.
LEMMA NextIInv == IInv /\ [Next]_vars => IInv'
<1> SUFFICES ASSUME IInv, [Next]_vars PROVE IInv'
  OBVIOUS
<1>1. CASE BeginWrite
  BY <1>1, BeginWriteStep
<1>2. ASSUME NEW s \in Sample, StoreSample(s) PROVE IInv'
  BY <1>2, StoreSampleStep
<1>3. CASE IterEnds
  BY <1>3, IterEndsStep
<1>4. CASE RegionFull
  BY <1>4, RegionFullStep
<1>5. CASE Commit
  BY <1>5, CommitStep
<1>6. CASE Start
  BY <1>6, StartStep
<1>7. CASE Prepare
  BY <1>7, PrepareStep
<1>8. ASSUME NEW n \in 1 .. BufSize + MaxOverrun, HwAdvance(n) PROVE IInv'
  BY <1>8, HwAdvanceStep
<1>9. CASE UNCHANGED vars
  <2> USE <1>9 DEF vars
  <2>1. TypeOK' /\ CountersAgree'
    BY DEF IInv, TypeOK, CountersAgree, applPtr
  <2>2. CallBounded' /\ RunningHasFrames'
    BY DEF IInv, CallBounded, SamplesOf, RunningHasFrames
  <2> QED BY <2>1, <2>2 DEF IInv
<1> QED BY <1>1, <1>2, <1>3, <1>4, <1>5, <1>6, <1>7, <1>8, <1>9 DEF Next, Write

\* Types: the pages, write's locals and the counters stay in range in every
\* reachable state of every ring.
THEOREM TypeCorrect == Spec => []TypeOK
<1>1. IInv => TypeOK
  BY DEF IInv
<1> QED BY InitIInv, NextIInv, <1>1, PTL DEF Spec

\* avail() always returns the room there is: the frames of the ring less those
\* committed and not yet played, whatever the counters did at the boundary and
\* however far the card ran ahead.
THEOREM AvailAlwaysExact == Spec => []AvailExact
BY InitIInv, NextIInv, IInvAvail, PTL DEF Spec

\* The invariant itself: the counters agree up to a turn of the boundary, a
\* commit never overfills the ring, and a running stream has frames to play.
THEOREM Invariance == Spec => []IInv
BY InitIInv, NextIInv, PTL DEF Spec

\* Between data_ptr and commit, avail() never decreases: only commit takes room,
\* and only the card gives it back.
THEOREM RoomIsStable == Spec => RoomNeverShrinks
<1>1. IInv /\ IInv' /\ [Next]_vars => [pc # "idle" /\ pc' # "idle" => avail' >= avail]_vars
  <2> SUFFICES ASSUME IInv, IInv', Next, pc # "idle", pc' # "idle"
               PROVE  avail' >= avail
    BY DEF vars
  <2>1. avail = BufSize - pending /\ avail' = BufSize - pending'
    <3>1. AvailExact /\ AvailExact'
      BY IInvAvail, PTL
    <3> QED BY <3>1 DEF AvailExact
  <2>2. pending \in Int /\ pending' \in Int
    BY DEF IInv, TypeOK
  <2>3. pending' <= pending
    <3>1. ASSUME NEW n \in 1 .. BufSize + MaxOverrun, HwAdvance(n)
          PROVE  pending' <= pending
      BY <2>2, <3>1, RingAssumption, PlaybackAssumption DEF HwAdvance
    <3>2. CASE BeginWrite \/ (\E s \in Sample : StoreSample(s)) \/ IterEnds \/ RegionFull
      BY <2>2, <3>2 DEF BeginWrite, StoreSample, IterEnds, RegionFull
    <3>3. ~Commit /\ ~Start /\ ~Prepare
      BY DEF Commit, Start, Prepare, call
    <3> QED BY <3>1, <3>2, <3>3 DEF Next, Write
  <2>4. BufSize - pending' >= BufSize - pending
    <3>1. \A p, q \in Int : q <= p => BufSize - q >= BufSize - p
      BY RingAssumption
    <3> QED BY <2>2, <2>3, <3>1
  <2> QED BY <2>1, <2>4
<1> QED BY InitIInv, NextIInv, <1>1, PTL DEF Spec, RoomNeverShrinks

-----------------------------------------------------------------------------
(* Where the regions lie, wraps and all                                    *)

\* data_ptr: no region runs past the end of the ring, and one that begins
\* before the ring comes from a number below zero.
LEMMA DataPtrBounded ==
  ASSUME NEW v \in Nat, NEW a \in Int, NEW regions, regions = DataPtr(v, a),
         NEW k \in DOMAIN regions
  PROVE  /\ regions[k].at + SamplesOf(regions[k]) <= BufSize * Channels
         /\ a >= 0 => regions[k].at >= 0
<1> DEFINE offs == RustRem(a, BufSize)
           m    == IF v <= BufSize THEN v ELSE BufSize
           b    == BufSize - offs
<1>1. /\ offs \in Int /\ -BufSize < offs /\ offs < BufSize
      /\ a >= 0 => offs >= 0
  <2>1. offs \in Int /\ -BufSize < offs /\ offs < BufSize
    BY RustRemRange, RingAssumption
  <2>2. a >= 0 => offs >= 0
    BY RingAssumption DEF RustRem
  <2> QED BY <2>1, <2>2
<1>2. m \in 0 .. BufSize /\ b \in Int /\ b > 0 /\ offs + b = BufSize
  BY <1>1, RingAssumption
<1> DEFINE n == IF b < m THEN b ELSE m
<1>3. n \in 0 .. BufSize /\ n <= b /\ offs + n <= BufSize
  BY <1>1, <1>2, RingAssumption
<1> DEFINE r == [at |-> offs * Channels, frames |-> n]
           s == [at |-> 0, frames |-> m - b]
<1>4. /\ r.at + SamplesOf(r) <= BufSize * Channels
      /\ a >= 0 => r.at >= 0
  <2> HIDE DEF offs, n
  <2>1. BufSize \in Int
    BY RingAssumption
  <2>2. offs \in Int /\ n \in Int /\ offs + n \in Int
    BY <1>1, <1>3
  <2>3. (offs + n) * Channels <= BufSize * Channels
    BY <1>3, <2>1, <2>2, Samples
  <2>4. (offs + n) * Channels = offs * Channels + n * Channels
    BY <2>2, Samples
  <2>5. offs >= 0 => offs * Channels >= 0
    BY <2>2, Samples
  <2> QED BY <1>1, <2>3, <2>4, <2>5 DEF SamplesOf
<1>5. b < m => s.at + SamplesOf(s) <= BufSize * Channels /\ s.at >= 0
  <2> HIDE DEF m, b
  <2> SUFFICES ASSUME b < m PROVE (m - b) * Channels <= BufSize * Channels
                                  /\ (m - b) * Channels \in Int
    BY DEF SamplesOf
  <2>1. m - b \in Int /\ m - b <= BufSize /\ BufSize \in Int
    BY <1>2, RingAssumption
  <2> QED BY <2>1, Samples
<1>6. regions = IF b < m THEN <<r, s>> ELSE <<r>>
  BY DEF DataPtr
<1> HIDE DEF r, s
<1>7. CASE b < m
  <2>1. regions = <<r, s>>
    BY <1>6, <1>7
  <2>2. regions[k] = r \/ regions[k] = s
    BY <2>1
  <2> QED BY <1>4, <1>5, <1>7, <2>2
<1>8. CASE ~(b < m)
  <2>1. regions = <<r>>
    BY <1>6, <1>8
  <2>2. regions[k] = r
    BY <2>1
  <2> QED BY <1>4, <2>2
<1> QED BY <1>7, <1>8

LEMMA NextBounded == IInv /\ RegionsBounded /\ [Next]_vars => RegionsBounded'
<1> SUFFICES ASSUME IInv, RegionsBounded, [Next]_vars PROVE RegionsBounded'
  OBVIOUS
<1>1. CASE BeginWrite
  <2>1. todo' = DataPtr(avail, applPtr) /\ appl' = appl /\ applPtr' = applPtr
    BY <1>1 DEF BeginWrite, applPtr
  <2>2. avail \in Nat /\ applPtr \in Int
    BY IInvAvail, RingAssumption DEF AvailExact, IInv, TypeOK, CountersAgree
  <2>3. ASSUME NEW k \in DOMAIN todo'
        PROVE  /\ todo'[k].at + SamplesOf(todo'[k]) <= BufSize * Channels
               /\ applPtr >= 0 => todo'[k].at >= 0
    BY <2>1, <2>2, <2>3, DataPtrBounded
  <2> QED BY <2>1, <2>3 DEF RegionsBounded, SamplesOf
<1>2. CASE todo' = todo /\ appl' = appl
  BY <1>2 DEF RegionsBounded, SamplesOf, applPtr
<1>3. CASE RegionFull
  <2>1. appl' = appl /\ (todo' = todo \/ (todo' = Tail(todo) /\ Len(todo) = 2))
    BY <1>3 DEF RegionFull
  <2>2. CASE todo' = Tail(todo) /\ Len(todo) = 2
    <3>1. DOMAIN todo' = {1} /\ todo'[1] = todo[2] /\ 2 \in DOMAIN todo
      <4>1. todo \in Seq(Region)
        BY DEF IInv, TypeOK
      <4>2. todo # <<>>
        BY <2>2, <4>1
      <4>3. Tail(todo) \in Seq(Region) /\ Len(Tail(todo)) = 1
        BY <2>2, <4>1, <4>2, HeadTailProperties
      <4>4. \A i \in 1 .. Len(Tail(todo)) : Tail(todo)[i] = todo[i + 1]
        BY <4>1, <4>2, HeadTailProperties
      <4>5. DOMAIN Tail(todo) = 1 .. Len(Tail(todo)) /\ DOMAIN todo = 1 .. Len(todo)
        BY <4>1, <4>3, LenProperties
      <4> QED BY <2>2, <4>3, <4>4, <4>5
    <3>2. /\ todo[2].at + SamplesOf(todo[2]) <= BufSize * Channels
          /\ applPtr >= 0 => todo[2].at >= 0
      BY <3>1 DEF RegionsBounded
    <3>3. \A k \in DOMAIN todo' : todo'[k] = todo[2]
      BY <3>1
    <3>4. applPtr' = applPtr
      BY <2>1 DEF applPtr
    <3> QED BY <3>2, <3>3, <3>4 DEF RegionsBounded, SamplesOf
  <2> QED BY <1>2, <2>1, <2>2
<1>4. CASE Commit \/ Prepare
  <2>1. todo' = <<>>
    BY <1>4 DEF Commit, Prepare, call, IInv, CallBounded
  <2> QED BY <2>1 DEF RegionsBounded
<1>5. CASE UNCHANGED vars
  BY <1>2, <1>5 DEF vars
<1>6. ASSUME NEW s \in Sample, StoreSample(s) PROVE todo' = todo /\ appl' = appl
  BY <1>6 DEF StoreSample
<1>7. ASSUME NEW n \in 1 .. BufSize + MaxOverrun, HwAdvance(n)
      PROVE  todo' = todo /\ appl' = appl
  BY <1>7 DEF HwAdvance, call
<1>8. IterEnds \/ Start => todo' = todo /\ appl' = appl
  BY DEF IterEnds, Start, call
<1> QED BY <1>1, <1>2, <1>3, <1>4, <1>5, <1>6, <1>7, <1>8 DEF Next, Write

\* The regions handed out never run past the end of the ring, and begin in it
\* unless commit has left appl_ptr below zero: for every ring and however often
\* the counters wrap, that is the one way out of the ring.
THEOREM RegionsStayBounded == Spec => []RegionsBounded
<1>1. Init => RegionsBounded
  BY DEF Init, RegionsBounded
<1>2. IInv /\ RegionsBounded /\ [Next]_vars => RegionsBounded'
  BY NextBounded
<1> QED BY InitIInv, NextIInv, <1>1, <1>2, PTL DEF Spec

-----------------------------------------------------------------------------
(* What the regions are and what is in the ring                            *)

\* Where appl_ptr is in the stream, a boundary further on: as commit may leave
\* it below zero, this is where it can be counted from.
tail == applPtr + Boundary

\* Region r begins b frames after appl_ptr and is within the room there is; it
\* begins before the ring only when appl_ptr is below zero.
Placed(r, b) ==
  /\ \/ BeginsAt(r, tail + b)
     \/ applPtr < 0 /\ BeginsBelow(r, tail + b)
  /\ b + r.frames <= BufSize
  /\ b + r.frames + pending <= BufSize

\* The regions of data_ptr follow each other; the one being filled comes after
\* the frames already stored.
RegionsPlaced ==
  /\ \A k \in DOMAIN todo : \E b \in 0 .. BufSize : Placed(todo[k], b)
  /\ pc = "store" =>
       /\ Placed(todo[1], done)
       /\ Len(todo) = 2 => Placed(todo[2], done + todo[1].frames)

\* What the write in progress took from its iterator is in the ring, sample by
\* sample from appl_ptr on, unless that is below zero; done counts its whole
\* frames.
Stored ==
  /\ pc = "idle" => yielded = <<>>
  /\ pc = "store" => Len(yielded) = done * Channels + z
  /\ pc = "commit" => done = Len(yielded) \div Channels
  /\ applPtr >= 0 =>
       \A f \in 0 .. BufSize - 1, c \in 0 .. Channels - 1 :
         f * Channels + c < Len(yielded) =>
           ring[SlotOf(tail + f, c)] = yielded[f * Channels + c + 1]

StreamInv == RegionsPlaced /\ Stored

\* The numbers of a state of the invariant: the frames that wait end at appl_ptr,
\* a boundary or two further on.
LEMMA StreamNumbers ==
  ASSUME IInv
  PROVE  /\ applPtr \in Int /\ -BufSize <= applPtr /\ tail \in Nat
         /\ hw \in Nat /\ pending \in Int /\ tail - pending \in Nat
         /\ (tail - pending) - hw \in {0, Boundary, 2 * Boundary}
         /\ done \in 0 .. BufSize /\ z \in Nat /\ pending <= BufSize
         /\ -MaxOverrun <= pending /\ -BufSize < pending
         /\ yielded \in Seq(Sample) /\ Len(yielded) \in Nat
<1>1. /\ applPtr \in -BufSize .. Boundary - 1 /\ pending \in -MaxOverrun .. BufSize
      /\ applPtr - hw - pending \in {-Boundary, 0, Boundary}
      /\ hw \in 0 .. Boundary - 1 /\ done \in 0 .. BufSize /\ z \in Nat
      /\ yielded \in Seq(Sample)
  BY DEF IInv, TypeOK, CountersAgree
<1>2. Len(yielded) \in Nat
  BY <1>1, LenProperties
<1> DEFINE a == applPtr
<1>3. a \in -BufSize .. Boundary - 1 /\ a - hw - pending \in {-Boundary, 0, Boundary}
      /\ tail = a + Boundary
  BY <1>1 DEF tail
<1> HIDE DEF a
<1>4. /\ tail \in Nat /\ tail - pending \in Nat
      /\ (tail - pending) - hw \in {0, Boundary, 2 * Boundary}
  BY <1>1, <1>3, RingAssumption, PlaybackAssumption
<1> QED BY <1>1, <1>2, <1>4, RingAssumption, PlaybackAssumption

\* A frame that waits has a slot counted back from appl_ptr.
LEMMA WaitingSlot ==
  ASSUME IInv, NEW i \in Nat, NEW c
  PROVE  /\ hw + i \in Nat /\ (tail - pending) + i \in Nat
         /\ SlotOf(hw + i, c) = SlotOf((tail - pending) + i, c)
<1> DEFINE h == tail - pending
<1>1. h \in Nat /\ hw \in Nat /\ h - hw \in {0, Boundary, 2 * Boundary}
      /\ Boundary \in Nat
  BY StreamNumbers, RingAssumption
<1> HIDE DEF h
<1>2. hw + i \in Nat /\ h + i \in Nat
  BY <1>1
<1>3. (h + i) - (hw + i) \in {-2 * Boundary, -Boundary, 0, Boundary, 2 * Boundary}
  BY <1>1
<1>4. SlotOf(h + i, c) = SlotOf(hw + i, c)
  BY <1>2, <1>3, SameSlot
<1> QED BY <1>2, <1>4 DEF h

\* Where a region is does not change with the number of frames that wait, as
\* long as that does not grow.
LEMMA StaysPlaced ==
  ASSUME IInv, NEW r \in Region, NEW b \in Int, Placed(r, b),
         applPtr' = applPtr, pending' \in Int, pending' <= pending
  PROVE  /\ BeginsAt(r, tail' + b) \/ (applPtr' < 0 /\ BeginsBelow(r, tail' + b))
         /\ b + r.frames <= BufSize
         /\ b + r.frames + pending' <= BufSize
<1>1. b + r.frames \in Int /\ b + r.frames + pending <= BufSize
  BY RingAssumption DEF Region, Placed
<1>2. b + r.frames + pending' <= BufSize
  BY <1>1, StreamNumbers, RoomGrows
<1>3. tail' = tail
  BY DEF tail
<1> QED BY <1>2, <1>3 DEF Placed

\* A prepared stream has the counters at zero and no write in progress.
LEMMA InitStream == Init => StreamInv
<1> SUFFICES ASSUME Init PROVE StreamInv
  OBVIOUS
<1>1. RegionsPlaced
  BY DEF Init, RegionsPlaced
<1>2. Stored
  <2>1. Len(yielded) = 0 /\ yielded = <<>> /\ pc = "idle"
    BY DEF Init
  <2>2. \A f \in 0 .. BufSize - 1, c \in 0 .. Channels - 1 : ~(f * Channels + c < 0)
    BY RingAssumption
  <2> QED BY <2>1, <2>2 DEF Stored
<1> QED BY <1>1, <1>2 DEF StreamInv

\* data_ptr: the regions begin at appl_ptr and follow each other.
LEMMA BeginWritePlaces ==
  ASSUME IInv, BeginWrite,
         NEW m, m = IF avail <= BufSize THEN avail ELSE BufSize
  PROVE  /\ todo'[1].frames \in 0 .. BufSize
         /\ BeginsAt(todo'[1], tail) \/ (applPtr < 0 /\ BeginsBelow(todo'[1], tail))
         /\ \/ Len(todo') = 1 /\ DOMAIN todo' = {1} /\ todo'[1].frames = m
            \/ /\ Len(todo') = 2 /\ DOMAIN todo' = {1, 2}
               /\ todo'[2].frames \in 1 .. BufSize
               /\ BeginsAt(todo'[2], tail + todo'[1].frames)
               /\ todo'[1].frames + todo'[2].frames = m
<1>1. todo' = DataPtr(avail, applPtr)
  BY DEF BeginWrite
<1>2. avail \in Nat /\ applPtr \in Int /\ -BufSize <= applPtr /\ tail = applPtr + Boundary
  <2>1. avail = BufSize - pending /\ BufSize \in Int
    BY IInvAvail, RingAssumption DEF AvailExact
  <2>2. pending \in Int /\ pending <= BufSize /\ applPtr \in Int /\ -BufSize <= applPtr
    BY StreamNumbers
  <2> HIDE DEF avail
  <2>3. avail \in Nat
    BY <2>1, <2>2
  <2> QED BY <2>2, <2>3 DEF tail
<1>3. CASE applPtr >= 0
  <2>1. /\ BeginsAt(todo'[1], applPtr) /\ todo'[1].frames \in 0 .. BufSize
        /\ \/ Len(todo') = 1 /\ DOMAIN todo' = {1} /\ todo'[1].frames = m
           \/ /\ Len(todo') = 2 /\ DOMAIN todo' = {1, 2}
              /\ todo'[2].frames \in 1 .. BufSize
              /\ BeginsAt(todo'[2], applPtr + todo'[1].frames)
              /\ todo'[1].frames + todo'[2].frames = m
    BY <1>1, <1>2, <1>3, DataPtrPlaces
  <2>2. applPtr \in Nat /\ applPtr + todo'[1].frames \in Nat
        /\ tail + todo'[1].frames = (applPtr + todo'[1].frames) + Boundary
    BY <1>2, <1>3, <2>1, RingAssumption
  <2>3. tail % BufSize = applPtr % BufSize
        /\ (tail + todo'[1].frames) % BufSize = (applPtr + todo'[1].frames) % BufSize
    BY <1>2, <2>2, BoundaryTurns
  <2>4. BeginsAt(todo'[1], tail)
    BY <2>1, <2>3 DEF BeginsAt
  <2>5. BeginsAt(todo'[2], applPtr + todo'[1].frames)
          => BeginsAt(todo'[2], tail + todo'[1].frames)
    BY <2>3 DEF BeginsAt
  <2> QED BY <2>1, <2>4, <2>5
<1>4. CASE applPtr < 0
  <2>1. applPtr \in -BufSize .. -1
    BY <1>2, <1>4, RingAssumption
  <2>2. /\ Len(todo') = 1 /\ DOMAIN todo' = {1} /\ todo'[1].frames = m
        /\ m \in 0 .. BufSize
        /\ BeginsAt(todo'[1], tail) \/ BeginsBelow(todo'[1], tail)
    BY <1>1, <1>2, <2>1, DataPtrBelow
  <2> QED BY <1>4, <2>2
<1> QED BY <1>2, <1>3, <1>4

LEMMA BeginWriteStream ==
  ASSUME IInv, StreamInv, BeginWrite PROVE StreamInv'
<1>1. /\ pc = "idle" /\ pc' = "store"
      /\ UNCHANGED <<hw, state, appl, ring, z, done, pending, yielded>>
  BY DEF BeginWrite, card
<1>2. z = 0 /\ done = 0 /\ yielded = <<>> /\ applPtr' = applPtr /\ tail' = tail
  BY <1>1 DEF IInv, CallBounded, StreamInv, Stored, applPtr, tail
<1>3. avail = BufSize - pending /\ avail \in Nat /\ tail \in Nat /\ pending \in Int
  BY IInvAvail, StreamNumbers, RingAssumption DEF AvailExact
<1> DEFINE m == IF avail <= BufSize THEN avail ELSE BufSize
<1>4. m \in Nat /\ m <= BufSize /\ m + pending <= BufSize
  BY <1>3, RingAssumption
<1>5. /\ todo'[1].frames \in 0 .. BufSize
      /\ BeginsAt(todo'[1], tail) \/ (applPtr < 0 /\ BeginsBelow(todo'[1], tail))
      /\ \/ Len(todo') = 1 /\ DOMAIN todo' = {1} /\ todo'[1].frames = m
         \/ /\ Len(todo') = 2 /\ DOMAIN todo' = {1, 2}
            /\ todo'[2].frames \in 1 .. BufSize
            /\ BeginsAt(todo'[2], tail + todo'[1].frames)
            /\ todo'[1].frames + todo'[2].frames = m
  BY BeginWritePlaces
<1> HIDE DEF m
<1>6. Placed(todo[1], 0)'
  <2>1. /\ 0 + todo'[1].frames <= BufSize /\ 0 + todo'[1].frames + pending <= BufSize
        /\ tail + 0 = tail
    BY <1>3, <1>4, <1>5, RingAssumption
  <2> QED BY <1>1, <1>2, <1>5, <2>1 DEF Placed, BeginsAt, BeginsBelow
<1>7. ASSUME Len(todo') = 2 PROVE Placed(todo[2], todo[1].frames)'
  <2>1. BeginsAt(todo'[2], tail + todo'[1].frames)
        /\ todo'[1].frames + todo'[2].frames = m
    BY <1>5, <1>7
  <2> QED BY <1>1, <1>2, <1>4, <2>1 DEF Placed, BeginsAt
<1>8. \A k \in DOMAIN todo' : k = 1 \/ (k = 2 /\ Len(todo') = 2)
  BY <1>5
<1>9. RegionsPlaced'
  <2>1. 0 \in 0 .. BufSize
    BY RingAssumption
  <2>2. \A k \in DOMAIN todo' : \E b \in 0 .. BufSize : Placed(todo[k], b)'
    BY <1>5, <1>6, <1>7, <1>8, <2>1
  <2>3. Len(todo') = 2 => Placed(todo[2], done + todo[1].frames)'
    <3> SUFFICES ASSUME Len(todo') = 2 PROVE Placed(todo[2], done + todo[1].frames)'
      OBVIOUS
    <3>1. done' + todo'[1].frames = todo'[1].frames
      BY <1>1, <1>2, <1>5
    <3> QED BY <1>7, <3>1 DEF Placed
  <2>4. Placed(todo[1], done)'
    BY <1>1, <1>2, <1>6 DEF Placed
  <2> QED BY <2>2, <2>3, <2>4 DEF RegionsPlaced
<1>10. Stored'
  <2>1. Len(yielded) = done * Channels + z
    BY <1>2, RingAssumption
  <2> QED BY <1>1, <1>2, <2>1 DEF StreamInv, Stored
<1> QED BY <1>9, <1>10 DEF StreamInv

\* The region being filled, and the slot the next sample of the iterator gets:
\* that of its place in the stream, beyond the frames that wait.
LEMMA NextSlot ==
  ASSUME IInv, StreamInv, pc = "store", z < SamplesOf(todo[1]),
         NEW f, f = done + z \div Channels,
         NEW c, c = z % Channels
  PROVE  /\ f \in 0 .. BufSize - 1 /\ c \in 0 .. Channels - 1
         /\ f + pending < BufSize
         /\ applPtr >= 0 => todo[1].at + z = SlotOf(tail + f, c)
         /\ Len(yielded) = f * Channels + c
<1>1. todo[1] \in Region /\ Placed(todo[1], done) /\ Len(yielded) = done * Channels + z
  BY FramesOfRegion DEF StreamInv, RegionsPlaced, Stored
<1>2. tail \in Nat /\ done \in Nat /\ z \in Nat /\ pending \in Int /\ applPtr \in Int
  BY StreamNumbers
<1>3. todo[1].frames \in Int
  BY <1>1 DEF Region
<1>4. /\ z \div Channels \in Nat /\ z \div Channels < todo[1].frames
      /\ c \in 0 .. Channels - 1
  BY <1>2, <1>3, FrameOfSample, SamplesSplit DEF SamplesOf
<1>5. ASSUME applPtr >= 0 PROVE todo[1].at + z = SlotOf(tail + f, c)
  <2>1. tail + done \in Nat /\ BeginsAt(todo[1], tail + done)
    BY <1>1, <1>2, <1>5 DEF Placed
  <2>2. todo[1].at + z = SlotOf((tail + done) + z \div Channels, c)
    BY <1>2, <1>3, <2>1, RegionSlots
  <2>3. (tail + done) + z \div Channels = tail + f
    BY <1>2, <1>4
  <2> QED BY <2>2, <2>3
<1> DEFINE q == z \div Channels
           n == todo[1].frames
<1>6. n \in Nat /\ done + n <= BufSize /\ done + n + pending <= BufSize
  BY <1>1, RingAssumption DEF Placed, Region
<1>7. q \in Nat /\ q < n /\ f = done + q
  BY <1>4
<1>8. Len(yielded) = f * Channels + c
  <2>1. z = q * Channels + c
    BY <1>2, SamplesSplit
  <2> HIDE DEF q
  <2>2. f * Channels = done * Channels + q * Channels
        /\ done * Channels \in Int /\ q * Channels \in Int
    <3>1. done \in Int /\ q \in Int
      BY <1>2, <1>7
    <3> QED BY <1>7, <3>1, Samples
  <2> DEFINE x == done * Channels
             y == q * Channels
  <2>3. x \in Int /\ y \in Int /\ c \in Int /\ z = y + c /\ f * Channels = x + y
        /\ Len(yielded) = x + z
    BY <1>1, <1>4, <2>1, <2>2
  <2> HIDE DEF x, y
  <2> QED BY <2>3
<1> HIDE DEF q, n
<1>9. f \in 0 .. BufSize - 1 /\ f + pending < BufSize
  BY <1>2, <1>6, <1>7, RingAssumption
<1> QED BY <1>4, <1>5, <1>8, <1>9

\* The regions stay where they are while pending does not grow.
LEMMA RegionsStay ==
  ASSUME IInv, StreamInv, UNCHANGED <<appl, todo>>,
         pending' \in Int, pending' <= pending, pc' = "store" => pc = "store" /\ done' = done
  PROVE  RegionsPlaced'
<1>1. applPtr' = applPtr
  BY DEF applPtr
<1>2. \A k \in DOMAIN todo : todo[k] \in Region
  BY DEF IInv, TypeOK
<1>3. \A k \in DOMAIN todo : \E b \in 0 .. BufSize : Placed(todo[k], b)'
  <2> SUFFICES ASSUME NEW k \in DOMAIN todo
               PROVE  \E b \in 0 .. BufSize : Placed(todo[k], b)'
    OBVIOUS
  <2>1. PICK b \in 0 .. BufSize : Placed(todo[k], b)
    BY DEF StreamInv, RegionsPlaced
  <2>2. b \in Int /\ todo[k] \in Region
    BY <1>2, RingAssumption
  <2>3. Placed(todo[k], b)'
    BY <1>1, <2>1, <2>2, StaysPlaced DEF Placed, BeginsAt, BeginsBelow
  <2> QED BY <2>3
<1>4. ASSUME pc' = "store"
      PROVE  /\ Placed(todo[1], done)'
             /\ Len(todo) = 2 => Placed(todo[2], done + todo[1].frames)'
  <2>1. /\ todo[1] \in Region /\ (Len(todo) = 2 => todo[2] \in Region)
        /\ pc = "store" /\ done' = done
    BY <1>4, FramesOfRegion
  <2>2. done \in Int /\ done + todo[1].frames \in Int
    BY <2>1, StreamNumbers DEF Region
  <2>3. Placed(todo[1], done) /\ (Len(todo) = 2 => Placed(todo[2], done + todo[1].frames))
    BY <2>1 DEF StreamInv, RegionsPlaced
  <2>4. Placed(todo[1], done)'
    BY <1>1, <2>1, <2>2, <2>3, StaysPlaced DEF Placed, BeginsAt, BeginsBelow
  <2>5. Len(todo) = 2 => Placed(todo[2], done + todo[1].frames)'
    BY <1>1, <2>1, <2>2, <2>3, StaysPlaced DEF Placed, BeginsAt, BeginsBelow
  <2> QED BY <2>4, <2>5
<1> QED BY <1>3, <1>4 DEF RegionsPlaced

\* A store goes to its slot only, and no position with samples in the ring,
\* waiting or just stored, shares it.
LEMMA StoreSlot ==
  ASSUME IInv, StreamInv, applPtr >= 0, NEW s \in Sample, StoreSample(s),
         NEW f, f = done + z \div Channels,
         NEW c, c = z % Channels
  PROVE  /\ ring'[SlotOf(tail + f, c)] = s
         /\ \A p \in Nat, d \in 0 .. Channels - 1 :
              /\ p < tail + BufSize /\ (tail - pending <= p \/ tail <= p)
              /\ ~(p = tail + f /\ d = c)
              => ring'[SlotOf(p, d)] = ring[SlotOf(p, d)]
<1>1. /\ pc = "store" /\ z < SamplesOf(todo[1])
      /\ ring' = [i \in RingIndex |-> IF i = todo[1].at + z THEN s ELSE ring[i]]
  BY DEF StoreSample
<1>2. /\ f \in 0 .. BufSize - 1 /\ c \in 0 .. Channels - 1 /\ f + pending < BufSize
      /\ todo[1].at + z = SlotOf(tail + f, c)
  BY <1>1, NextSlot
<1>3. tail \in Nat /\ pending \in Int
  BY StreamNumbers
<1>4. tail + f \in Nat
  BY <1>2, <1>3
<1>5. ring'[SlotOf(tail + f, c)] = s
  BY <1>1, <1>2, <1>4, SlotInRing
<1>6. ASSUME NEW p \in Nat, NEW d \in 0 .. Channels - 1,
             p < tail + BufSize, tail - pending <= p \/ tail <= p,
             ~(p = tail + f /\ d = c)
      PROVE  ring'[SlotOf(p, d)] = ring[SlotOf(p, d)]
  <2>1. p - (tail + f) < BufSize /\ (tail + f) - p < BufSize
    BY <1>2, <1>3, <1>6, RingAssumption
  <2>2. SlotOf(p, d) # SlotOf(tail + f, c)
    BY <1>2, <1>4, <1>6, <2>1, SlotsApart
  <2> QED BY <1>1, <1>2, <2>2, SlotInRing
<1> QED BY <1>5, <1>6

\* One more sample of the iterator is in the ring, at its place in the stream.
LEMMA StoreSampleStream ==
  ASSUME IInv, StreamInv, NEW s \in Sample, StoreSample(s)
  PROVE  StreamInv'
<1>1. /\ pc = "store" /\ z < SamplesOf(todo[1]) /\ z' = z + 1
      /\ yielded' = Append(yielded, s)
      /\ UNCHANGED <<hw, state, appl, pc, todo, done, pending>>
  BY DEF StoreSample, card
<1>2. /\ tail \in Nat /\ pending \in Int /\ yielded \in Seq(Sample)
      /\ done \in Nat /\ z \in Nat /\ applPtr' = applPtr /\ tail' = tail
  BY <1>1, StreamNumbers DEF applPtr, tail
<1>3. Len(yielded') = Len(yielded) + 1 /\ yielded'[Len(yielded) + 1] = s
      /\ \A k \in 1 .. Len(yielded) : yielded'[k] = yielded[k]
  BY <1>1, <1>2, AppendProperties
<1>4. RegionsPlaced'
  BY <1>1, <1>2, RegionsStay
<1>5. Len(yielded') = done' * Channels + z'
  <2>1. Len(yielded) = done * Channels + z /\ done * Channels \in Int
    BY <1>1, <1>2, Samples DEF StreamInv, Stored
  <2> QED BY <1>1, <1>2, <1>3, <2>1
<1>6. ASSUME applPtr >= 0, NEW g \in 0 .. BufSize - 1, NEW d \in 0 .. Channels - 1,
             g * Channels + d < Len(yielded')
      PROVE  ring'[SlotOf(tail + g, d)] = yielded'[g * Channels + d + 1]
  <2> DEFINE f == done + z \div Channels
             c == z % Channels
  <2>1. /\ f \in 0 .. BufSize - 1 /\ c \in 0 .. Channels - 1
        /\ Len(yielded) = f * Channels + c
    BY <1>1, NextSlot
  <2>2. /\ ring'[SlotOf(tail + f, c)] = s
        /\ \A p \in Nat, e \in 0 .. Channels - 1 :
             tail <= p /\ p < tail + BufSize /\ ~(p = tail + f /\ e = c)
                => ring'[SlotOf(p, e)] = ring[SlotOf(p, e)]
    BY <1>6, StoreSlot
  <2> HIDE DEF f, c
  <2>3. g * Channels + d \in Nat /\ Len(yielded) \in Nat
    BY <1>2, RingAssumption
  <2>4. CASE g * Channels + d = Len(yielded)
    <3>1. g = f /\ d = c
      BY <2>1, <2>4, FrameAndSample
    <3> QED BY <1>3, <2>2, <2>4, <3>1
  <2>5. CASE g * Channels + d < Len(yielded)
    <3>1. ring[SlotOf(tail + g, d)] = yielded[g * Channels + d + 1]
      BY <1>6, <2>5 DEF StreamInv, Stored
    <3>2. ~(tail + g = tail + f /\ d = c)
      BY <1>2, <2>1, <2>3, <2>5
    <3>3. tail + g \in Nat /\ tail <= tail + g /\ tail + g < tail + BufSize
      BY <1>2, RingAssumption
    <3>4. ring'[SlotOf(tail + g, d)] = ring[SlotOf(tail + g, d)]
      BY <2>2, <3>2, <3>3
    <3>5. g * Channels + d + 1 \in 1 .. Len(yielded)
      BY <2>3, <2>5
    <3> QED BY <1>3, <3>1, <3>4, <3>5
  <2>6. g * Channels + d < Len(yielded) + 1
    BY <1>3, <1>6
  <2>7. \A x, y \in Nat : x < y + 1 => x = y \/ x < y
    OBVIOUS
  <2> QED BY <2>3, <2>4, <2>5, <2>6, <2>7
<1>7. Stored'
  BY <1>1, <1>2, <1>5, <1>6 DEF Stored
<1> QED BY <1>4, <1>7 DEF StreamInv

\* The iterator ends: the whole frames are those of the samples taken.
LEMMA IterEndsStream ==
  ASSUME IInv, StreamInv, IterEnds PROVE StreamInv'
<1>1. /\ pc = "store" /\ pc' = "commit" /\ done' = done + z \div Channels
      /\ UNCHANGED <<hw, state, appl, ring, todo, z, pending, yielded>>
  BY DEF IterEnds, card
<1>2. /\ done \in Nat /\ z \in Nat /\ pending \in Int
      /\ applPtr' = applPtr /\ tail' = tail
  BY <1>1, StreamNumbers DEF applPtr, tail
<1>3. done' = Len(yielded) \div Channels
  <2>1. Len(yielded) = done * Channels + z
    BY <1>1 DEF StreamInv, Stored
  <2> QED BY <1>1, <1>2, <2>1, FramesAdd
<1>4. RegionsPlaced'
  BY <1>1, <1>2, RegionsStay
<1>5. Stored'
  BY <1>1, <1>2, <1>3 DEF StreamInv, Stored
<1> QED BY <1>4, <1>5 DEF StreamInv

\* A full region: its frames are done, and the second begins where it ends.
LEMMA RegionFullStream ==
  ASSUME IInv, StreamInv, RegionFull PROVE StreamInv'
<1>1. /\ pc = "store" /\ z >= SamplesOf(todo[1]) /\ done' = done + z \div Channels
      /\ UNCHANGED <<hw, state, appl, ring, pending, yielded>>
  BY DEF RegionFull, card
<1>2. /\ done \in Nat /\ z \in Nat /\ pending \in Int
      /\ applPtr' = applPtr /\ tail' = tail
  BY <1>1, StreamNumbers DEF applPtr, tail
<1>3. /\ todo \in Seq(Region) /\ (Len(todo) = 1 \/ Len(todo) = 2)
      /\ todo[1] \in Region /\ (Len(todo) = 2 => todo[2] \in Region)
  BY <1>1, FramesOfRegion
<1>4. Len(yielded) = done * Channels + z
  BY <1>1 DEF StreamInv, Stored
<1>5. done' = Len(yielded) \div Channels
  BY <1>1, <1>2, <1>4, FramesAdd
<1> DEFINE n == todo[1].frames
<1>6. n \in Nat /\ z = n * Channels
  <2>1. n \in Nat /\ n * Channels \in Int
    BY <1>3, RingAssumption DEF Region
  <2>2. z <= n * Channels /\ z >= n * Channels
    BY <1>1 DEF IInv, CallBounded, SamplesOf
  <2> QED BY <1>2, <2>1, <2>2
<1>7. CASE Len(todo) = 1
  <2>1. pc' = "commit" /\ todo' = todo
    BY <1>7 DEF RegionFull
  <2>2. RegionsPlaced'
    BY <1>1, <1>2, <2>1, RegionsStay
  <2>3. Stored'
    BY <1>1, <1>2, <1>5, <2>1 DEF StreamInv, Stored
  <2> QED BY <2>2, <2>3 DEF StreamInv
<1>8. CASE Len(todo) = 2
  <2>1. pc' = "store" /\ todo' = Tail(todo) /\ z' = 0
    BY <1>8 DEF RegionFull
  <2>2. Len(todo') = 1 /\ todo'[1] = todo[2] /\ DOMAIN todo' = {1}
    <3>1. todo # <<>>
      BY <1>8
    <3>2. /\ Tail(todo) \in Seq(Region) /\ Len(Tail(todo)) = 1
          /\ \A i \in 1 .. Len(Tail(todo)) : Tail(todo)[i] = todo[i + 1]
      BY <1>3, <1>8, <3>1, HeadTailProperties
    <3>3. DOMAIN Tail(todo) = 1 .. 1
      BY <3>2, LenProperties
    <3>4. Tail(todo)[1] = todo[1 + 1] /\ 1 + 1 = 2 /\ 1 .. 1 = {1}
      BY <3>2
    <3> QED BY <2>1, <3>2, <3>3, <3>4, Zenon
  <2>3. done' = done + n
    <3>1. 0 <= Channels - 1 /\ n * Channels + 0 = n * Channels /\ 0 \in 0 .. Channels - 1
      BY <1>6, RingAssumption
    <3>2. z \div Channels = n
      BY <1>6, <3>1, FramesOfSamples
    <3> QED BY <1>1, <3>2
  <2>4. Placed(todo[2], done + n)
    BY <1>1, <1>8 DEF StreamInv, RegionsPlaced
  <2>5. done' \in 0 .. BufSize
    <3>1. done + n <= BufSize
      BY <1>1 DEF StreamInv, RegionsPlaced, Placed
    <3> HIDE DEF n
    <3> QED BY <1>2, <1>6, <2>3, <3>1, RingAssumption
  <2>6. RegionsPlaced'
    <3>1. Placed(todo[1], done)'
      BY <1>1, <1>2, <2>2, <2>3, <2>4 DEF Placed, BeginsAt, BeginsBelow
    <3> QED BY <2>2, <2>5, <3>1 DEF RegionsPlaced
  <2>7. Len(yielded) = done' * Channels + 0
    <3>1. (done + n) * Channels = done * Channels + n * Channels
          /\ done * Channels \in Int /\ n * Channels \in Int
          /\ (done + n) * Channels \in Int
      <4>1. done \in Int /\ n \in Int /\ done + n \in Int
        BY <1>2, <1>6
      <4> QED BY <4>1, Samples
    <3> HIDE DEF n
    <3> QED BY <1>4, <1>6, <2>3, <3>1
  <2>8. Stored'
    BY <1>1, <1>2, <2>1, <2>7 DEF StreamInv, Stored
  <2> QED BY <2>6, <2>8 DEF StreamInv
<1> QED BY <1>3, <1>7, <1>8

\* Between writes nothing was taken from an iterator and there is no region.
NothingTaken == todo = <<>> /\ yielded = <<>> /\ pc = "idle"

LEMMA NothingStored == NothingTaken => StreamInv
<1> SUFFICES ASSUME todo = <<>>, yielded = <<>>, pc = "idle" PROVE StreamInv
  BY DEF NothingTaken
<1>1. RegionsPlaced
  BY DEF RegionsPlaced
<1>2. \A f \in 0 .. BufSize - 1, c \in 0 .. Channels - 1 :
        ~(f * Channels + c < Len(yielded))
  <2>1. Len(yielded) = 0
    OBVIOUS
  <2> QED BY <2>1, RingAssumption
<1> QED BY <1>1, <1>2 DEF StreamInv, Stored

\* commit: nothing of the call is left.
LEMMA CommitStream == Commit => StreamInv'
<1> SUFFICES ASSUME Commit PROVE StreamInv'
  OBVIOUS
<1>1. NothingTaken'
  BY DEF Commit, NothingTaken
<1> QED BY <1>1, NothingStored, PTL

\* start and prepare are called between writes.
LEMMA StartStream ==
  ASSUME IInv, StreamInv, Start \/ Prepare PROVE StreamInv'
<1>1. pc = "idle" /\ UNCHANGED <<pc, todo, yielded>>
  BY DEF Start, Prepare, call
<1>2. NothingTaken'
  BY <1>1 DEF IInv, CallBounded, StreamInv, Stored, NothingTaken
<1> QED BY <1>2, NothingStored, PTL

\* The card plays: the regions have more room than before.
LEMMA HwAdvanceStream ==
  ASSUME IInv, StreamInv, NEW n \in 1 .. BufSize + MaxOverrun, HwAdvance(n)
  PROVE  StreamInv'
<1>1. pending' = pending - n /\ UNCHANGED <<appl, ring, pc, todo, z, done, yielded>>
  BY DEF HwAdvance, call
<1>2. pending' \in Int /\ pending' <= pending /\ applPtr' = applPtr /\ tail' = tail
  BY <1>1, StreamNumbers DEF applPtr, tail
<1>3. RegionsPlaced'
  BY <1>1, <1>2, RegionsStay
<1>4. Stored'
  BY <1>1, <1>2 DEF StreamInv, Stored
<1> QED BY <1>3, <1>4 DEF StreamInv

\* Every step keeps the stream and the ring together.
LEMMA NextStream == IInv /\ StreamInv /\ [Next]_vars => StreamInv'
<1> SUFFICES ASSUME IInv, StreamInv, [Next]_vars PROVE StreamInv'
  OBVIOUS
<1>1. CASE BeginWrite
  BY <1>1, BeginWriteStream
<1>2. ASSUME NEW s \in Sample, StoreSample(s) PROVE StreamInv'
  BY <1>2, StoreSampleStream
<1>3. CASE IterEnds
  BY <1>3, IterEndsStream
<1>4. CASE RegionFull
  BY <1>4, RegionFullStream
<1>5. CASE Commit
  BY <1>5, CommitStream
<1>6. CASE Start \/ Prepare
  BY <1>6, StartStream
<1>7. ASSUME NEW n \in 1 .. BufSize + MaxOverrun, HwAdvance(n) PROVE StreamInv'
  BY <1>7, HwAdvanceStream
<1>8. CASE UNCHANGED vars
  BY <1>8 DEF vars, StreamInv, RegionsPlaced, Placed, BeginsAt, BeginsBelow, Stored,
              tail, applPtr
<1> QED BY <1>1, <1>2, <1>3, <1>4, <1>5, <1>6, <1>7, <1>8 DEF Next, Write

\* No region reaches a frame that waits to be played.
LEMMA StreamFree == IInv /\ StreamInv => RegionsFree
<1> SUFFICES ASSUME IInv, StreamInv, NEW k \in DOMAIN todo,
                    NEW i \in 0 .. pending - 1, NEW c \in 0 .. Channels - 1,
                    SlotOf(hw + i, c)
                      \in todo[k].at .. todo[k].at + SamplesOf(todo[k]) - 1
             PROVE  FALSE
  BY DEF RegionsFree, Waiting
<1> DEFINE h == tail - pending
<1>1. tail \in Nat /\ pending \in Int /\ h \in Nat /\ h + pending = tail /\ i \in Nat
  BY StreamNumbers
<1>2. todo[k] \in Region
  BY DEF IInv, TypeOK
<1>3. PICK b \in 0 .. BufSize : Placed(todo[k], b)
  BY DEF StreamInv, RegionsPlaced
<1>4. h + i \in Nat /\ SlotOf(hw + i, c) = SlotOf(h + i, c) /\ SlotOf(h + i, c) \in RingIndex
  <2>1. h + i \in Nat /\ SlotOf(hw + i, c) = SlotOf(h + i, c)
    BY <1>1, WaitingSlot
  <2> HIDE DEF h
  <2> QED BY <2>1, SlotInRing
<1> HIDE DEF h
<1> DEFINE s == SlotOf(h + i, c) - todo[k].at
<1>5. /\ s \in Nat /\ s < SamplesOf(todo[k]) /\ todo[k].at + s = SlotOf(h + i, c)
      /\ todo[k].at + s >= 0
  <2>1. todo[k].at \in Int /\ SamplesOf(todo[k]) \in Int /\ SlotOf(h + i, c) \in Nat
    BY <1>2, <1>4, RingAssumption DEF Region, SamplesOf, RingIndex
  <2> QED BY <1>4, <2>1
<1> HIDE DEF s
<1> DEFINE q == s \div Channels
           d == s % Channels
<1>6. /\ q \in Nat /\ q < todo[k].frames /\ d \in 0 .. Channels - 1
      /\ SlotOf(h + i, c) = SlotOf(tail + (b + q), d)
  <2>1. tail + b \in Nat /\ todo[k].frames \in Int
    BY <1>1, <1>2, RingAssumption DEF Region
  <2>2. BeginsAt(todo[k], tail + b) \/ BeginsBelow(todo[k], tail + b)
    BY <1>3 DEF Placed
  <2>3. /\ q \in Nat /\ q < todo[k].frames /\ d \in 0 .. Channels - 1
        /\ todo[k].at + s = SlotOf((tail + b) + q, d)
    BY <1>5, <2>1, <2>2, RegionSlots, BelowSlots
  <2>4. (tail + b) + q = tail + (b + q)
    BY <1>1, <2>3, RingAssumption
  <2> QED BY <1>5, <2>3, <2>4
<1> HIDE DEF q, d
<1>7. /\ tail + (b + q) \in Nat
      /\ h + i < tail + (b + q) /\ (tail + (b + q)) - (h + i) < BufSize
  <2>1. b + todo[k].frames + pending <= BufSize /\ todo[k].frames \in Int
    BY <1>2, <1>3, RingAssumption DEF Placed, Region
  <2> QED BY <1>1, <1>6, <2>1, RingAssumption
<1>8. (h + i) - (tail + (b + q)) < BufSize
  BY <1>4, <1>7, RingAssumption
<1>9. h + i = tail + (b + q)
  BY <1>4, <1>6, <1>7, <1>8, SlotsApart
<1> QED BY <1>4, <1>7, <1>9

-----------------------------------------------------------------------------
(* A FIFO of frames, while appl_ptr is not below zero                      *)

Frame == [1 .. Channels -> Sample]

\* The queue of the FIFO: frames of the ring, as many as wait.
QueueFacts ==
  /\ waits \in Nat
  /\ queueBar \in Seq(Frame) /\ Len(queueBar) = waits
  /\ \A i \in 1 .. waits : queueBar[i] = FrameAt(hw + i - 1)
  /\ \A p \in Nat : FrameAt(p) \in Frame

LEMMA QueueIs == IInv => QueueFacts
<1> SUFFICES ASSUME IInv, hw \in Nat PROVE QueueFacts
  BY StreamNumbers
<1>1. waits \in Nat
  BY RingAssumption, PlaybackAssumption DEF IInv, TypeOK, waits
<1>2. ASSUME NEW p \in Nat PROVE FrameAt(p) \in Frame
  <2>1. ASSUME NEW c \in 1 .. Channels PROVE ring[SlotOf(p, c - 1)] \in Sample
    <3>1. c - 1 \in 0 .. Channels - 1
      BY RingAssumption
    <3>2. SlotOf(p, c - 1) \in RingIndex
      BY <3>1, SlotInRing
    <3> QED BY <3>2 DEF IInv, TypeOK
  <2> QED BY <2>1 DEF FrameAt, Frame
<1>3. \A i \in 1 .. waits : FrameAt(hw + i - 1) \in Frame
  <2>1. \A i \in 1 .. waits : hw + i - 1 \in Nat
    BY <1>1
  <2> QED BY <1>2, <2>1
<1>4. queueBar \in [1 .. waits -> Frame]
  BY <1>3 DEF queueBar
<1>5. queueBar \in Seq(Frame) /\ Len(queueBar) = waits
  BY <1>1, <1>4, SeqDef
<1> QED BY <1>1, <1>2, <1>5 DEF queueBar, QueueFacts

\* A frame of the ring is the same a boundary or two further on.
LEMMA SameFrame ==
  ASSUME NEW p \in Nat, NEW q \in Nat,
         p - q \in {-2 * Boundary, -Boundary, 0, Boundary, 2 * Boundary}
  PROVE  FrameAt(p) = FrameAt(q)
<1>1. \A c : SlotOf(p, c) = SlotOf(q, c)
  BY SameSlot
<1>2. \A c \in 1 .. Channels : ring[SlotOf(p, c - 1)] = ring[SlotOf(q, c - 1)]
  BY <1>1
<1> QED BY <1>2 DEF FrameAt

\* The queue is what it was when the frames that wait are.
LEMMA SameQueue ==
  ASSUME UNCHANGED <<hw, pending>>, pending \in Int,
         \A i \in Nat, c \in 0 .. Channels - 1 :
           i < pending => ring'[SlotOf(hw + i, c)] = ring[SlotOf(hw + i, c)],
         hw \in Nat
  PROVE  queueBar' = queueBar /\ lateBar' = lateBar
<1>1. waits' = waits /\ lateBar' = lateBar
  BY DEF waits, lateBar
<1>2. ASSUME NEW i \in 1 .. waits PROVE FrameAt(hw + i - 1)' = FrameAt(hw + i - 1)
  <2>1. i - 1 \in Nat /\ i - 1 < pending /\ hw + i - 1 = hw + (i - 1)
    BY DEF waits
  <2>2. \A c \in 1 .. Channels : c - 1 \in 0 .. Channels - 1
    BY RingAssumption
  <2>3. \A c \in 1 .. Channels :
          ring'[SlotOf(hw + i - 1, c - 1)] = ring[SlotOf(hw + i - 1, c - 1)]
    BY <2>1, <2>2
  <2> QED BY <2>3 DEF FrameAt
<1> QED BY <1>1, <1>2 DEF queueBar

\* A prepared stream with counters at zero is an empty FIFO.
LEMMA FifoInit == Init => Fifo!Init
<1> SUFFICES ASSUME Init PROVE Fifo!Init
  OBVIOUS
<1>1. waits = 0 /\ lateBar = 0
  BY DEF Init, waits, lateBar
<1>2. queueBar = <<>>
  BY <1>1 DEF queueBar
<1> QED BY <1>1, <1>2 DEF Init, Fifo!Init

\* A sample stored is a sample offered.
LEMMA FifoOffer ==
  ASSUME IInv, StreamInv, applPtr >= 0, NEW s \in Sample, StoreSample(s)
  PROVE  Fifo!Offer(s)
<1>1. /\ pc = "store" /\ z < SamplesOf(todo[1]) /\ yielded' = Append(yielded, s)
      /\ UNCHANGED <<hw, state, appl, pending>>
  BY DEF StoreSample, card
<1>2. /\ tail \in Nat /\ hw \in Nat /\ pending \in Int /\ yielded \in Seq(Sample)
      /\ tail - pending \in Nat
  BY StreamNumbers
<1> DEFINE f == done + z \div Channels
           c == z % Channels
<1>3. /\ f \in 0 .. BufSize - 1 /\ c \in 0 .. Channels - 1 /\ f + pending < BufSize
      /\ Len(yielded) = f * Channels + c
  BY <1>1, NextSlot
<1>4. \A p \in Nat, d \in 0 .. Channels - 1 :
        /\ p < tail + BufSize /\ tail - pending <= p
        /\ ~(p = tail + f /\ d = c)
        => ring'[SlotOf(p, d)] = ring[SlotOf(p, d)]
  BY StoreSlot
<1> HIDE DEF f, c
<1>5. queueBar' = queueBar /\ lateBar' = lateBar
  <2>1. ASSUME NEW i \in Nat, NEW d \in 0 .. Channels - 1, i < pending
        PROVE  ring'[SlotOf(hw + i, d)] = ring[SlotOf(hw + i, d)]
    <3> DEFINE p == (tail - pending) + i
    <3>1. p \in Nat /\ SlotOf(hw + i, d) = SlotOf(p, d)
      BY WaitingSlot
    <3>2. p < tail + BufSize /\ tail - pending <= p /\ ~(p = tail + f /\ d = c)
      BY <1>2, <1>3, <2>1, RingAssumption
    <3> HIDE DEF p
    <3> QED BY <1>4, <3>1, <3>2
  <2> QED BY <1>1, <1>2, <2>1, SameQueue
<1>6. Len(yielded') <= BufSize * Channels
  <2>1. Len(yielded') = Len(yielded) + 1
    BY <1>1, <1>2, AppendProperties
  <2>2. /\ (f + 1) * Channels <= BufSize * Channels
        /\ (f + 1) * Channels = f * Channels + Channels
        /\ f * Channels \in Int /\ BufSize * Channels \in Int
    <3>1. f \in Int /\ f + 1 \in Int /\ BufSize \in Int /\ f + 1 <= BufSize
      BY <1>3, RingAssumption
    <3> QED BY <3>1, Samples, RingAssumption
  <2> DEFINE x == f * Channels
             y == BufSize * Channels
  <2>3. x \in Int /\ y \in Int /\ x + Channels <= y /\ Len(yielded) = x + c
    BY <1>3, <2>2
  <2> HIDE DEF x, y
  <2>4. Len(yielded) + 1 <= y
    BY <1>3, <2>3, RingAssumption
  <2> QED BY <2>1, <2>4 DEF y
<1> QED BY <1>1, <1>5, <1>6 DEF Fifo!Offer

\* The whole frames of the samples taken are in the ring from appl_ptr on.
LEMMA FramesStored ==
  ASSUME IInv, StreamInv, applPtr >= 0, pc = "commit",
         NEW wf, wf = Fifo!WholeFrames(yielded)
  PROVE  /\ wf \in Seq(Frame) /\ Len(wf) = done
         /\ \A i \in 1 .. done : wf[i] = FrameAt(tail + i - 1)
<1>1. /\ tail \in Nat /\ hw \in Nat /\ done \in 0 .. BufSize /\ Len(yielded) \in Nat
      /\ done = Len(yielded) \div Channels
  BY StreamNumbers DEF StreamInv, Stored
<1>2. wf = [i \in 1 .. done |-> [c \in 1 .. Channels |-> yielded[(i - 1) * Channels + c]]]
  BY <1>1 DEF Fifo!WholeFrames
<1>3. ASSUME NEW i \in 1 .. done
      PROVE  [c \in 1 .. Channels |-> yielded[(i - 1) * Channels + c]]
               = FrameAt(tail + i - 1)
  <2>1. ASSUME NEW c \in 1 .. Channels
        PROVE  yielded[(i - 1) * Channels + c] = ring[SlotOf(tail + i - 1, c - 1)]
    <3> DEFINE f == i - 1
               d == c - 1
    <3>1. f \in 0 .. BufSize - 1 /\ d \in 0 .. Channels - 1 /\ f + 1 <= done
          /\ tail + i - 1 = tail + f /\ f \in Int
      BY <1>1, RingAssumption
    <3>2. f * Channels + d < Len(yielded)
      <4>1. /\ (f + 1) * Channels <= done * Channels
            /\ (f + 1) * Channels = f * Channels + Channels
            /\ f * Channels \in Int /\ done * Channels \in Int
        <5>1. f + 1 \in Int /\ done \in Int
          BY <1>1, <3>1
        <5> HIDE DEF f
        <5> QED BY <3>1, <5>1, Samples, RingAssumption
      <4>2. done * Channels <= Len(yielded)
        <5>1. /\ Len(yielded) = done * Channels + (Len(yielded) % Channels)
              /\ Len(yielded) % Channels \in 0 .. Channels - 1
          BY <1>1, SamplesSplit
        <5> QED BY <4>1, <5>1
      <4> DEFINE x == f * Channels
                 y == done * Channels
      <4>3. x \in Int /\ y \in Int /\ x + Channels <= y /\ y <= Len(yielded)
        BY <4>1, <4>2
      <4> HIDE DEF f, d, x, y
      <4>4. x + d < Len(yielded)
        BY <1>1, <3>1, <4>3, RingAssumption
      <4> QED BY <4>4 DEF x
    <3>3. ring[SlotOf(tail + f, d)] = yielded[f * Channels + d + 1]
      <4> HIDE DEF f, d
      <4> QED BY <3>1, <3>2 DEF StreamInv, Stored
    <3>4. f * Channels + d + 1 = (i - 1) * Channels + c
      <4>1. f * Channels \in Int
        BY <3>1, Samples
      <4> QED BY <4>1
    <3> QED BY <3>1, <3>3, <3>4
  <2> QED BY <2>1 DEF FrameAt
<1>4. \A i \in 1 .. done : wf[i] = FrameAt(tail + i - 1)
  BY <1>2, <1>3
<1>5. \A i \in 1 .. done : FrameAt(tail + i - 1) \in Frame
  <2>1. \A i \in 1 .. done : tail + i - 1 \in Nat
    BY <1>1
  <2> QED BY <1>1, <2>1, QueueIs DEF QueueFacts
<1>6. wf \in [1 .. done -> Frame]
  BY <1>2, <1>3, <1>5
<1>7. done \in Nat
  BY <1>1
<1> QED BY <1>4, <1>6, <1>7, SeqDef

\* A commit publishes the whole frames the call took from its iterator; those
\* the card is already past are dropped.
LEMMA FifoPublish ==
  ASSUME IInv, StreamInv, applPtr >= 0, IInv', Commit
  PROVE  Fifo!Publish
<1>1. /\ pc = "commit" /\ pending' = pending + done /\ yielded' = <<>>
      /\ UNCHANGED <<hw, state, ring>>
  BY DEF Commit, card
<1>2. /\ tail \in Nat /\ hw \in Nat /\ pending \in Int /\ done \in 0 .. BufSize
      /\ (tail - pending) - hw \in {0, Boundary, 2 * Boundary}
  BY StreamNumbers
<1>3. done + pending <= BufSize
  BY <1>1 DEF IInv, CallBounded
<1> DEFINE wf == Fifo!WholeFrames(yielded)
           all == queueBar \o wf
<1>4. /\ wf \in Seq(Frame) /\ Len(wf) = done
      /\ \A i \in 1 .. done :
           hw + pending + i - 1 \in Nat => wf[i] = FrameAt(hw + pending + i - 1)
  <2>1. /\ wf \in Seq(Frame) /\ Len(wf) = done
        /\ \A i \in 1 .. done : wf[i] = FrameAt(tail + i - 1)
    BY <1>1, FramesStored
  <2> HIDE DEF wf
  <2>2. ASSUME NEW i \in 1 .. done, hw + pending + i - 1 \in Nat
        PROVE  FrameAt(tail + i - 1) = FrameAt(hw + pending + i - 1)
    <3>1. tail + i - 1 \in Nat
      BY <1>2
    <3>2. (tail + i - 1) - (hw + pending + i - 1)
            \in {-2 * Boundary, -Boundary, 0, Boundary, 2 * Boundary}
      BY <1>2, RingAssumption
    <3> QED BY <2>2, <3>1, <3>2, SameFrame
  <2> QED BY <2>1, <2>2
<1>5. /\ waits \in Nat /\ queueBar \in Seq(Frame) /\ Len(queueBar) = waits
      /\ \A i \in 1 .. waits : queueBar[i] = FrameAt(hw + i - 1)
  BY QueueIs DEF QueueFacts
<1>6. /\ waits' \in Nat /\ queueBar' \in Seq(Frame) /\ Len(queueBar') = waits'
      /\ \A i \in 1 .. waits' : queueBar'[i] = FrameAt(hw + i - 1)
  <2>1. /\ waits' \in Nat /\ queueBar' \in Seq(Frame) /\ Len(queueBar') = waits'
        /\ \A i \in 1 .. waits' : queueBar'[i] = FrameAt(hw + i - 1)'
    <3>1. QueueFacts'
      BY QueueIs, PTL
    <3> QED BY <3>1 DEF QueueFacts
  <2> QED BY <1>1, <2>1 DEF FrameAt
<1> HIDE DEF wf
<1>7. /\ all \in Seq(Frame) /\ Len(all) = waits + done
      /\ \A i \in 1 .. waits + done :
           all[i] = IF i <= waits THEN queueBar[i] ELSE wf[i - waits]
  BY <1>4, <1>5, ConcatProperties
<1> HIDE DEF all
<1>8. Len(all) - lateBar = done + pending
  BY <1>2, <1>7 DEF lateBar, waits
<1>9. lateBar' = IF Len(all) >= lateBar THEN 0 ELSE lateBar - Len(all)
  BY <1>1, <1>2, <1>7 DEF lateBar, waits
<1>10. queueBar' = SubSeq(all, lateBar + 1, Len(all))
  <2> DEFINE rest == SubSeq(all, lateBar + 1, Len(all))
  <2>1. lateBar \in Nat /\ Len(all) \in Nat
    BY <1>2, <1>7, RingAssumption DEF lateBar
  <2>2. \A i \in lateBar + 1 .. Len(all) : all[i] \in Frame
    BY <1>7, <2>1
  <2>3. /\ rest \in Seq(Frame)
        /\ Len(rest) = IF lateBar + 1 <= Len(all) THEN Len(all) - lateBar ELSE 0
        /\ \A i \in 1 .. Len(all) - lateBar : rest[i] = all[lateBar + i]
    BY <2>1, <2>2, SubSeqProperties
  <2> HIDE DEF rest
  <2>4. Len(rest) = waits'
    BY <1>1, <1>2, <1>8, <2>1, <2>3 DEF waits
  <2>5. ASSUME NEW i \in 1 .. waits' PROVE rest[i] = queueBar'[i]
    <3>1. i \in 1 .. Len(all) - lateBar /\ waits' = pending + done /\ i <= pending + done
      BY <1>1, <1>2, <1>8, <2>5 DEF waits
    <3>2. rest[i] = all[lateBar + i]
      BY <2>3, <3>1
    <3>3. queueBar'[i] = FrameAt(hw + i - 1)
      BY <1>6
    <3>4. CASE pending < 0
      <4>1. waits = 0 /\ lateBar = -pending
        BY <3>4 DEF waits, lateBar
      <4>2. /\ lateBar + i \in 1 .. done
            /\ hw + pending + (lateBar + i) - 1 = hw + i - 1 /\ hw + i - 1 \in Nat
        BY <1>2, <3>1, <3>4, <4>1
      <4>3. all[lateBar + i] = wf[lateBar + i]
        <5> DEFINE k == lateBar + i
        <5>1. k \in 1 .. done
          BY <4>2
        <5> HIDE DEF k
        <5>2. k \in 1 .. waits + done /\ ~(k <= waits) /\ k - waits = k
          BY <1>2, <4>1, <5>1
        <5>3. all[k] = wf[k - waits]
          BY <1>7, <5>2
        <5> QED BY <5>2, <5>3 DEF k
      <4> QED BY <1>4, <3>2, <3>3, <4>2, <4>3
    <3>5. CASE pending >= 0
      <4>1. waits = pending /\ lateBar = 0 /\ lateBar + i = i /\ i \in 1 .. waits + done
        BY <1>2, <3>1, <3>5 DEF waits, lateBar
      <4>2. CASE i <= waits
        <5>1. i \in 1 .. waits
          BY <4>1, <4>2
        <5> QED BY <1>5, <1>7, <3>2, <3>3, <4>1, <4>2, <5>1
      <4>3. CASE ~(i <= waits)
        <5>1. /\ i - waits \in 1 .. done /\ hw + i - 1 \in Nat
              /\ hw + pending + (i - waits) - 1 = hw + i - 1
          BY <1>2, <4>1, <4>3
        <5> QED BY <1>4, <1>7, <3>2, <3>3, <4>1, <4>3, <5>1
      <4> QED BY <4>2, <4>3
    <3> QED BY <1>2, <3>4, <3>5
  <2>6. rest = queueBar'
    BY <1>6, <2>3, <2>4, <2>5, SeqEqual
  <2> QED BY <2>6 DEF rest
<1> QED BY <1>1, <1>2, <1>3, <1>8, <1>9, <1>10, RingAssumption
        DEF Fifo!Publish, Fifo!Drop, wf, all

\* The card plays n frames from the front of the queue, or goes past its end.
LEMMA FifoPlay ==
  ASSUME IInv, IInv', NEW n \in 1 .. BufSize + MaxOverrun, HwAdvance(n)
  PROVE  Fifo!Play(n)
<1>1. /\ state = "Running" /\ pending' = pending - n
      /\ hw' = IF hw + n >= Boundary THEN hw + n - Boundary ELSE hw + n
      /\ state' = IF n >= pending THEN "XRun" ELSE "Running"
      /\ UNCHANGED <<ring, yielded>>
  BY DEF HwAdvance, call
<1>2. /\ hw \in Nat /\ pending \in Nat /\ pending > 0 /\ n \in Nat /\ hw' \in Nat
  <2>1. hw \in Nat /\ pending \in Int /\ pending > 0
    BY <1>1, StreamNumbers DEF IInv, RunningHasFrames
  <2> QED BY <1>1, <2>1, RingAssumption, PlaybackAssumption
<1>3. /\ waits = pending /\ lateBar = 0
      /\ waits' = (IF n < pending THEN pending - n ELSE 0)
      /\ lateBar' = (IF n < pending THEN 0 ELSE n - pending)
  BY <1>1, <1>2 DEF waits, lateBar
<1>4. /\ queueBar \in Seq(Frame) /\ Len(queueBar) = waits
      /\ \A i \in 1 .. waits : queueBar[i] = FrameAt(hw + i - 1)
  BY QueueIs DEF QueueFacts
<1>5. /\ queueBar' \in Seq(Frame) /\ Len(queueBar') = waits'
      /\ \A i \in 1 .. waits' : queueBar'[i] = FrameAt(hw' + i - 1)
  <2>1. /\ queueBar' \in Seq(Frame) /\ Len(queueBar') = waits'
        /\ \A i \in 1 .. waits' : queueBar'[i] = FrameAt(hw + i - 1)'
    <3>1. QueueFacts'
      BY QueueIs, PTL
    <3> QED BY <3>1 DEF QueueFacts
  <2> QED BY <1>1, <2>1 DEF FrameAt
<1>6. queueBar' = SubSeq(queueBar, n + 1, Len(queueBar))
  <2> DEFINE rest == SubSeq(queueBar, n + 1, Len(queueBar))
  <2>1. \A i \in n + 1 .. Len(queueBar) : queueBar[i] \in Frame
    BY <1>2, <1>3, <1>4
  <2>2. /\ rest \in Seq(Frame)
        /\ Len(rest) = IF n + 1 <= pending THEN pending - n ELSE 0
        /\ \A i \in 1 .. pending - n : rest[i] = queueBar[n + i]
    BY <1>2, <1>3, <1>4, <2>1, SubSeqProperties
  <2> HIDE DEF rest
  <2>3. Len(rest) = waits'
    BY <1>2, <1>3, <2>2
  <2>4. ASSUME NEW i \in 1 .. waits' PROVE rest[i] = queueBar'[i]
    <3>1. i \in 1 .. pending - n /\ n + i \in 1 .. waits
      BY <1>2, <1>3, <2>4
    <3>2. FrameAt(hw + (n + i) - 1) = FrameAt(hw' + i - 1)
      <4>1. PICK h \in Nat : h = hw'
        BY <1>2
      <4>2. h = (IF hw + n >= Boundary THEN hw + n - Boundary ELSE hw + n) /\ i \in Nat \ {0}
        BY <1>1, <1>2, <3>1, <4>1
      <4>3. hw + (n + i) - 1 \in Nat /\ h + i - 1 \in Nat
        BY <1>2, <4>2
      <4>4. (hw + (n + i) - 1) - (h + i - 1)
              \in {-2 * Boundary, -Boundary, 0, Boundary, 2 * Boundary}
        BY <1>2, <4>2, RingAssumption
      <4>5. FrameAt(hw + (n + i) - 1) = FrameAt(h + i - 1)
        BY <4>3, <4>4, SameFrame
      <4> QED BY <4>1, <4>5
    <3> QED BY <1>4, <1>5, <2>2, <3>1, <3>2
  <2>5. rest = queueBar'
    BY <1>5, <2>2, <2>3, <2>4, SeqEqual
  <2> QED BY <2>5 DEF rest
<1> QED BY <1>1, <1>2, <1>3, <1>4, <1>6 DEF Fifo!Play, Fifo!Drop

\* While appl_ptr is not below zero, every step is one of the FIFO or changes
\* nothing of it.
LEMMA FifoNext ==
  IInv /\ StreamInv /\ applPtr >= 0 /\ IInv' /\ [Next]_vars
    => [Fifo!Next]_(Fifo!vars)
<1> SUFFICES ASSUME IInv, StreamInv, applPtr >= 0, IInv', [Next]_vars
             PROVE  [Fifo!Next]_(Fifo!vars)
  OBVIOUS
<1>1. CASE BeginWrite \/ IterEnds \/ RegionFull
  <2>1. UNCHANGED <<hw, state, ring, pending, yielded>>
    BY <1>1 DEF BeginWrite, IterEnds, RegionFull, card
  <2> QED BY <2>1 DEF Fifo!vars, queueBar, waits, FrameAt, lateBar
<1>2. ASSUME NEW s \in Sample, StoreSample(s) PROVE Fifo!Next
  BY <1>2, FifoOffer DEF Fifo!Next
<1>3. CASE Commit
  BY <1>3, FifoPublish DEF Fifo!Next
<1>4. CASE Start
  <2>1. /\ state = "Prepared" /\ pending > 0 /\ state' = "Running"
        /\ UNCHANGED <<hw, ring, pending, yielded>>
    BY <1>4 DEF Start, call
  <2>2. queueBar # <<>>
    <3>1. pending \in Int
      BY StreamNumbers
    <3>2. Len(queueBar) = waits /\ waits > 0
      BY <2>1, <3>1, QueueIs DEF QueueFacts, waits
    <3> QED BY <3>2
  <2>3. queueBar' = queueBar /\ lateBar' = lateBar
    BY <2>1 DEF queueBar, waits, FrameAt, lateBar
  <2> QED BY <2>1, <2>2, <2>3 DEF Fifo!Next, Fifo!Start
<1>5. CASE Prepare
  <2>1. /\ pc = "idle" /\ state # "Running" /\ state' = "Prepared" /\ pending' = 0
        /\ UNCHANGED yielded
    BY <1>5 DEF Prepare, call
  <2>2. yielded = <<>>
    BY <2>1 DEF StreamInv, Stored
  <2>3. waits' = 0 /\ lateBar' = 0
    BY <2>1 DEF waits, lateBar
  <2>4. queueBar' = <<>>
    BY <2>3 DEF queueBar
  <2> QED BY <2>1, <2>2, <2>3, <2>4 DEF Fifo!Next, Fifo!Reset
<1>6. ASSUME NEW n \in 1 .. BufSize + MaxOverrun, HwAdvance(n) PROVE Fifo!Next
  BY <1>6, FifoPlay DEF Fifo!Next
<1>7. CASE UNCHANGED vars
  BY <1>7 DEF vars, Fifo!vars, queueBar, waits, FrameAt, lateBar
<1> QED BY <1>1, <1>2, <1>3, <1>4, <1>5, <1>6, <1>7 DEF Next, Write

\* write never fills a slot whose frame waits to be played, however far the card
\* got since data_ptr and however often either counter wraps: also when commit
\* has left appl_ptr below zero, what of the region is in the ring is free.
THEOREM RegionsStayFree == Spec => []RegionsFree
<1>1. IInv /\ StreamInv /\ [Next]_vars => StreamInv'
  BY NextStream
<1>2. IInv /\ StreamInv => RegionsFree
  BY StreamFree
<1> QED BY InitIInv, NextIInv, InitStream, <1>1, <1>2, PTL DEF Spec

\* appl_ptr stays within a buffer of MaxAppl, and only without a write in
\* progress is it above.
Early == applPtr \in 0 .. MaxAppl + BufSize /\ (pc # "idle" => applPtr <= MaxAppl)

LEMMA NextEarly ==
  ASSUME MaxAppl + 2 * BufSize < Boundary, IInv, Early, [Next]_vars
  PROVE  Early'
<1>1. MaxAppl \in Nat /\ BufSize \in Nat /\ Boundary \in Nat
  BY RingAssumption, PlaybackAssumption
<1>2. CASE BeginWrite
  <2>1. applPtr <= MaxAppl /\ appl' = appl
    BY <1>2 DEF BeginWrite
  <2> QED BY <2>1 DEF Early, applPtr
<1>3. CASE Commit
  <2>1. PICK a \in 0 .. MaxAppl : a = applPtr
    BY <1>1, <1>3 DEF Commit, Early
  <2>2. PICK v \in 0 .. BufSize : v = done
    BY DEF IInv, TypeOK
  <2>3. CommitTo(a, v) = a + v /\ a + v \in 0 .. MaxAppl + BufSize
        /\ a + v \in -BufSize .. Boundary - 1
    BY <1>1, <2>1, <2>2 DEF CommitTo
  <2>4. applPtr' = a + v /\ pc' = "idle"
    BY <1>3, <2>1, <2>2, <2>3, CastRoundTrip DEF Commit, applPtr
  <2> QED BY <2>3, <2>4 DEF Early
<1>4. CASE Prepare
  <2>1. applPtr' = 0 /\ pc' = "idle"
    BY <1>4, RingAssumption DEF Prepare, call, applPtr, AsFrames
  <2> QED BY <1>1, <2>1 DEF Early
<1>5. CASE UNCHANGED appl /\ (pc' # "idle" => pc # "idle")
  BY <1>5 DEF Early, applPtr
<1>6. \/ BeginWrite \/ Commit \/ Prepare
      \/ UNCHANGED appl /\ (pc' # "idle" => pc # "idle")
  BY Zenon DEF Next, Write, StoreSample, IterEnds, RegionFull, Start, HwAdvance, call, vars
<1> QED BY <1>2, <1>3, <1>4, <1>5, <1>6

\* A stream never comes to a commit that leaves appl_ptr below zero when no
\* write begins in the last two buffers before the boundary.
THEOREM AboveZeroBeforeBoundary ==
  ASSUME MaxAppl + 2 * BufSize < Boundary PROVE Spec => [](applPtr >= 0)
<1>1. Init => Early
  BY RingAssumption, PlaybackAssumption DEF Init, Early, applPtr, AsFrames
<1>2. IInv /\ Early /\ [Next]_vars => Early'
  BY NextEarly
<1>3. Early => applPtr >= 0
  BY RingAssumption, PlaybackAssumption DEF Early
<1> QED BY InitIInv, NextIInv, <1>1, <1>2, <1>3, PTL DEF Spec

\* As long as no commit leaves appl_ptr below zero, all that data_ptr hands out
\* lies in the ring buffer, as its doc says; the run playback_region_doc shows
\* the commit that ends this.
THEOREM RegionsLieInRing == Spec /\ [](applPtr >= 0) => []RegionsInRing
<1>1. RegionsBounded /\ applPtr >= 0 => RegionsInRing
  BY DEF RegionsBounded, RegionsInRing
<1> QED BY RegionsStayBounded, <1>1, PTL

\* As long as no commit leaves appl_ptr below zero, write and the card are a FIFO
\* of whole frames, however often the counters wrap: samples become audible at
\* their commit, in the iterator's order, as whole frames, and are played in that
\* order, once; after an underrun the frames the card is past are dropped.
THEOREM PlaybackIsFifo == Spec /\ [](applPtr >= 0) => ImplementsFifo
<1>1. IInv /\ StreamInv /\ [Next]_vars => StreamInv'
  BY NextStream
<1>2. IInv /\ StreamInv /\ applPtr >= 0 /\ IInv' /\ [Next]_vars => [Fifo!Next]_(Fifo!vars)
  BY FifoNext
<1> QED BY InitIInv, NextIInv, InitStream, FifoInit, <1>1, <1>2, PTL
        DEF Spec, ImplementsFifo, Fifo!Spec
=============================================================================
