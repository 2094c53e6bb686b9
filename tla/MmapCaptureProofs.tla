-------------------------- MODULE MmapCaptureProofs --------------------------
(***************************************************************************)
(* What TLC checks of capture on a ring of three frames, for every ring    *)
(* and however often the counters wrap, as long as no commit leaves        *)
(* appl_ptr below zero: Capture::avail does not make up for that (see      *)
(* MmapRing).  CaptureInv bounds the counters and the iterator; StreamInv  *)
(* says which frames of the stream its regions hold, and gives the         *)
(* refinement of CaptureFifo.                                              *)
(***************************************************************************)
EXTENDS MmapCapture, MmapRingProofs, SequenceTheorems, TLAPS

\* No commit has left appl_ptr below zero.
AboveZero == applPtr >= 0

\* What has been recorded is what has been read, up to a boundary hw_ptr is
\* behind once it has wrapped and appl_ptr has not.
CountersAgree ==
  /\ appl \in 0 .. Boundary - 1
  /\ hw - appl - unread \in {-Boundary, 0}
  /\ unread \in Nat /\ unread + lag <= BufSize + MaxOverrun

\* An iterator's samples were recorded and fit the ring; without an iterator
\* there are none.
IterBounded ==
  /\ p_offs <= SamplesOf(samples)
  /\ HeldFrames <= unread * Channels
  /\ HeldFrames <= BufSize * Channels
  /\ ~open => samples.frames = 0 /\ read_samples = 0 /\ p_offs = 0 /\ next_p = <<>>

CaptureInv == TypeOK /\ CountersAgree /\ IterBounded

-----------------------------------------------------------------------------
(* Arithmetic                                                              *)

\* The page of a state of the invariant holds appl_ptr as it is.
LEMMA ApplPtrValue == CountersAgree => applPtr = appl
BY RingAssumption DEF CountersAgree, applPtr, AsFrames

\* A commit that stays above zero adds, less a boundary or not, and the page
\* keeps what is stored.
LEMMA CommitAdds ==
  ASSUME NEW a \in 0 .. Boundary - 1, NEW v \in 0 .. BufSize,
         NEW u, u = AsUnsigned(CommitTo(a, v)), AsFrames(u) >= 0
  PROVE  /\ u \in 0 .. Boundary - 1
         /\ u - a - v \in {-Boundary, 0}
<1> DEFINE f == CommitTo(a, v)
<1>1. f \in -BufSize .. Boundary - 1 /\ f - a - v \in {-Boundary, 0}
  <2>1. a \in -BufSize .. Boundary - 1
    BY RingAssumption
  <2> QED BY <2>1, CommitToValue
<1> HIDE DEF f
<1>2. u = AsUnsigned(f)
  BY DEF f
<1>3. AsFrames(u) = f
  BY <1>1, <1>2, CastRoundTrip
<1>4. f >= 0 /\ u = f
  BY <1>1, <1>2, <1>3 DEF AsUnsigned
<1> QED BY <1>1, <1>4

\* Taken off what is recorded and added to what is read, frames committed leave
\* the counters in agreement.
LEMMA CommitAgrees ==
  ASSUME NEW h \in 0 .. Boundary - 1, NEW a \in 0 .. Boundary - 1,
         NEW u \in 0 .. Boundary - 1, NEW r \in Nat, NEW v \in Nat, v <= r,
         h - a - r \in {-Boundary, 0}, u - a - v \in {-Boundary, 0}
  PROVE  h - u - (r - v) \in {-Boundary, 0}
BY RingAssumption

\* avail() is exact in every state of the invariant.
LEMMA InvAvail == CaptureInv => AvailExact
<1> SUFFICES ASSUME CaptureInv PROVE AvailExact
  OBVIOUS
<1>1. /\ hw \in 0 .. Boundary - 1 /\ appl \in 0 .. Boundary - 1
      /\ unread \in 0 .. 2 * BufSize /\ hw - appl - unread \in {-Boundary, 0}
  BY RingAssumption, CaptureAssumption
     DEF CaptureInv, TypeOK, CountersAgree
<1>2. applPtr = appl
  BY ApplPtrValue DEF CaptureInv
<1> QED BY <1>1, <1>2, AvailCaptureValue DEF AvailExact, avail

\* data_ptr gives one region or two, in the ring, that hold no more frames
\* than are available.
LEMMA DataPtrRegions ==
  ASSUME NEW v \in Nat, NEW a \in Nat,
         NEW regions, regions = DataPtr(v, a)
  PROVE  /\ regions \in Seq(Region)
         /\ \/ Len(regions) = 1 /\ Tail(regions) = <<>>
               /\ regions[1].frames <= v /\ regions[1].frames <= BufSize
            \/ Len(regions) = 2 /\ Tail(regions) = <<regions[2]>>
               /\ regions[1].frames + regions[2].frames <= v
               /\ regions[1].frames + regions[2].frames <= BufSize
<1> DEFINE offs == RustRem(a, BufSize)
           m    == IF v <= BufSize THEN v ELSE BufSize
           b    == BufSize - offs
           at1  == offs * Channels
<1>1. offs \in 0 .. BufSize - 1
  BY RingAssumption DEF RustRem
<1>2. at1 \in -(BufSize * Channels) .. BufSize * Channels
      /\ 0 \in -(BufSize * Channels) .. BufSize * Channels
  <2>1. offs * Channels <= BufSize * Channels /\ 0 <= offs * Channels
        /\ BufSize * Channels \in Nat /\ offs * Channels \in Int
    BY <1>1, Samples, RingAssumption
  <2> QED BY <2>1
<1>3. m \in 0 .. BufSize /\ m <= v /\ b \in 1 .. BufSize
  BY <1>1, RingAssumption
<1> HIDE DEF offs, at1, m, b
<1>4. regions = IF b < m
                THEN <<[at |-> at1, frames |-> b], [at |-> 0, frames |-> m - b]>>
                ELSE <<[at |-> at1, frames |-> m]>>
  BY DEF DataPtr, offs, m, b, at1
<1>5. CASE b < m
  <2>1. /\ [at |-> at1, frames |-> b] \in Region
        /\ [at |-> 0, frames |-> m - b] \in Region
    BY <1>2, <1>3, <1>5, RingAssumption DEF Region
  <2>2. regions = <<[at |-> at1, frames |-> b], [at |-> 0, frames |-> m - b]>>
    BY <1>4, <1>5
  <2> QED BY <2>1, <2>2, <1>3, RingAssumption
<1>6. CASE ~(b < m)
  <2>1. [at |-> at1, frames |-> m] \in Region
    BY <1>2, <1>3, RingAssumption DEF Region
  <2>2. regions = <<[at |-> at1, frames |-> m]>>
    BY <1>4, <1>6
  <2> QED BY <2>1, <2>2, <1>3, RingAssumption
<1> QED BY <1>5, <1>6

-----------------------------------------------------------------------------
(* The invariant                                                           *)

\* A fresh stream has nothing recorded and no iterator.
LEMMA InitInv == Init => CaptureInv
<1> SUFFICES ASSUME Init PROVE CaptureInv
  OBVIOUS
<1>1. BufSize * Channels \in Nat /\ 0 * Channels = 0
  BY RingAssumption
<1>2. TypeOK
  <2>1. samples \in Region
    BY <1>1, RingAssumption DEF Init, Region, NoRegion
  <2>2. /\ hw \in 0 .. Boundary - 1 /\ lag \in 0 .. BufSize + MaxOverrun
        /\ appl \in 0 .. 2 * HalfWord - 1
    BY RingAssumption, CaptureAssumption DEF Init
  <2>3. p_offs \in 0 .. BufSize * Channels /\ read_samples \in 0 .. BufSize * Channels
    BY <1>1 DEF Init
  <2>4. next_p \in Seq(Region) /\ Len(next_p) <= 1 /\ unread \in Int
    BY DEF Init
  <2>5. state \in {"Prepared", "Running", "XRun"} /\ ring \in [RingIndex -> Sample]
    BY DEF Init
  <2>6. open \in BOOLEAN /\ overrun \in BOOLEAN /\ out \in Sample \cup {NoItem}
    BY DEF Init
  <2> QED BY <2>1, <2>2, <2>3, <2>4, <2>5, <2>6 DEF TypeOK
<1>3. CountersAgree
  BY RingAssumption, CaptureAssumption DEF Init, CountersAgree
<1>4. SamplesOf(samples) = 0 /\ HeldFrames = 0
  BY <1>1 DEF Init, SamplesOf, NoRegion, HeldFrames
<1>5. IterBounded
  BY <1>1, <1>4 DEF Init, IterBounded, NoRegion
<1> QED BY <1>2, <1>3, <1>5 DEF CaptureInv

\* The samples an iterator holds, as numbers.
LEMMA HeldParts ==
  ASSUME CaptureInv
  PROVE  /\ SamplesOf(samples) \in Nat /\ HeldFrames \in Nat
         /\ p_offs \in Nat /\ read_samples \in Nat
         /\ read_samples <= HeldFrames
         /\ next_p = <<>> => HeldFrames = read_samples + (SamplesOf(samples) - p_offs)
         /\ next_p # <<>> =>
              /\ next_p[1] \in Region /\ SamplesOf(next_p[1]) \in Nat
              /\ HeldFrames = read_samples + (SamplesOf(samples) - p_offs)
                              + SamplesOf(next_p[1])
<1>1. samples \in Region /\ p_offs \in Nat /\ read_samples \in Nat
      /\ p_offs <= SamplesOf(samples)
  BY RingAssumption DEF CaptureInv, TypeOK, IterBounded
<1>2. \A r \in Region : SamplesOf(r) \in Nat
  BY RingAssumption DEF Region, SamplesOf
<1>3. ASSUME next_p # <<>> PROVE next_p[1] \in Region
  BY <1>3 DEF CaptureInv, TypeOK
<1> QED BY <1>1, <1>2, <1>3 DEF HeldFrames

\* A commit of the whole frames read stays within what was recorded.
LEMMA CommitInv ==
  ASSUME CaptureInv, CommitFrames(read_samples \div Channels), AboveZero',
         UNCHANGED <<hw, lag>>
  PROVE  /\ CountersAgree'
         /\ appl' \in 0 .. 2 * HalfWord - 1
         /\ read_samples \div Channels \in Nat
         /\ read_samples \div Channels <= unread
         /\ appl' - appl - read_samples \div Channels \in {-Boundary, 0}
         /\ unread' = unread - read_samples \div Channels
<1> DEFINE v == read_samples \div Channels
<1>1. /\ read_samples \in Nat
      /\ read_samples <= unread * Channels /\ read_samples <= BufSize * Channels
  <2>1. unread * Channels \in Int /\ BufSize * Channels \in Int
    BY Samples, RingAssumption DEF CaptureInv, CountersAgree
  <2> QED BY <2>1, HeldParts DEF CaptureInv, IterBounded
<1>2. v \in Nat /\ v <= unread /\ v <= BufSize
  <2>1. unread \in Int /\ BufSize \in Int
    BY RingAssumption DEF CaptureInv, CountersAgree
  <2> QED BY <1>1, <2>1, WholeFramesBound
<1> HIDE DEF v
<1>3. appl \in 0 .. Boundary - 1 /\ v \in 0 .. BufSize
  BY <1>2, RingAssumption DEF CaptureInv, CountersAgree
<1>4. PICK u \in 0 .. Boundary - 1 : u = appl' /\ u - appl - v \in {-Boundary, 0}
  <2>1. appl' = AsUnsigned(CommitTo(appl, v)) /\ AsFrames(appl') >= 0
    BY ApplPtrValue DEF CommitFrames, CaptureInv, v, AboveZero, applPtr
  <2> QED BY <1>3, <2>1, CommitAdds
<1>5. hw' = hw /\ lag' = lag /\ hw \in Int /\ lag \in Nat /\ unread' = unread - v
  BY DEF CaptureInv, TypeOK, CommitFrames, v
<1>6. CountersAgree'
  <2>1. /\ hw - appl - unread \in {-Boundary, 0} /\ unread \in Nat
        /\ unread + lag <= BufSize + MaxOverrun /\ hw \in 0 .. Boundary - 1
        /\ unread <= 2 * BufSize
    BY <1>5, RingAssumption, CaptureAssumption DEF CaptureInv, TypeOK, CountersAgree
  <2>2. unread - v \in Nat /\ (unread - v) + lag <= BufSize + MaxOverrun
    BY <1>2, <1>5, <2>1, RingAssumption, CaptureAssumption
  <2>3. hw - u - (unread - v) \in {-Boundary, 0}
    BY <1>2, <1>3, <1>4, <2>1, CommitAgrees
  <2> QED BY <1>4, <1>5, <2>2, <2>3 DEF CountersAgree
<1>7. appl' \in 0 .. 2 * HalfWord - 1
  BY <1>4, RingAssumption
<1> QED BY <1>2, <1>4, <1>5, <1>6, <1>7 DEF v

\* An iterator that holds nothing is bounded wherever the counters are.
Empty == /\ samples \in Region /\ samples.frames = 0 /\ p_offs = 0
         /\ read_samples = 0 /\ next_p = <<>>

LEMMA EmptyBounded == CountersAgree /\ Empty => IterBounded
<1> SUFFICES ASSUME CountersAgree, Empty PROVE IterBounded
  OBVIOUS
<1>1. SamplesOf(samples) = 0
  BY RingAssumption DEF SamplesOf, Empty
<1>2. HeldFrames = 0
  BY <1>1 DEF HeldFrames, Empty
<1>3. unread \in Int /\ 0 <= unread /\ BufSize \in Int /\ 0 <= BufSize
  BY RingAssumption DEF CountersAgree
<1>4. 0 <= unread * Channels /\ 0 <= BufSize * Channels
  BY <1>3, Samples
<1> QED BY <1>1, <1>2, <1>4 DEF IterBounded, Empty

\* iter: the regions of data_ptr hold what was recorded.
LEMMA IterStep == CaptureInv /\ Iter => CaptureInv'
<1> SUFFICES ASSUME CaptureInv, Iter PROVE CaptureInv'
  OBVIOUS
<1> DEFINE rs == DataPtr(avail, applPtr)
<1>1. avail = unread /\ applPtr = appl /\ unread \in Nat /\ appl \in Nat
  BY InvAvail, ApplPtrValue, RingAssumption DEF AvailExact, CaptureInv, CountersAgree
<1>2. /\ rs \in Seq(Region)
      /\ \/ Len(rs) = 1 /\ Tail(rs) = <<>>
            /\ rs[1].frames <= unread /\ rs[1].frames <= BufSize
         \/ Len(rs) = 2 /\ Tail(rs) = <<rs[2]>>
            /\ rs[1].frames + rs[2].frames <= unread
            /\ rs[1].frames + rs[2].frames <= BufSize
  BY <1>1, DataPtrRegions
<1>3. samples' = rs[1] /\ next_p' = Tail(rs) /\ p_offs' = 0 /\ read_samples' = 0
      /\ UNCHANGED <<hw, lag, appl, state, ring, out, unread, overrun>> /\ open' = TRUE
  BY DEF Iter, CaptureInv, IterBounded
<1> HIDE DEF rs
<1>4. /\ rs[1] \in Region /\ rs[1].frames \in Nat
      /\ next_p' \in Seq(Region) /\ Len(next_p') <= 1
      /\ Len(rs) = 1 => next_p' = <<>>
      /\ Len(rs) = 2 => /\ next_p' # <<>> /\ next_p'[1] = rs[2]
                         /\ rs[2] \in Region /\ rs[2].frames \in Nat
  <2>1. rs[1] \in Region /\ (Len(rs) = 2 => rs[2] \in Region)
    BY <1>2
  <2>2. \A r \in Region : r.frames \in Nat
    BY DEF Region
  <2>3. CASE Len(rs) = 1
    <3>1. next_p' = <<>> /\ ~(Len(rs) = 2)
      BY <1>2, <1>3, <2>3
    <3>2. <<>> \in Seq(Region) /\ Len(<<>>) = 0
      OBVIOUS
    <3> QED BY <2>1, <2>2, <3>1, <3>2
  <2>4. CASE Len(rs) = 2
    <3>1. next_p' = <<rs[2]>> /\ rs[2] \in Region
      BY <1>2, <1>3, <2>1, <2>4
    <3> QED BY <2>1, <2>2, <2>4, <3>1
  <2> QED BY <1>2, <2>3, <2>4
<1>5. PICK n \in Nat : HeldFrames' = n * Channels /\ n <= unread /\ n <= BufSize
  <2> DEFINE a == rs[1].frames
             b == rs[2].frames
  <2>1. SamplesOf(samples)' = a * Channels /\ p_offs' = 0 /\ read_samples' = 0
    BY <1>3 DEF SamplesOf
  <2>2. a \in Nat /\ a * Channels \in Int
    BY <1>4, RingAssumption
  <2>3. CASE Len(rs) = 1
    <3>1. HeldFrames' = 0 + (a * Channels - 0) + 0
      BY <1>4, <2>1, <2>3 DEF HeldFrames
    <3> QED BY <1>2, <2>2, <2>3, <3>1
  <2>4. CASE Len(rs) = 2
    <3>1. b \in Nat /\ b * Channels \in Int
      BY <1>4, <2>4, RingAssumption
    <3>2. SamplesOf(next_p[1])' = b * Channels /\ next_p' # <<>>
      BY <1>4, <2>4 DEF SamplesOf
    <3>3. HeldFrames' = 0 + (a * Channels - 0) + b * Channels
      BY <2>1, <3>2 DEF HeldFrames
    <3>4. a + b <= unread /\ a + b <= BufSize
      BY <1>2, <2>4
    <3> HIDE DEF a, b
    <3>5. (a + b) * Channels = a * Channels + b * Channels
      BY <2>2, <3>1, Samples
    <3>6. HeldFrames' = (a + b) * Channels /\ a + b \in Nat
      BY <2>2, <3>1, <3>3, <3>5
    <3> QED BY <3>4, <3>6
  <2> QED BY <1>2, <2>3, <2>4
<1>6. TypeOK'
  <2>1. 0 \in 0 .. BufSize * Channels
    BY RingAssumption
  <2> QED BY <1>3, <1>4, <2>1 DEF CaptureInv, TypeOK
<1>7. CountersAgree'
  BY <1>3 DEF CaptureInv, CountersAgree
<1>8. IterBounded'
  <2>1. n * Channels <= unread * Channels /\ n * Channels <= BufSize * Channels
    BY <1>1, <1>5, Samples, RingAssumption
  <2>2. 0 <= SamplesOf(rs[1])
    BY <1>4, RingAssumption DEF Region, SamplesOf
  <2> QED BY <1>3, <1>5, <2>1, <2>2 DEF IterBounded, SamplesOf
<1> QED BY <1>6, <1>7, <1>8 DEF CaptureInv

\* A sample read is held as before, on the other side of p_offs.
LEMMA NextInRegionHeld ==
  ASSUME CaptureInv, NextInRegion
  PROVE  HeldFrames' = HeldFrames /\ read_samples' <= HeldFrames
<1>1. /\ p_offs' = p_offs + 1 /\ read_samples' = read_samples + 1
      /\ p_offs < SamplesOf(samples)
      /\ UNCHANGED <<samples, next_p>>
  BY DEF NextInRegion
<1>2. SamplesOf(samples)' = SamplesOf(samples)
      /\ SamplesOf(next_p[1])' = SamplesOf(next_p[1])
  BY <1>1 DEF SamplesOf
<1>3. CASE next_p = <<>>
  BY <1>1, <1>2, <1>3, HeldParts DEF HeldFrames
<1>4. CASE next_p # <<>>
  BY <1>1, <1>2, <1>4, HeldParts DEF HeldFrames
<1> QED BY <1>3, <1>4

LEMMA NextInRegionStep == CaptureInv /\ NextInRegion => CaptureInv'
<1> SUFFICES ASSUME CaptureInv, NextInRegion PROVE CaptureInv'
  OBVIOUS
<1>1. /\ p_offs' = p_offs + 1 /\ read_samples' = read_samples + 1
      /\ p_offs < SamplesOf(samples)
      /\ UNCHANGED <<hw, lag, appl, state, ring, open, samples, next_p, unread, overrun>>
      /\ open
  BY DEF NextInRegion
<1>2. HeldFrames' = HeldFrames /\ read_samples' <= HeldFrames
  BY NextInRegionHeld
<1>3. SamplesOf(samples) <= BufSize * Channels /\ BufSize * Channels \in Int
      /\ HeldFrames <= BufSize * Channels
  <2>1. samples.frames \in Int /\ samples.frames <= BufSize /\ BufSize \in Int
    BY RingAssumption DEF CaptureInv, TypeOK, Region
  <2> QED BY <2>1, Samples DEF SamplesOf, CaptureInv, IterBounded
<1>4. out' \in Sample \cup {NoItem}
  BY DEF NextInRegion, MemoryAt, CaptureInv, TypeOK
<1>5. TypeOK'
  <2>1. /\ p_offs' \in 0 .. BufSize * Channels
        /\ read_samples' \in 0 .. BufSize * Channels
    BY <1>1, <1>2, <1>3, HeldParts
  <2> QED BY <1>1, <1>4, <2>1 DEF CaptureInv, TypeOK
<1>6. CountersAgree'
  BY <1>1 DEF CaptureInv, CountersAgree
<1>7. IterBounded'
  <2>1. p_offs' <= SamplesOf(samples')
    BY <1>1, HeldParts DEF SamplesOf
  <2> QED BY <1>1, <1>2, <2>1 DEF CaptureInv, IterBounded
<1> QED BY <1>5, <1>6, <1>7 DEF CaptureInv

\* The second region takes the place of the first.
LEMMA NextRegionHeld ==
  ASSUME CaptureInv, NextRegion
  PROVE  /\ next_p[1] \in Region /\ SamplesOf(next_p[1]) >= 1
         /\ p_offs = SamplesOf(samples)
         /\ HeldFrames' = HeldFrames /\ read_samples' <= HeldFrames
         /\ HeldFrames = read_samples + SamplesOf(next_p[1])
<1>1. /\ p_offs' = 1 /\ read_samples' = read_samples + 1
      /\ p_offs >= SamplesOf(samples)
      /\ samples' = next_p[1] /\ next_p' = <<>> /\ next_p # <<>>
      /\ next_p[1].frames > 0
  BY DEF NextRegion
<1>2. /\ p_offs = SamplesOf(samples)
      /\ HeldFrames = read_samples + SamplesOf(next_p[1])
  BY <1>1, HeldParts DEF CaptureInv, IterBounded
<1>3. next_p[1] \in Region /\ SamplesOf(next_p[1]) \in Nat /\ SamplesOf(next_p[1]) >= 1
  <2>1. next_p[1] \in Region
    BY <1>1, HeldParts
  <2> DEFINE k == next_p[1].frames - 1
  <2>2. k \in Nat /\ next_p[1].frames = k + 1
    BY <1>1, <2>1, RingAssumption DEF Region
  <2> HIDE DEF k
  <2>3. (k + 1) * Channels = k * Channels + Channels /\ k * Channels \in Nat
    BY <2>2, RingAssumption
  <2> QED BY <2>1, <2>2, <2>3, RingAssumption DEF SamplesOf
<1>4. HeldFrames' = HeldFrames /\ read_samples' <= HeldFrames
  <2>1. SamplesOf(samples)' = SamplesOf(next_p[1]) /\ next_p' = <<>>
    BY <1>1 DEF SamplesOf
  <2>2. HeldFrames' = (read_samples + 1) + (SamplesOf(next_p[1]) - 1) + 0
    BY <1>1, <2>1 DEF HeldFrames
  <2> QED BY <1>1, <1>2, <1>3, <2>2, HeldParts
<1> QED BY <1>2, <1>3, <1>4

LEMMA NextRegionStep == CaptureInv /\ NextRegion => CaptureInv'
<1> SUFFICES ASSUME CaptureInv, NextRegion PROVE CaptureInv'
  OBVIOUS
<1>1. /\ p_offs' = 1 /\ read_samples' = read_samples + 1
      /\ samples' = next_p[1] /\ next_p' = <<>>
      /\ UNCHANGED <<hw, lag, appl, state, ring, open, unread, overrun>>
      /\ open
  BY DEF NextRegion
<1>2. /\ next_p[1] \in Region /\ SamplesOf(next_p[1]) >= 1
      /\ SamplesOf(next_p[1]) \in Nat
      /\ HeldFrames' = HeldFrames /\ read_samples' <= HeldFrames
      /\ HeldFrames = read_samples + SamplesOf(next_p[1])
  BY NextRegionHeld, RingAssumption DEF Region, SamplesOf
<1>3. BufSize * Channels \in Int /\ BufSize * Channels >= 1
      /\ HeldFrames <= BufSize * Channels
  BY <1>2, HeldParts, RingAssumption DEF CaptureInv, IterBounded
<1>4. out' \in Sample \cup {NoItem}
  BY DEF NextRegion, MemoryAt, CaptureInv, TypeOK
<1>5. TypeOK'
  <2>1. /\ p_offs' \in 0 .. BufSize * Channels
        /\ read_samples' \in 0 .. BufSize * Channels
    BY <1>1, <1>2, <1>3, HeldParts
  <2>2. next_p' \in Seq(Region) /\ Len(next_p') <= 1
    BY <1>1
  <2> QED BY <1>1, <1>2, <1>4, <2>1, <2>2 DEF CaptureInv, TypeOK
<1>6. CountersAgree'
  BY <1>1 DEF CaptureInv, CountersAgree
<1>7. IterBounded'
  <2>1. p_offs' <= SamplesOf(samples')
    BY <1>1, <1>2 DEF SamplesOf
  <2> QED BY <1>1, <1>2, <2>1 DEF CaptureInv, IterBounded
<1> QED BY <1>5, <1>6, <1>7 DEF CaptureInv

\* handle_max commits what was read, and nothing is left.
LEMMA DepletedStep == CaptureInv /\ Depleted /\ AboveZero' => CaptureInv'
<1> SUFFICES ASSUME CaptureInv, Depleted, AboveZero' PROVE CaptureInv'
  OBVIOUS
<1>1. /\ CommitFrames(read_samples \div Channels)
      /\ p_offs' = 0 /\ read_samples' = 0 /\ next_p' = <<>>
      /\ samples' = [samples EXCEPT !.frames = 0] /\ out' = NoItem
      /\ UNCHANGED <<hw, lag, state, ring, open, overrun>>
  BY DEF Depleted
<1>2. CountersAgree' /\ appl' \in 0 .. 2 * HalfWord - 1
  BY <1>1, CommitInv
<1>3. samples' \in Region /\ samples'.frames = 0
  <2>1. samples \in Region /\ 0 \in 0 .. BufSize
    BY RingAssumption DEF CaptureInv, TypeOK
  <2> QED BY <1>1, <2>1 DEF Region
<1>4. IterBounded'
  <2>1. Empty'
    BY <1>1, <1>3 DEF Empty
  <2> QED BY <1>2, <2>1, EmptyBounded, PTL
<1>5. TypeOK'
  <2>1. 0 \in 0 .. BufSize * Channels /\ unread' \in Int /\ <<>> \in Seq(Region)
    BY <1>2, RingAssumption DEF CountersAgree
  <2> QED BY <1>1, <1>2, <1>3, <2>1 DEF CaptureInv, TypeOK
<1> QED BY <1>2, <1>4, <1>5 DEF CaptureInv

\* The drop commits what was read, and nothing is left.
LEMMA DropIterStep == CaptureInv /\ DropIter /\ AboveZero' => CaptureInv'
<1> SUFFICES ASSUME CaptureInv, DropIter, AboveZero' PROVE CaptureInv'
  OBVIOUS
<1>1. /\ CommitFrames(read_samples \div Channels)
      /\ p_offs' = 0 /\ read_samples' = 0 /\ next_p' = <<>>
      /\ samples' = NoRegion /\ out' = NoItem /\ open' = FALSE
      /\ UNCHANGED <<hw, lag, state, ring, overrun>>
  BY DEF DropIter
<1>2. CountersAgree' /\ appl' \in 0 .. 2 * HalfWord - 1
  BY <1>1, CommitInv
<1>3. samples' \in Region /\ samples'.frames = 0
  <2>1. BufSize * Channels \in Nat
    BY RingAssumption
  <2> QED BY <1>1, <2>1, RingAssumption DEF Region, NoRegion
<1>4. IterBounded'
  <2>1. Empty'
    BY <1>1, <1>3 DEF Empty
  <2> QED BY <1>2, <2>1, EmptyBounded, PTL
<1>5. TypeOK'
  <2>1. 0 \in 0 .. BufSize * Channels /\ unread' \in Int /\ <<>> \in Seq(Region)
    BY <1>2, RingAssumption DEF CountersAgree
  <2>2. open' \in BOOLEAN /\ overrun' \in BOOLEAN /\ out' \in Sample \cup {NoItem}
    BY <1>1 DEF CaptureInv, TypeOK
  <2> QED BY <1>1, <1>2, <1>3, <2>1, <2>2 DEF CaptureInv, TypeOK
<1> QED BY <1>2, <1>4, <1>5 DEF CaptureInv

\* start moves no counter.
LEMMA StartStep == CaptureInv /\ Start => CaptureInv'
<1> SUFFICES ASSUME CaptureInv, Start PROVE CaptureInv'
  OBVIOUS
<1> USE DEF Start, iter
<1>1. TypeOK' /\ CountersAgree'
  BY DEF CaptureInv, TypeOK, CountersAgree
<1>2. IterBounded'
  BY DEF CaptureInv, IterBounded, HeldFrames, SamplesOf
<1> QED BY <1>1, <1>2 DEF CaptureInv

\* prepare sets the counters to zero while there is no iterator.
LEMMA PrepareStep == CaptureInv /\ Prepare => CaptureInv'
<1> SUFFICES ASSUME CaptureInv, Prepare PROVE CaptureInv'
  OBVIOUS
<1>1. /\ hw' = 0 /\ lag' = 0 /\ appl' = 0 /\ unread' = 0 /\ overrun' = FALSE
      /\ state' = "Prepared" /\ ~open
      /\ UNCHANGED <<ring, open, samples, p_offs, read_samples, next_p, out>>
  BY DEF Prepare, iter
<1>2. CountersAgree'
  BY <1>1, RingAssumption, CaptureAssumption DEF CountersAgree
<1>3. TypeOK'
  <2>1. /\ hw' \in 0 .. Boundary - 1 /\ lag' \in 0 .. BufSize + MaxOverrun
        /\ appl' \in 0 .. 2 * HalfWord - 1 /\ unread' \in Int
    BY <1>1, RingAssumption, CaptureAssumption
  <2>2. overrun' \in BOOLEAN /\ state' \in {"Prepared", "Running", "XRun"}
    BY <1>1, Zenon
  <2>3. /\ ring' \in [RingIndex -> Sample] /\ open' \in BOOLEAN
        /\ samples' \in Region /\ out' \in Sample \cup {NoItem}
        /\ p_offs' \in 0 .. BufSize * Channels
        /\ read_samples' \in 0 .. BufSize * Channels
        /\ next_p' \in Seq(Region) /\ Len(next_p') <= 1
    BY <1>1 DEF CaptureInv, TypeOK
  <2> QED BY <2>1, <2>2, <2>3 DEF TypeOK
<1>4. Empty'
  BY <1>1 DEF CaptureInv, TypeOK, IterBounded, Empty
<1> QED BY <1>2, <1>3, <1>4, EmptyBounded, PTL DEF CaptureInv

\* The card writes to memory only.
LEMMA HwRecordStep ==
  ASSUME NEW f \in [1 .. Channels -> Sample], CaptureInv, HwRecord(f)
  PROVE  CaptureInv'
<1>1. /\ lag' = lag + 1 /\ unread + lag < BufSize + MaxOverrun
      /\ UNCHANGED <<hw, appl, state, open, samples, p_offs, read_samples, next_p,
                     out, unread>>
  BY DEF HwRecord, iter
<1>2. ring' \in [RingIndex -> Sample]
  <2>1. \A i \in RingIndex : (i % Channels) + 1 \in 1 .. Channels
    BY RingAssumption DEF RingIndex
  <2> QED BY <2>1 DEF HwRecord, CaptureInv, TypeOK
<1>3. overrun' \in BOOLEAN
  BY DEF HwRecord, CaptureInv, TypeOK
<1>4. CountersAgree' /\ lag' \in 0 .. BufSize + MaxOverrun
  BY <1>1, RingAssumption, CaptureAssumption DEF CaptureInv, TypeOK, CountersAgree
<1>5. TypeOK'
  BY <1>1, <1>2, <1>3, <1>4 DEF CaptureInv, TypeOK
<1>6. IterBounded'
  BY <1>1 DEF CaptureInv, IterBounded, HeldFrames, SamplesOf
<1> QED BY <1>4, <1>5, <1>6 DEF CaptureInv

\* The card reports: more is unread than the iterator was given.
LEMMA HwReportStep == CaptureInv /\ HwReport => CaptureInv'
<1> SUFFICES ASSUME CaptureInv, HwReport PROVE CaptureInv'
  OBVIOUS
<1>1. /\ hw' = IF hw + lag >= Boundary THEN hw + lag - Boundary ELSE hw + lag
      /\ unread' = unread + lag /\ lag' = 0 /\ state' \in {"XRun", "Running"}
      /\ UNCHANGED <<appl, ring, open, samples, p_offs, read_samples, next_p,
                     out, overrun>>
  BY DEF HwReport, iter
<1>2. /\ hw \in 0 .. Boundary - 1 /\ lag \in Nat /\ unread \in Nat /\ appl \in Nat
      /\ unread + lag <= BufSize + MaxOverrun /\ appl < Boundary
      /\ hw - appl - unread \in {-Boundary, 0}
  BY RingAssumption, CaptureAssumption
     DEF CaptureInv, TypeOK, CountersAgree
<1>3. hw' \in 0 .. Boundary - 1 /\ hw' - appl - unread' \in {-Boundary, 0}
  BY <1>1, <1>2, RingAssumption, CaptureAssumption
<1>4. CountersAgree'
  BY <1>1, <1>2, <1>3 DEF CaptureInv, CountersAgree
<1>5. TypeOK'
  BY <1>1, <1>2, <1>3, RingAssumption, CaptureAssumption DEF CaptureInv, TypeOK
<1>6. unread * Channels <= unread' * Channels /\ unread * Channels \in Int
      /\ unread' * Channels \in Int
  <2>1. unread \in Int /\ unread' \in Int /\ unread <= unread'
    BY <1>1, <1>2
  <2> QED BY <2>1, Samples
<1>7. HeldFrames' = HeldFrames /\ HeldFrames \in Nat
  <2>1. HeldFrames \in Nat
    BY HeldParts
  <2> QED BY <1>1, <2>1 DEF HeldFrames, SamplesOf
<1>8. IterBounded'
  BY <1>1, <1>6, <1>7 DEF CaptureInv, IterBounded, SamplesOf
<1> QED BY <1>4, <1>5, <1>8 DEF CaptureInv

\* Every step of the iterators, the card and the PCM that does not leave
\* appl_ptr below zero keeps the invariant.
LEMMA NextInv == CaptureInv /\ [Next]_vars /\ AboveZero' => CaptureInv'
<1> SUFFICES ASSUME CaptureInv, [Next]_vars, AboveZero' PROVE CaptureInv'
  OBVIOUS
<1>1. CASE Iter
  BY <1>1, IterStep
<1>2. CASE NextInRegion
  BY <1>2, NextInRegionStep
<1>3. CASE NextRegion
  BY <1>3, NextRegionStep
<1>4. CASE Depleted
  BY <1>4, DepletedStep
<1>5. CASE DropIter
  BY <1>5, DropIterStep
<1>6. CASE Start
  BY <1>6, StartStep
<1>7. CASE Prepare
  BY <1>7, PrepareStep
<1>8. ASSUME NEW f \in [1 .. Channels -> Sample], HwRecord(f) PROVE CaptureInv'
  BY <1>8, HwRecordStep
<1>9. CASE HwReport
  BY <1>9, HwReportStep
<1>10. CASE UNCHANGED vars
  <2> USE <1>10 DEF vars
  <2>1. TypeOK' /\ CountersAgree'
    BY DEF CaptureInv, TypeOK, CountersAgree
  <2>2. IterBounded'
    BY DEF CaptureInv, IterBounded, HeldFrames, SamplesOf
  <2> QED BY <2>1, <2>2 DEF CaptureInv
<1> QED BY <1>1, <1>2, <1>3, <1>4, <1>5, <1>6, <1>7, <1>8, <1>9, <1>10 DEF Next

\* Until frames are overwritten, all that was recorded and not committed is in
\* the ring.
Recorded == unread + lag <= BufSize

\* An iterator that is done with b frames reads on where they end; its second
\* region follows the first.
IterAt(b) ==
  /\ read_samples = b * Channels + p_offs
  /\ samples.frames > 0 => BeginsAt(samples, appl + b)
  /\ next_p # <<>> => BeginsAt(next_p[1], appl + b + samples.frames)
IterPlaced == \E b \in 0 .. BufSize : IterAt(b)

StreamInv == (~overrun => Recorded) /\ IterPlaced

-----------------------------------------------------------------------------
(* What is in the ring                                                     *)

\* The numbers of a state of the invariant.
LEMMA StreamNumbers ==
  ASSUME CaptureInv
  PROVE  /\ hw \in Nat /\ appl \in Nat /\ unread \in Nat /\ lag \in Nat
         /\ p_offs \in Nat /\ read_samples \in Nat
         /\ appl <= Boundary - 1 /\ hw - appl - unread \in {-Boundary, 0}
         /\ samples \in Region /\ samples.frames \in Nat /\ samples.frames <= BufSize
         /\ p_offs <= samples.frames * Channels
         /\ next_p # <<>> => next_p[1] \in Region /\ next_p[1].frames \in Nat
<1>1. samples \in Region /\ (next_p # <<>> => next_p[1] \in Region)
  BY HeldParts DEF CaptureInv, TypeOK
<1>2. \A r \in Region : r.frames \in Nat /\ r.frames <= BufSize
  BY RingAssumption DEF Region
<1>3. hw \in Nat /\ lag \in Nat
  BY RingAssumption, CaptureAssumption DEF CaptureInv, TypeOK
<1>4. /\ appl \in Nat /\ unread \in Nat /\ appl <= Boundary - 1
      /\ hw - appl - unread \in {-Boundary, 0}
  BY RingAssumption DEF CaptureInv, CountersAgree
<1>5. p_offs <= samples.frames * Channels
  BY DEF CaptureInv, IterBounded, SamplesOf
<1>6. p_offs \in Nat /\ read_samples \in Nat
  BY HeldParts
<1> QED BY <1>1, <1>2, <1>3, <1>4, <1>5, <1>6

\* An iterator holds whole frames, no more than there are to read.
LEMMA HeldAreFrames ==
  ASSUME CaptureInv, NEW b \in 0 .. BufSize, IterAt(b),
         NEW n, n = b + samples.frames + (IF next_p = <<>> THEN 0 ELSE next_p[1].frames)
  PROVE  /\ n \in Nat /\ HeldFrames = n * Channels /\ HeldFrames \div Channels = n
         /\ n <= unread /\ n <= BufSize
         /\ next_p = <<>> => read_samples = n * Channels - (SamplesOf(samples) - p_offs)
<1>1. /\ b \in Nat /\ samples.frames \in Nat /\ unread \in Nat /\ p_offs \in Nat
      /\ next_p # <<>> => next_p[1].frames \in Nat
  BY StreamNumbers, RingAssumption
<1> DEFINE f == samples.frames
           g == IF next_p = <<>> THEN 0 ELSE next_p[1].frames
<1>2. f \in Nat /\ g \in Nat /\ n = b + f + g /\ n \in Nat
  BY <1>1
<1>3. HeldFrames = read_samples + (f * Channels - p_offs) + g * Channels
  <2>1. 0 * Channels = 0
    BY RingAssumption
  <2> QED BY <2>1 DEF HeldFrames, SamplesOf
<1>4. read_samples = b * Channels + p_offs
  BY DEF IterAt
<1> HIDE DEF f, g
<1>5. n * Channels = b * Channels + f * Channels + g * Channels
      /\ b * Channels \in Int /\ f * Channels \in Int /\ g * Channels \in Int
  <2>1. b \in Int /\ f \in Int /\ g \in Int /\ b + f \in Int
    BY <1>1, <1>2
  <2>2. (b + f) * Channels = b * Channels + f * Channels
    BY <2>1, Samples
  <2>3. (b + f + g) * Channels = (b + f) * Channels + g * Channels
    BY <2>1, Samples
  <2> QED BY <1>2, <2>1, <2>2, <2>3, Samples
<1>6. HeldFrames = n * Channels
      /\ (g * Channels = 0 => read_samples = n * Channels - (f * Channels - p_offs))
  <2> DEFINE x == b * Channels
             y == f * Channels
             w == g * Channels
  <2>1. x \in Int /\ y \in Int /\ w \in Int /\ n * Channels = x + y + w
        /\ HeldFrames = read_samples + (y - p_offs) + w /\ read_samples = x + p_offs
    BY <1>3, <1>4, <1>5
  <2> HIDE DEF x, y, w
  <2> QED BY <1>1, <2>1 DEF w, y
<1>7. HeldFrames \div Channels = n
  <2>1. n * Channels + 0 = n * Channels /\ 0 \in 0 .. Channels - 1
    BY <1>2, RingAssumption
  <2> QED BY <1>2, <1>6, <2>1, FramesOfSamples
<1>8. n <= unread /\ n <= BufSize
  <2>1. n * Channels <= unread * Channels /\ n * Channels <= BufSize * Channels
    BY <1>6 DEF CaptureInv, IterBounded
  <2>2. n * Channels \in Nat
    BY <1>2, RingAssumption
  <2>3. unread \in Int /\ BufSize \in Int
    BY <1>1, RingAssumption
  <2>4. (n * Channels) \div Channels <= unread /\ (n * Channels) \div Channels <= BufSize
    BY <2>1, <2>2, <2>3, WholeFramesBound
  <2> QED BY <1>6, <1>7, <2>4
<1>9. next_p = <<>> => g * Channels = 0
  BY RingAssumption DEF g
<1> QED BY <1>2, <1>6, <1>7, <1>8, <1>9 DEF f, SamplesOf

\* The next sample of the region is that of its place in the stream.
LEMMA NextSlot ==
  ASSUME CaptureInv, NEW b \in 0 .. BufSize, IterAt(b), p_offs < SamplesOf(samples)
  PROVE  /\ read_samples \div Channels \in Nat
         /\ read_samples % Channels \in 0 .. Channels - 1
         /\ samples.at + p_offs
              = SlotOf(appl + read_samples \div Channels, read_samples % Channels)
<1>1. /\ b \in Nat /\ appl \in Nat /\ p_offs \in Nat /\ samples.frames \in Nat
      /\ read_samples \in Nat
  BY StreamNumbers, RingAssumption
<1>2. samples.frames > 0
  BY <1>1, RingAssumption DEF SamplesOf
<1>3. read_samples = b * Channels + p_offs /\ BeginsAt(samples, appl + b)
  BY <1>2 DEF IterAt
<1>4. /\ p_offs \div Channels \in Nat
      /\ samples.at + p_offs = SlotOf((appl + b) + p_offs \div Channels, p_offs % Channels)
  BY <1>1, <1>3, RegionSlots
<1>5. /\ read_samples \div Channels = b + p_offs \div Channels
      /\ read_samples % Channels = p_offs % Channels
  BY <1>1, <1>3, FramesAdd
<1>6. (appl + b) + p_offs \div Channels = appl + (b + p_offs \div Channels)
  BY <1>1, <1>4
<1> QED BY <1>1, <1>4, <1>5, <1>6, SamplesSplit

\* An iterator without regions and samples is placed.
LEMMA EmptyPlaced == Empty => IterPlaced
<1> SUFFICES ASSUME Empty PROVE IterPlaced
  OBVIOUS
<1>1. 0 \in 0 .. BufSize /\ 0 = 0 * Channels + 0
  BY RingAssumption
<1>2. read_samples = 0 * Channels + p_offs /\ ~(samples.frames > 0) /\ next_p = <<>>
  BY <1>1 DEF Empty
<1> QED BY <1>1, <1>2 DEF IterAt, IterPlaced

\* A prepared stream has recorded nothing, and no iterator is open.
LEMMA InitStream == Init => StreamInv
<1> SUFFICES ASSUME Init PROVE StreamInv
  OBVIOUS
<1>1. Recorded
  BY RingAssumption DEF Init, Recorded
<1>2. IterPlaced
  <2>1. read_samples = 0 /\ p_offs = 0 /\ samples.frames = 0 /\ next_p = <<>>
    BY DEF Init, NoRegion
  <2>2. 0 \in 0 .. BufSize /\ 0 = 0 * Channels + 0
    BY RingAssumption
  <2> QED BY <2>1, <2>2 DEF IterAt, IterPlaced
<1> QED BY <1>1, <1>2 DEF StreamInv

\* iter: the regions follow each other from appl_ptr on.
LEMMA IterStream ==
  ASSUME CaptureInv, StreamInv, Iter PROVE StreamInv'
<1>1. /\ avail = unread /\ applPtr = appl /\ unread \in Nat /\ appl \in Nat
  BY InvAvail, ApplPtrValue, StreamNumbers DEF AvailExact, CaptureInv
<1> DEFINE rs == DataPtr(unread, appl)
<1>2. /\ samples' = rs[1] /\ next_p' = Tail(rs) /\ p_offs' = 0 /\ read_samples' = 0
      /\ UNCHANGED <<hw, lag, appl, unread, overrun>>
  BY <1>1 DEF Iter, CaptureInv, IterBounded
<1>3. /\ BeginsAt(rs[1], appl) /\ rs[1].frames \in 0 .. BufSize
      /\ \/ Tail(rs) = <<>>
         \/ Tail(rs) = <<rs[2]>> /\ BeginsAt(rs[2], appl + rs[1].frames)
  BY <1>1, DataPtrPlaces
<1> HIDE DEF rs
<1>4. IterAt(0)'
  <2>1. 0 = 0 * Channels + 0 /\ appl + 0 = appl
    BY <1>1, RingAssumption
  <2>2. next_p' # <<>> => next_p'[1] = rs[2] /\ BeginsAt(rs[2], appl + rs[1].frames)
    BY <1>2, <1>3
  <2>3. BeginsAt(samples', appl' + 0)
    BY <1>2, <1>3, <2>1
  <2>4. next_p' # <<>> => BeginsAt(next_p'[1], appl' + 0 + samples'.frames)
    BY <1>2, <2>1, <2>2
  <2> QED BY <1>2, <2>1, <2>3, <2>4 DEF IterAt, BeginsAt
<1>5. IterPlaced'
  <2>1. 0 \in 0 .. BufSize
    BY RingAssumption
  <2> QED BY <1>4, <2>1 DEF IterPlaced
<1> QED BY <1>2, <1>5 DEF StreamInv, Recorded

\* A sample read of a region.
LEMMA NextInRegionStream ==
  ASSUME CaptureInv, StreamInv, NextInRegion PROVE StreamInv'
<1>1. /\ p_offs' = p_offs + 1 /\ read_samples' = read_samples + 1
      /\ UNCHANGED <<hw, lag, appl, samples, next_p, unread, overrun>>
  BY DEF NextInRegion
<1>2. PICK b \in 0 .. BufSize : IterAt(b)
  BY DEF StreamInv, IterPlaced
<1>3. IterAt(b)'
  <2>1. b * Channels \in Int /\ p_offs \in Int /\ read_samples = b * Channels + p_offs
    BY <1>2, StreamNumbers, Samples, RingAssumption DEF IterAt
  <2>2. read_samples + 1 = b * Channels + (p_offs + 1)
    BY <2>1
  <2> QED BY <1>1, <1>2, <2>2 DEF IterAt, BeginsAt
<1> QED BY <1>1, <1>3 DEF StreamInv, Recorded, IterPlaced

\* The second region begins where the first, read to its end, ends.
LEMMA NextRegionPlace ==
  ASSUME CaptureInv, StreamInv, NextRegion
  PROVE  \E n \in 0 .. BufSize :
           read_samples = n * Channels /\ BeginsAt(next_p[1], appl + n)
<1>1. p_offs >= SamplesOf(samples) /\ next_p # <<>>
  BY DEF NextRegion
<1>2. PICK b \in 0 .. BufSize : IterAt(b)
  BY DEF StreamInv, IterPlaced
<1>3. /\ b \in Nat /\ samples.frames \in Nat /\ appl \in Nat
      /\ next_p[1].frames \in Nat
  BY <1>1, StreamNumbers, RingAssumption
<1>4. PICK n \in 0 .. BufSize : n = b + samples.frames
  <2>1. b + samples.frames + next_p[1].frames <= BufSize
    BY <1>1, <1>2, HeldAreFrames
  <2> QED BY <1>3, <2>1, RingAssumption
<1>5. read_samples = n * Channels
  <2>1. p_offs = samples.frames * Channels
    <3>1. samples.frames * Channels \in Int /\ p_offs \in Nat
      BY StreamNumbers, RingAssumption
    <3> QED BY <1>1, <3>1, StreamNumbers DEF SamplesOf
  <2>2. b \in Int /\ samples.frames \in Int
    BY <1>3
  <2>3. (b + samples.frames) * Channels = b * Channels + samples.frames * Channels
    BY <2>2, Samples
  <2> QED BY <1>2, <1>4, <2>1, <2>3 DEF IterAt
<1>6. BeginsAt(next_p[1], appl + n)
  <2>1. BeginsAt(next_p[1], appl + b + samples.frames)
    BY <1>1, <1>2 DEF IterAt
  <2>2. appl + b + samples.frames = appl + n
    BY <1>3, <1>4
  <2> QED BY <2>1, <2>2
<1> QED BY <1>4, <1>5, <1>6

LEMMA NextRegionStream ==
  ASSUME CaptureInv, StreamInv, NextRegion PROVE StreamInv'
<1>1. /\ p_offs' = 1 /\ read_samples' = read_samples + 1
      /\ samples' = next_p[1] /\ next_p' = <<>>
      /\ UNCHANGED <<hw, lag, appl, unread, overrun>>
  BY DEF NextRegion
<1>2. PICK n \in 0 .. BufSize :
        read_samples = n * Channels /\ BeginsAt(next_p[1], appl + n)
  BY NextRegionPlace
<1>3. IterAt(n)'
  <2>1. read_samples' = n * Channels + p_offs'
    BY <1>1, <1>2
  <2> QED BY <1>1, <1>2, <2>1 DEF IterAt, BeginsAt
<1>4. IterPlaced'
  BY <1>3 DEF IterPlaced
<1> QED BY <1>1, <1>4 DEF StreamInv, Recorded

\* A commit takes the whole frames read from the front of what is unread.
LEMMA CommitRecorded ==
  ASSUME CaptureInv, StreamInv, CommitFrames(read_samples \div Channels), AboveZero',
         UNCHANGED <<hw, lag>>, ~overrun
  PROVE  Recorded'
<1> DEFINE v == read_samples \div Channels
<1>1. /\ v \in Nat /\ v <= unread /\ unread' = unread - v
  BY CommitInv
<1> HIDE DEF v
<1>2. unread \in Nat /\ lag \in Nat
  BY StreamNumbers
<1> QED BY <1>1, <1>2, RingAssumption DEF StreamInv, Recorded

\* Depletion and drop leave an iterator that holds nothing.
LEMMA DepletedStream ==
  ASSUME CaptureInv, StreamInv, Depleted, AboveZero' PROVE StreamInv'
<1>1. /\ CommitFrames(read_samples \div Channels)
      /\ p_offs' = 0 /\ read_samples' = 0 /\ next_p' = <<>>
      /\ samples' = [samples EXCEPT !.frames = 0]
      /\ UNCHANGED <<hw, lag, overrun>>
  BY DEF Depleted
<1>2. ASSUME ~overrun' PROVE Recorded'
  BY <1>1, <1>2, CommitRecorded
<1>3. Empty'
  <2>1. samples \in Region /\ 0 \in 0 .. BufSize
    BY RingAssumption DEF CaptureInv, TypeOK
  <2>2. samples' \in Region /\ samples'.frames = 0
    BY <1>1, <2>1 DEF Region
  <2> QED BY <1>1, <2>2 DEF Empty
<1>4. IterPlaced'
  BY <1>3, EmptyPlaced, PTL
<1> QED BY <1>2, <1>4 DEF StreamInv

LEMMA DropIterStream ==
  ASSUME CaptureInv, StreamInv, DropIter, AboveZero' PROVE StreamInv'
<1>1. /\ CommitFrames(read_samples \div Channels)
      /\ p_offs' = 0 /\ read_samples' = 0 /\ next_p' = <<>> /\ samples' = NoRegion
      /\ UNCHANGED <<hw, lag, overrun>>
  BY DEF DropIter
<1>2. ASSUME ~overrun' PROVE Recorded'
  BY <1>1, <1>2, CommitRecorded
<1>3. Empty'
  <2>1. BufSize * Channels \in Nat
    BY RingAssumption
  <2> QED BY <1>1, <2>1, RingAssumption DEF Region, NoRegion, Empty
<1>4. IterPlaced'
  BY <1>3, EmptyPlaced, PTL
<1> QED BY <1>2, <1>4 DEF StreamInv

\* start and prepare are called while there is no iterator.
LEMMA StartStream == StreamInv /\ Start => StreamInv'
BY DEF Start, iter, StreamInv, Recorded, IterPlaced, IterAt, BeginsAt

LEMMA PrepareStream ==
  ASSUME CaptureInv, StreamInv, Prepare PROVE StreamInv'
<1>1. /\ hw' = 0 /\ lag' = 0 /\ appl' = 0 /\ unread' = 0 /\ ~open
      /\ UNCHANGED <<samples, p_offs, read_samples, next_p>>
  BY DEF Prepare, iter
<1>2. Recorded'
  BY <1>1, RingAssumption DEF Recorded
<1>3. Empty'
  BY <1>1 DEF CaptureInv, TypeOK, IterBounded, Empty
<1>4. IterPlaced'
  BY <1>3, EmptyPlaced, PTL
<1> QED BY <1>2, <1>4 DEF StreamInv

\* The card records into a full ring only when that overwrites a frame.
LEMMA HwRecordStream ==
  ASSUME CaptureInv, StreamInv, NEW f \in [1 .. Channels -> Sample], HwRecord(f)
  PROVE  StreamInv'
<1>1. /\ lag' = lag + 1 /\ overrun' = (overrun \/ unread + lag >= BufSize)
      /\ UNCHANGED <<hw, appl, open, samples, p_offs, read_samples, next_p, unread>>
  BY DEF HwRecord, iter
<1>2. ASSUME ~overrun' PROVE Recorded'
  <2>1. ~overrun /\ ~(unread + lag >= BufSize)
    BY <1>1, <1>2, Zenon
  <2>2. unread + (lag + 1) <= BufSize
    BY <2>1, StreamNumbers, RingAssumption
  <2> QED BY <1>1, <2>2 DEF Recorded
<1>3. IterPlaced'
  BY <1>1 DEF StreamInv, IterPlaced, IterAt, BeginsAt
<1> QED BY <1>2, <1>3 DEF StreamInv

\* The card reports: what comes in was recorded before.
LEMMA HwReportStream == CaptureInv /\ StreamInv /\ HwReport => StreamInv'
<1> SUFFICES ASSUME CaptureInv, StreamInv, HwReport PROVE StreamInv'
  OBVIOUS
<1>1. /\ unread' = unread + lag /\ lag' = 0
      /\ UNCHANGED <<appl, open, samples, p_offs, read_samples, next_p, overrun>>
  BY DEF HwReport, iter
<1>2. ASSUME ~overrun' PROVE Recorded'
  <2>1. unread + lag <= BufSize
    BY <1>1, <1>2 DEF StreamInv, Recorded
  <2>2. (unread + lag) + 0 <= BufSize
    BY <2>1, StreamNumbers
  <2> QED BY <1>1, <2>2 DEF Recorded
<1>3. IterPlaced'
  BY <1>1 DEF StreamInv, IterPlaced, IterAt, BeginsAt
<1> QED BY <1>2, <1>3 DEF StreamInv

\* Every step keeps the stream and the ring together.
LEMMA NextStream ==
  CaptureInv /\ StreamInv /\ [Next]_vars /\ AboveZero' => StreamInv'
<1> SUFFICES ASSUME CaptureInv, StreamInv, [Next]_vars, AboveZero' PROVE StreamInv'
  OBVIOUS
<1>1. CASE Iter
  BY <1>1, IterStream
<1>2. CASE NextInRegion
  BY <1>2, NextInRegionStream
<1>3. CASE NextRegion
  BY <1>3, NextRegionStream
<1>4. CASE Depleted
  BY <1>4, DepletedStream
<1>5. CASE DropIter
  BY <1>5, DropIterStream
<1>6. CASE Start
  BY <1>6, StartStream
<1>7. CASE Prepare
  BY <1>7, PrepareStream
<1>8. ASSUME NEW f \in [1 .. Channels -> Sample], HwRecord(f) PROVE StreamInv'
  BY <1>8, HwRecordStream
<1>9. CASE HwReport
  BY <1>9, HwReportStream
<1>10. CASE UNCHANGED vars
  BY <1>10 DEF vars, StreamInv, Recorded, IterPlaced, IterAt, BeginsAt
<1> QED BY <1>1, <1>2, <1>3, <1>4, <1>5, <1>6, <1>7, <1>8, <1>9, <1>10 DEF Next

-----------------------------------------------------------------------------
(* The capture FIFO                                                        *)

Frame == [1 .. Channels -> Sample]

\* The queues of the FIFO: frames of the ring.
QueueFacts ==
  /\ queueBar \in Seq(Frame) /\ Len(queueBar) = unread
  /\ \A i \in 1 .. unread : queueBar[i] = FrameAt(appl + i - 1)
  /\ incomingBar \in Seq(Frame) /\ Len(incomingBar) = lag
  /\ \A i \in 1 .. lag : incomingBar[i] = FrameAt(appl + unread + i - 1)

\* Positions that differ by a boundary or two have the same frame.
LEMMA SameFrame ==
  ASSUME NEW p \in Int, NEW q \in Int,
         p - q \in {-2 * Boundary, -Boundary, 0, Boundary, 2 * Boundary}
  PROVE  FrameAt(p) = FrameAt(q)
<1>1. \A c : SlotOf(p, c) = SlotOf(q, c)
  BY SameSlot
<1> QED BY <1>1 DEF FrameAt

\* The frames that wait for an iterator begin at appl_ptr, and those that wait
\* for a report follow them, on whichever side of the boundary hw_ptr is.
LEMMA QueueIs == CaptureInv /\ ~overrun => QueueFacts
<1> SUFFICES ASSUME CaptureInv, ~overrun PROVE QueueFacts
  OBVIOUS
<1>1. /\ appl \in Nat /\ unread \in Nat /\ lag \in Nat /\ hw \in Nat
      /\ hw - appl - unread \in {-Boundary, 0} /\ Boundary \in Nat
  BY StreamNumbers, RingAssumption
<1>2. ASSUME NEW p \in Nat PROVE FrameAt(p) \in Frame
  <2>1. ASSUME NEW c \in 1 .. Channels PROVE ring[SlotOf(p, c - 1)] \in Sample
    <3>1. c - 1 \in 0 .. Channels - 1
      BY RingAssumption
    <3>2. SlotOf(p, c - 1) \in RingIndex
      BY <3>1, SlotInRing
    <3> QED BY <3>2 DEF CaptureInv, TypeOK
  <2> QED BY <2>1 DEF FrameAt, Frame
<1>3. queueBar = [i \in 1 .. unread |-> FrameAt(appl + i - 1)]
  <2>1. ASSUME NEW i \in 1 .. unread PROVE FrameAt(hw - unread + i - 1) = FrameAt(appl + i - 1)
    <3>1. hw - unread + i - 1 \in Int /\ appl + i - 1 \in Int
      BY <1>1
    <3>2. (hw - unread + i - 1) - (appl + i - 1)
            \in {-2 * Boundary, -Boundary, 0, Boundary, 2 * Boundary}
      BY <1>1
    <3> QED BY <3>1, <3>2, SameFrame
  <2> QED BY <2>1 DEF queueBar
<1>4. incomingBar = [i \in 1 .. lag |-> FrameAt(appl + unread + i - 1)]
  <2>1. ASSUME NEW i \in 1 .. lag PROVE FrameAt(hw + i - 1) = FrameAt(appl + unread + i - 1)
    <3>1. hw + i - 1 \in Int /\ appl + unread + i - 1 \in Int
      BY <1>1
    <3>2. (hw + i - 1) - (appl + unread + i - 1)
            \in {-2 * Boundary, -Boundary, 0, Boundary, 2 * Boundary}
      BY <1>1
    <3> QED BY <3>1, <3>2, SameFrame
  <2> QED BY <2>1 DEF incomingBar
<1>5. /\ \A i \in 1 .. unread : appl + i - 1 \in Nat
      /\ \A i \in 1 .. lag : appl + unread + i - 1 \in Nat
  BY <1>1
<1>6. queueBar \in [1 .. unread -> Frame] /\ incomingBar \in [1 .. lag -> Frame]
  BY <1>2, <1>3, <1>4, <1>5
<1>7. /\ queueBar \in Seq(Frame) /\ Len(queueBar) = unread
      /\ incomingBar \in Seq(Frame) /\ Len(incomingBar) = lag
  BY <1>1, <1>6, SeqDef
<1> QED BY <1>3, <1>4, <1>7 DEF QueueFacts

\* The queues of the next state, by the frames of this one.
LEMMA QueueNext ==
  ASSUME CaptureInv', ~overrun', UNCHANGED ring
  PROVE  /\ queueBar' \in Seq(Frame) /\ Len(queueBar') = unread'
         /\ \A i \in 1 .. unread' : queueBar'[i] = FrameAt(appl' + i - 1)
         /\ incomingBar' \in Seq(Frame) /\ Len(incomingBar') = lag'
         /\ \A i \in 1 .. lag' : incomingBar'[i] = FrameAt(appl' + unread' + i - 1)
<1>1. QueueFacts'
  BY QueueIs, PTL
<1> QED BY <1>1 DEF QueueFacts, FrameAt

\* After an overrun nothing is left of the FIFO.
LEMMA NothingPromised ==
  overrun /\ overrun' => UNCHANGED (Fifo!vars)
BY DEF Fifo!vars, incomingBar, queueBar, limitBar, takenBar, outBar

LEMMA FifoInit == Init => Fifo!Init
<1> SUFFICES ASSUME Init PROVE Fifo!Init
  OBVIOUS
<1>1. /\ lag = 0 /\ unread = 0 /\ open = FALSE /\ read_samples = 0 /\ out = NoItem
      /\ overrun = FALSE
  BY DEF Init
<1>2. incomingBar = <<>> /\ queueBar = <<>>
  BY <1>1 DEF incomingBar, queueBar
<1> QED BY <1>1, <1>2 DEF Fifo!Init, Fifo!Fresh, limitBar, takenBar, outBar

\* iter: the iterator may yield all that was reported.
LEMMA FifoOpen ==
  ASSUME CaptureInv, StreamInv, ~overrun, Iter
  PROVE  Fifo!Open
<1>1. /\ ~open /\ open' = TRUE /\ avail = unread /\ applPtr = appl
      /\ UNCHANGED <<hw, lag, ring, read_samples, out, unread, overrun>>
      /\ p_offs' = p_offs /\ read_samples = 0 /\ p_offs = 0
  BY InvAvail, ApplPtrValue DEF Iter, AvailExact, CaptureInv, IterBounded
<1>2. /\ unread \in Nat /\ appl \in Nat /\ unread <= BufSize /\ unread \in Int
  BY StreamNumbers, RingAssumption DEF StreamInv, Recorded
<1> DEFINE rs == DataPtr(unread, appl)
<1>3. samples' = rs[1] /\ next_p' = Tail(rs)
  BY <1>1 DEF Iter
<1>4. /\ rs[1].frames \in 0 .. BufSize
      /\ \/ Tail(rs) = <<>> /\ rs[1].frames = unread
         \/ /\ Tail(rs) = <<rs[2]>> /\ rs[2].frames \in 1 .. BufSize
            /\ rs[1].frames + rs[2].frames = unread
  BY <1>2, DataPtrPlaces
<1> HIDE DEF rs
<1>5. HeldFrames' = unread * Channels
  <2> DEFINE a == rs[1].frames
             b == rs[2].frames
  <2>1. a \in Int /\ a * Channels \in Int
    BY <1>4, RingAssumption
  <2>2. CASE Tail(rs) = <<>> /\ a = unread
    <3>1. HeldFrames' = 0 + (a * Channels - 0) + 0
      BY <1>1, <1>3, <2>2 DEF HeldFrames, SamplesOf
    <3> QED BY <2>1, <2>2, <3>1
  <2>3. CASE Tail(rs) = <<rs[2]>> /\ b \in 1 .. BufSize /\ a + b = unread
    <3>1. next_p' # <<>> /\ next_p'[1] = rs[2] /\ b \in Int
      <4>1. b \in Int
        <5> HIDE DEF a, b
        <5> QED BY <2>3, RingAssumption
      <4>2. next_p' = <<rs[2]>>
        BY <1>3, <2>3
      <4> QED BY <4>1, <4>2
    <3>2. HeldFrames' = 0 + (a * Channels - 0) + b * Channels
      BY <1>1, <1>3, <3>1 DEF HeldFrames, SamplesOf
    <3>3. (a + b) * Channels = a * Channels + b * Channels /\ b * Channels \in Int
      <4> HIDE DEF a, b
      <4> QED BY <2>1, <3>1, Samples
    <3> QED BY <2>1, <2>3, <3>2, <3>3
  <2> QED BY <1>4, <2>2, <2>3
<1>6. HeldFrames' \div Channels = unread
  <2>1. unread * Channels + 0 = unread * Channels /\ 0 \in 0 .. Channels - 1
    BY <1>2, RingAssumption
  <2> QED BY <1>2, <1>5, <2>1, FramesOfSamples
<1>7. limitBar = -1 /\ limitBar' = Len(queueBar)
  <2>1. Len(queueBar) = unread
    BY QueueIs DEF QueueFacts
  <2> QED BY <1>1, <1>6, <2>1 DEF limitBar
<1> QED BY <1>1, <1>7 DEF Fifo!Open, incomingBar, queueBar, FrameAt, takenBar, outBar

\* A sample read is the next one of the queue.
LEMMA FifoYield ==
  ASSUME CaptureInv, StreamInv, ~overrun,
         open, UNCHANGED <<hw, lag, appl, ring, open, unread, overrun>>,
         HeldFrames' = HeldFrames, read_samples' = read_samples + 1,
         read_samples' <= HeldFrames,
         out' = ring[SlotOf(appl + read_samples \div Channels, read_samples % Channels)]
  PROVE  Fifo!Yield
<1>1. /\ read_samples \in Nat /\ unread \in Nat /\ appl \in Nat
  BY StreamNumbers
<1>2. PICK n \in 0 .. BufSize : /\ HeldFrames = n * Channels /\ n <= unread
                               /\ HeldFrames \div Channels = n
  <2>1. PICK b \in 0 .. BufSize : IterAt(b)
    BY DEF StreamInv, IterPlaced
  <2> DEFINE m == b + samples.frames + (IF next_p = <<>> THEN 0 ELSE next_p[1].frames)
  <2>2. /\ m \in Nat /\ HeldFrames = m * Channels /\ HeldFrames \div Channels = m
        /\ m <= unread /\ m <= BufSize
    BY <2>1, HeldAreFrames
  <2> HIDE DEF m
  <2> QED BY <2>2, RingAssumption
<1>3. limitBar = n /\ limitBar' = n /\ takenBar = read_samples
      /\ takenBar' = read_samples + 1 /\ outBar' = out'
  BY <1>2 DEF limitBar, takenBar, outBar
<1>4. read_samples < n * Channels
  <2>1. HeldFrames \in Nat
    BY HeldParts
  <2> DEFINE x == n * Channels
  <2>2. x = HeldFrames
    BY <1>2
  <2> HIDE DEF x
  <2>3. read_samples < x
    BY <1>1, <2>1, <2>2
  <2> QED BY <2>3 DEF x
<1> DEFINE t == read_samples \div Channels
           c == read_samples % Channels
<1>5. t \in Nat /\ t < n /\ c \in 0 .. Channels - 1
  BY <1>1, <1>4, FrameOfSample, SamplesSplit
<1> HIDE DEF t, c
<1>6. queueBar[t + 1] = FrameAt(appl + t)
  <2>1. t + 1 \in 1 .. unread /\ appl + (t + 1) - 1 = appl + t
    BY <1>1, <1>2, <1>5
  <2>2. QueueFacts
    BY QueueIs
  <2> QED BY <2>1, <2>2 DEF QueueFacts
<1>7. FrameAt(appl + t)[c + 1] = ring[SlotOf(appl + t, c)]
  <2>1. c + 1 \in 1 .. Channels /\ (c + 1) - 1 = c
    BY <1>5, RingAssumption
  <2> QED BY <2>1 DEF FrameAt
<1>8. outBar' = queueBar[t + 1][c + 1]
  BY <1>3, <1>6, <1>7 DEF t, c
<1>9. incomingBar' = incomingBar /\ queueBar' = queueBar
  BY DEF incomingBar, queueBar, FrameAt
<1> QED BY <1>3, <1>4, <1>8, <1>9 DEF Fifo!Yield, t, c

LEMMA FifoNextInRegion ==
  ASSUME CaptureInv, StreamInv, ~overrun, NextInRegion
  PROVE  Fifo!Yield
<1>1. /\ open /\ p_offs < SamplesOf(samples) /\ out' \in MemoryAt(samples.at + p_offs)
      /\ read_samples' = read_samples + 1
      /\ UNCHANGED <<hw, lag, appl, ring, open, unread, overrun>>
  BY DEF NextInRegion
<1>2. PICK b \in 0 .. BufSize : IterAt(b)
  BY DEF StreamInv, IterPlaced
<1> DEFINE t == read_samples \div Channels
           c == read_samples % Channels
<1>3. /\ t \in Nat /\ c \in 0 .. Channels - 1
      /\ samples.at + p_offs = SlotOf(appl + t, c)
  BY <1>1, <1>2, NextSlot
<1> HIDE DEF t, c
<1>4. SlotOf(appl + t, c) \in RingIndex
  <2>1. appl + t \in Nat
    BY <1>3, StreamNumbers
  <2> QED BY <1>3, <2>1, SlotInRing
<1>5. out' = ring[SlotOf(appl + t, c)]
  BY <1>1, <1>3, <1>4 DEF MemoryAt
<1> QED BY <1>1, <1>5, NextInRegionHeld, FifoYield DEF t, c

LEMMA FifoNextRegion ==
  ASSUME CaptureInv, StreamInv, ~overrun, NextRegion
  PROVE  Fifo!Yield
<1>1. /\ open /\ out' \in MemoryAt(next_p[1].at)
      /\ read_samples' = read_samples + 1
      /\ UNCHANGED <<hw, lag, appl, ring, open, unread, overrun>>
  BY DEF NextRegion
<1>2. PICK n \in 0 .. BufSize :
        read_samples = n * Channels /\ BeginsAt(next_p[1], appl + n)
  BY NextRegionPlace
<1>3. n \in Nat /\ 0 \in 0 .. Channels - 1 /\ appl + n \in Nat
  BY StreamNumbers, RingAssumption
<1>4. read_samples \div Channels = n /\ read_samples % Channels = 0
  <2>1. (n * Channels + 0) \div Channels = n /\ (n * Channels + 0) % Channels = 0
    BY <1>3, FramesOfSamples
  <2>2. n * Channels + 0 = n * Channels
    BY <1>3, RingAssumption
  <2> QED BY <1>2, <2>1, <2>2
<1>5. next_p[1].at = SlotOf(appl + n, 0)
  <2>1. (appl + n) % BufSize \in Int
    BY <1>3, Turns
  <2>2. ((appl + n) % BufSize) * Channels \in Int
    BY <2>1, Samples
  <2> QED BY <1>2, <2>2 DEF BeginsAt, SlotOf
<1>6. out' = ring[SlotOf(appl + n, 0)]
  <2>1. SlotOf(appl + n, 0) \in RingIndex
    BY <1>3, SlotInRing
  <2> QED BY <1>1, <1>5, <2>1 DEF MemoryAt
<1> QED BY <1>1, <1>4, <1>6, NextRegionHeld, FifoYield

\* A commit takes the whole frames read off the queue.
LEMMA FifoDrop ==
  ASSUME CaptureInv, CaptureInv', ~overrun,
         CommitFrames(read_samples \div Channels), AboveZero',
         UNCHANGED <<hw, lag, ring, overrun>>
  PROVE  /\ queueBar' = Fifo!Drop(queueBar, read_samples \div Channels)
         /\ incomingBar' = incomingBar
<1>1. PICK v \in Nat : /\ v = read_samples \div Channels /\ v <= unread
                       /\ appl' - appl - v \in {-Boundary, 0} /\ unread' = unread - v
  BY CommitInv
<1>2. appl \in Nat /\ unread \in Nat
  BY StreamNumbers
<1>3. QueueFacts
  BY QueueIs
<1>4. /\ queueBar' \in Seq(Frame) /\ Len(queueBar') = unread'
      /\ \A i \in 1 .. unread' : queueBar'[i] = FrameAt(appl' + i - 1)
  BY QueueNext
<1>5. PICK a \in Nat : a = appl'
  BY DEF CaptureInv, TypeOK
<1> DEFINE rest == SubSeq(queueBar, v + 1, Len(queueBar))
<1>6. queueBar' = rest
  <2>1. queueBar \in Seq(Frame) /\ Len(queueBar) = unread
        /\ \A i \in v + 1 .. Len(queueBar) : queueBar[i] \in Frame
    BY <1>1, <1>3 DEF QueueFacts
  <2>2. /\ rest \in Seq(Frame)
        /\ Len(rest) = IF v + 1 <= unread THEN unread - v ELSE 0
        /\ \A i \in 1 .. unread - v : rest[i] = queueBar[v + i]
    <3>1. v + 1 \in Int /\ Len(queueBar) \in Int
      BY <1>1, <1>2, <2>1
    <3>2. /\ rest \in Seq(Frame)
          /\ Len(rest) = IF v + 1 <= Len(queueBar)
                         THEN Len(queueBar) - (v + 1) + 1 ELSE 0
          /\ \A i \in 1 .. Len(queueBar) - (v + 1) + 1 :
               rest[i] = queueBar[(v + 1) + i - 1]
      BY <2>1, <3>1, SubSeqProperties
    <3> HIDE DEF rest
    <3>3. unread - (v + 1) + 1 = unread - v
      BY <1>1, <1>2
    <3>4. \A i \in 1 .. unread - v : (v + 1) + i - 1 = v + i
      BY <1>1, <1>2
    <3> QED BY <2>1, <3>2, <3>3, <3>4
  <2> HIDE DEF rest
  <2>3. Len(rest) = unread'
    BY <1>1, <1>2, <2>2
  <2>4. ASSUME NEW i \in 1 .. unread' PROVE rest[i] = queueBar'[i]
    <3>1. i \in 1 .. unread - v /\ v + i \in 1 .. unread
      BY <1>1, <1>2, <2>4
    <3>2. FrameAt(appl + (v + i) - 1) = FrameAt(a + i - 1)
      <4>1. appl + (v + i) - 1 \in Int /\ a + i - 1 \in Int /\ Boundary \in Nat
        BY <1>1, <1>2, <3>1, RingAssumption
      <4>2. a - appl - v \in {-Boundary, 0}
        BY <1>1, <1>5
      <4>3. (appl + (v + i) - 1) - (a + i - 1)
              \in {-2 * Boundary, -Boundary, 0, Boundary, 2 * Boundary}
        BY <1>1, <1>2, <3>1, <4>1, <4>2
      <4> QED BY <4>1, <4>3, SameFrame
    <3> QED BY <1>3, <1>4, <1>5, <2>2, <3>1, <3>2 DEF QueueFacts
  <2> QED BY <1>4, <2>2, <2>3, <2>4, SeqEqual
<1>7. incomingBar' = incomingBar
  BY DEF incomingBar, FrameAt
<1> QED BY <1>1, <1>6, <1>7 DEF Fifo!Drop

\* When next returns None all that was there has been read and leaves the queue.
LEMMA FifoDeplete ==
  ASSUME CaptureInv, StreamInv, CaptureInv', ~overrun, Depleted, AboveZero'
  PROVE  Fifo!Deplete
<1>1. /\ open /\ p_offs >= SamplesOf(samples) /\ next_p = <<>>
      /\ p_offs' = 0 /\ CommitFrames(read_samples \div Channels)
      /\ read_samples' = 0 /\ samples' = [samples EXCEPT !.frames = 0] /\ out' = NoItem
      /\ UNCHANGED <<hw, lag, ring, open, next_p, overrun>>
  BY DEF Depleted
<1>2. PICK b \in 0 .. BufSize : IterAt(b)
  BY DEF StreamInv, IterPlaced
<1> DEFINE n == b + samples.frames + (IF next_p = <<>> THEN 0 ELSE next_p[1].frames)
<1>3. /\ n \in Nat /\ HeldFrames \div Channels = n
      /\ HeldFrames = n * Channels
      /\ read_samples = n * Channels - (SamplesOf(samples) - p_offs)
  BY <1>1, <1>2, HeldAreFrames
<1> HIDE DEF n
<1>4. read_samples = n * Channels
  <2>1. /\ SamplesOf(samples) \in Nat /\ p_offs \in Nat
        /\ p_offs = SamplesOf(samples)
    BY <1>1, HeldParts DEF CaptureInv, IterBounded
  <2>2. n * Channels \in Int
    BY <1>3, RingAssumption
  <2> QED BY <1>3, <2>1, <2>2
<1>5. read_samples \div Channels = n /\ limitBar = n /\ takenBar = read_samples
  BY <1>1, <1>3, <1>4 DEF limitBar, takenBar
<1>6. limitBar' = 0 /\ takenBar' = 0 /\ outBar' = NoItem
  <2>1. samples'.frames = 0
    BY <1>1 DEF CaptureInv, TypeOK, Region
  <2>2. SamplesOf(samples)' = 0
    BY <2>1, RingAssumption DEF SamplesOf
  <2>3. HeldFrames' = 0
    BY <1>1, <2>2 DEF HeldFrames
  <2>4. 0 \div Channels = 0
    BY RingAssumption
  <2> QED BY <1>1, <2>3, <2>4 DEF limitBar, takenBar, outBar
<1>7. limitBar # -1
  BY <1>3, <1>5
<1>8. queueBar' = Fifo!Drop(queueBar, n) /\ incomingBar' = incomingBar
  BY <1>1, <1>5, FifoDrop
<1> QED BY <1>1, <1>4, <1>5, <1>6, <1>7, <1>8 DEF Fifo!Deplete

\* A dropped iterator takes the frames it read completely off the queue.
LEMMA FifoClose ==
  ASSUME CaptureInv, StreamInv, CaptureInv', ~overrun, DropIter, AboveZero'
  PROVE  Fifo!Close
<1>1. /\ open /\ ~open' /\ CommitFrames(read_samples \div Channels)
      /\ read_samples' = 0 /\ out' = NoItem
      /\ UNCHANGED <<hw, lag, ring, overrun>>
  BY DEF DropIter
<1>2. limitBar # -1
  <2>1. PICK b \in 0 .. BufSize : IterAt(b)
    BY DEF StreamInv, IterPlaced
  <2> DEFINE n == b + samples.frames + (IF next_p = <<>> THEN 0 ELSE next_p[1].frames)
  <2>2. n \in Nat /\ HeldFrames \div Channels = n
    BY <2>1, HeldAreFrames
  <2> HIDE DEF n
  <2>3. limitBar = n
    BY <1>1, <2>2 DEF limitBar
  <2> QED BY <2>2, <2>3
<1>3. /\ limitBar' = -1 /\ takenBar' = 0 /\ outBar' = NoItem
      /\ takenBar = read_samples
  BY <1>1 DEF limitBar, takenBar, outBar
<1>4. /\ queueBar' = Fifo!Drop(queueBar, read_samples \div Channels)
      /\ incomingBar' = incomingBar
  BY <1>1, FifoDrop
<1> QED BY <1>1, <1>2, <1>3, <1>4 DEF Fifo!Close

\* Where the card records next, in positions that go on past the boundary.
nextIn == appl + unread + lag

LEMMA NextInSlot ==
  ASSUME CaptureInv
  PROVE  nextIn \in Nat /\ (hw + lag) % BufSize = nextIn % BufSize
<1>1. /\ appl \in Nat /\ unread \in Nat /\ lag \in Nat /\ hw \in Nat
      /\ hw - appl - unread = -Boundary \/ hw - appl - unread = 0
      /\ Boundary \in Nat
  BY StreamNumbers, RingAssumption
<1>2. PICK w \in Int : w = hw + lag
  BY <1>1
<1>3. nextIn \in Nat /\ (w = nextIn \/ nextIn = w + Boundary)
  BY <1>1, <1>2 DEF nextIn
<1>4. (w + Boundary) % BufSize = w % BufSize
  BY BoundaryTurns
<1> QED BY <1>2, <1>3, <1>4

\* The card changes the samples of the frame it records and no others.
LEMMA RecordSlot ==
  ASSUME CaptureInv, NEW f \in [1 .. Channels -> Sample], HwRecord(f),
         NEW p \in Nat, p - nextIn < BufSize, nextIn - p < BufSize,
         NEW c \in 0 .. Channels - 1
  PROVE  ring'[SlotOf(p, c)] = IF p = nextIn THEN f[c + 1] ELSE ring[SlotOf(p, c)]
<1>1. SlotOf(p, c) \in RingIndex
  BY SlotInRing
<1>2. /\ SlotOf(p, c) \div Channels = p % BufSize
      /\ SlotOf(p, c) % Channels = c
  <2>1. p % BufSize \in Nat
    BY Turns
  <2> QED BY <2>1, FramesOfSamples DEF SlotOf
<1>3. ring'[SlotOf(p, c)] = IF p % BufSize = (hw + lag) % BufSize
                            THEN f[c + 1] ELSE ring[SlotOf(p, c)]
  BY <1>1, <1>2 DEF HwRecord
<1>4. p % BufSize = (hw + lag) % BufSize <=> p = nextIn
  BY NextInSlot, FramesApart
<1> QED BY <1>3, <1>4

\* A frame recorded comes in, and no frame that waits is touched.
LEMMA FifoRecord ==
  ASSUME CaptureInv, StreamInv, CaptureInv', ~overrun, ~overrun',
         NEW f \in [1 .. Channels -> Sample], HwRecord(f)
  PROVE  Fifo!Record(f)
<1>1. /\ lag' = lag + 1 /\ ~(unread + lag >= BufSize)
      /\ UNCHANGED <<hw, appl, open, samples, p_offs, read_samples, next_p, out, unread>>
  <2>1. overrun' = (overrun \/ unread + lag >= BufSize)
    BY DEF HwRecord
  <2>2. ~(unread + lag >= BufSize)
    BY <2>1, Zenon
  <2> QED BY <2>2 DEF HwRecord, iter
<1>2. /\ appl \in Nat /\ unread \in Nat /\ lag \in Nat
      /\ unread + lag < BufSize /\ BufSize \in Nat
      /\ nextIn = appl + unread + lag
  <2>1. appl \in Nat /\ unread \in Nat /\ lag \in Nat /\ BufSize \in Nat
    BY StreamNumbers, RingAssumption
  <2> QED BY <1>1, <2>1 DEF nextIn
<1>3. QueueFacts /\ QueueFacts'
  <2>1. QueueFacts
    BY QueueIs
  <2>2. QueueFacts'
    BY QueueIs, PTL
  <2> QED BY <2>1, <2>2
<1>4. ASSUME NEW p \in Nat, appl <= p, p < nextIn
      PROVE  FrameAt(p)' = FrameAt(p)
  <2>1. p - nextIn < BufSize /\ nextIn - p < BufSize /\ p # nextIn
    BY <1>2, <1>4
  <2>2. \A c \in 0 .. Channels - 1 : ring'[SlotOf(p, c)] = ring[SlotOf(p, c)]
    BY <2>1, RecordSlot
  <2>3. \A c \in 1 .. Channels : c - 1 \in 0 .. Channels - 1
    BY RingAssumption
  <2> QED BY <2>2, <2>3 DEF FrameAt
<1>5. ASSUME NEW p \in Nat, p = nextIn PROVE FrameAt(p)' = f
  <2>1. p - nextIn < BufSize /\ nextIn - p < BufSize
    BY <1>2, <1>5
  <2>2. \A c \in 0 .. Channels - 1 : ring'[SlotOf(p, c)] = f[c + 1]
    BY <1>5, <2>1, RecordSlot
  <2>3. \A c \in 1 .. Channels : c - 1 \in 0 .. Channels - 1 /\ (c - 1) + 1 = c
    BY RingAssumption
  <2>4. \A c \in 1 .. Channels : ring'[SlotOf(p, c - 1)] = f[c]
    BY <2>2, <2>3
  <2> QED BY <2>4 DEF FrameAt
<1>6. queueBar' = queueBar
  <2>1. /\ queueBar \in Seq(Frame) /\ Len(queueBar) = unread
        /\ \A i \in 1 .. unread : queueBar[i] = FrameAt(appl + i - 1)
    BY <1>3 DEF QueueFacts
  <2>2. /\ queueBar' \in Seq(Frame) /\ Len(queueBar') = unread
        /\ \A i \in 1 .. unread :
             queueBar'[i] = [c \in 1 .. Channels |-> ring'[SlotOf(appl + i - 1, c - 1)]]
    BY <1>1, <1>3 DEF QueueFacts, FrameAt
  <2>3. ASSUME NEW i \in 1 .. unread PROVE queueBar'[i] = queueBar[i]
    <3>1. PICK p \in Nat : p = appl + i - 1 /\ appl <= p /\ p < nextIn
      BY <1>2
    <3>2. FrameAt(p)' = FrameAt(p)
      BY <1>4, <3>1
    <3>3. queueBar'[i] = [c \in 1 .. Channels |-> ring'[SlotOf(p, c - 1)]]
      BY <2>2, <3>1
    <3>4. queueBar[i] = FrameAt(p)
      BY <2>1, <3>1
    <3> QED BY <3>2, <3>3, <3>4 DEF FrameAt
  <2>4. \A i \in 1 .. Len(queueBar') : queueBar'[i] = queueBar[i]
    BY <2>2, <2>3
  <2>5. Len(queueBar') = Len(queueBar)
    BY <2>1, <2>2
  <2> QED BY <2>1, <2>2, <2>4, <2>5, SeqEqual
<1>7. incomingBar' = Append(incomingBar, f)
  <2>1. /\ incomingBar \in Seq(Frame) /\ Len(incomingBar) = lag
        /\ \A i \in 1 .. lag : incomingBar[i] = FrameAt(appl + unread + i - 1)
    BY <1>3 DEF QueueFacts
  <2>2. /\ incomingBar' \in Seq(Frame) /\ Len(incomingBar') = lag + 1
        /\ \A i \in 1 .. lag + 1 :
             incomingBar'[i]
               = [c \in 1 .. Channels |-> ring'[SlotOf(appl + unread + i - 1, c - 1)]]
    BY <1>1, <1>3 DEF QueueFacts, FrameAt
  <2> DEFINE more == Append(incomingBar, f)
  <2>3. /\ more \in Seq(Frame) /\ Len(more) = lag + 1
        /\ \A i \in 1 .. lag : more[i] = incomingBar[i]
        /\ more[lag + 1] = f
    BY <1>2, <2>1, AppendProperties DEF Frame
  <2> HIDE DEF more
  <2>4. ASSUME NEW i \in 1 .. lag + 1 PROVE incomingBar'[i] = more[i]
    <3>1. PICK p \in Nat : p = appl + unread + i - 1
      BY <1>2
    <3>2. incomingBar'[i] = [c \in 1 .. Channels |-> ring'[SlotOf(p, c - 1)]]
      BY <2>2, <3>1
    <3>3. CASE i <= lag
      <4>1. appl <= p /\ p < nextIn /\ i \in 1 .. lag
        BY <1>2, <3>1, <3>3
      <4>2. FrameAt(p)' = FrameAt(p)
        BY <1>4, <4>1
      <4>3. incomingBar[i] = FrameAt(p)
        BY <2>1, <3>1, <4>1
      <4> QED BY <2>3, <3>2, <4>1, <4>2, <4>3 DEF FrameAt
    <3>4. CASE ~(i <= lag)
      <4>1. i = lag + 1 /\ p = nextIn
        BY <1>2, <3>1, <3>4
      <4>2. FrameAt(p)' = f
        BY <1>5, <4>1
      <4> QED BY <2>3, <3>2, <4>1, <4>2 DEF FrameAt
    <3> QED BY <3>3, <3>4
  <2>5. incomingBar' = more
    BY <2>2, <2>3, <2>4, SeqEqual
  <2> QED BY <2>5 DEF more
<1>8. /\ limitBar' = limitBar /\ takenBar' = takenBar /\ outBar' = outBar
      /\ overrun' = overrun
  <2>1. ~overrun /\ ~overrun' /\ overrun \in BOOLEAN /\ overrun' \in BOOLEAN
    BY DEF CaptureInv, TypeOK
  <2>2. overrun' = overrun
    BY <2>1, Zenon
  <2>3. HeldFrames' = HeldFrames
    BY <1>1 DEF HeldFrames, SamplesOf
  <2> QED BY <1>1, <2>2, <2>3 DEF limitBar, takenBar, outBar
<1>9. Len(queueBar) + Len(incomingBar) < BufSize
  BY <1>2, <1>3 DEF QueueFacts
<1> QED BY <1>6, <1>7, <1>8, <1>9 DEF Fifo!Record

\* The frame that does not fit overwrites the oldest.
LEMMA FifoOverwrite ==
  ASSUME CaptureInv, StreamInv, ~overrun, overrun',
         NEW f \in [1 .. Channels -> Sample], HwRecord(f)
  PROVE  Fifo!Overwrite
<1>1. unread + lag >= BufSize
  <2>1. overrun' = (overrun \/ unread + lag >= BufSize)
    BY DEF HwRecord
  <2> QED BY <2>1, Zenon
<1>2. Len(queueBar) + Len(incomingBar) = BufSize
  <2>1. unread \in Nat /\ lag \in Nat /\ BufSize \in Nat
    BY StreamNumbers, RingAssumption
  <2>2. unread + lag <= BufSize
    BY DEF StreamInv, Recorded
  <2>3. Len(queueBar) = unread /\ Len(incomingBar) = lag
    BY QueueIs DEF QueueFacts
  <2> QED BY <1>1, <2>1, <2>2, <2>3
<1>3. /\ incomingBar' = <<>> /\ queueBar' = <<>> /\ limitBar' = -1 /\ takenBar' = 0
      /\ outBar' = NoItem
  BY DEF incomingBar, queueBar, limitBar, takenBar, outBar
<1>4. overrun' = TRUE
  <2>1. overrun' = (overrun \/ unread + lag >= BufSize)
    BY DEF HwRecord
  <2> QED BY <1>1, <2>1, Zenon
<1> QED BY <1>2, <1>3, <1>4 DEF Fifo!Overwrite, Fifo!Fresh

\* A report hands over what came in.
LEMMA FifoReport ==
  ASSUME CaptureInv, CaptureInv', ~overrun, HwReport
  PROVE  Fifo!Report
<1>1. /\ unread' = unread + lag /\ lag' = 0
      /\ UNCHANGED <<appl, ring, open, samples, p_offs, read_samples, next_p,
                     out, overrun>>
  BY DEF HwReport, iter
<1>2. /\ appl \in Nat /\ unread \in Nat /\ lag \in Nat
  BY StreamNumbers
<1>3. QueueFacts
  BY QueueIs
<1>4. /\ queueBar' \in Seq(Frame) /\ Len(queueBar') = unread'
      /\ \A i \in 1 .. unread' : queueBar'[i] = FrameAt(appl' + i - 1)
  BY <1>1, QueueNext
<1> DEFINE all == queueBar \o incomingBar
<1>5. /\ all \in Seq(Frame) /\ Len(all) = unread + lag
      /\ \A i \in 1 .. unread + lag :
           all[i] = IF i <= unread THEN queueBar[i] ELSE incomingBar[i - unread]
  BY <1>3, ConcatProperties DEF QueueFacts
<1> HIDE DEF all
<1>6. ASSUME NEW i \in 1 .. unread + lag PROVE all[i] = FrameAt(appl + i - 1)
  <2>1. CASE i <= unread
    <3>1. i \in 1 .. unread
      BY <1>2, <2>1
    <3> QED BY <1>3, <1>5, <2>1, <3>1 DEF QueueFacts
  <2>2. CASE ~(i <= unread)
    <3>1. i - unread \in 1 .. lag /\ appl + unread + (i - unread) - 1 = appl + i - 1
      BY <1>2, <2>2
    <3>2. incomingBar[i - unread] = FrameAt(appl + unread + (i - unread) - 1)
      BY <1>3, <3>1 DEF QueueFacts
    <3> QED BY <1>5, <2>2, <3>1, <3>2
  <2> QED BY <2>1, <2>2
<1>7. queueBar' = all
  <2>1. \A i \in 1 .. unread + lag : queueBar'[i] = all[i]
    BY <1>1, <1>4, <1>6
  <2> QED BY <1>1, <1>4, <1>5, <2>1, SeqEqual
<1>8. incomingBar' = <<>>
  BY <1>1 DEF incomingBar
<1>9. limitBar' = limitBar /\ takenBar' = takenBar /\ outBar' = outBar
  <2>1. HeldFrames' = HeldFrames
    BY <1>1 DEF HeldFrames, SamplesOf
  <2> QED BY <1>1, <2>1 DEF limitBar, takenBar, outBar
<1> QED BY <1>1, <1>7, <1>8, <1>9 DEF Fifo!Report, all

\* No iterator, nothing returned.
Quiet == ~open => out = NoItem

LEMMA NextQuiet == Quiet /\ [Next]_vars => Quiet'
BY DEF Quiet, Next, vars, Iter, NextInRegion, NextRegion, Depleted, DropIter, Start,
       Prepare, HwRecord, HwReport, iter

\* prepare empties the FIFO.
LEMMA FifoReset == CaptureInv /\ Quiet /\ Prepare => Fifo!Reset
<1> SUFFICES ASSUME CaptureInv, Quiet, Prepare PROVE Fifo!Reset
  OBVIOUS
<1>1. /\ ~open /\ ~open' /\ lag' = 0 /\ unread' = 0 /\ overrun' = FALSE
      /\ read_samples' = 0 /\ out' = NoItem
  BY DEF Prepare, iter, Quiet, CaptureInv, IterBounded
<1>2. incomingBar' = <<>> /\ queueBar' = <<>>
  BY <1>1 DEF incomingBar, queueBar
<1>3. limitBar = -1 /\ limitBar' = -1 /\ takenBar' = 0 /\ outBar' = NoItem
  BY <1>1 DEF limitBar, takenBar, outBar
<1> QED BY <1>1, <1>2, <1>3 DEF Fifo!Reset, Fifo!Fresh

\* While appl_ptr is not below zero, every step is one of the FIFO or changes
\* nothing of it.
FifoInv == CaptureInv /\ StreamInv /\ Quiet

LEMMA FifoNext ==
  FifoInv /\ FifoInv' /\ [Next]_vars /\ AboveZero' => [Fifo!Next]_(Fifo!vars)
<1> SUFFICES ASSUME CaptureInv, StreamInv, Quiet, CaptureInv', [Next]_vars, AboveZero'
             PROVE  [Fifo!Next]_(Fifo!vars)
  BY DEF FifoInv
<1>1. CASE Prepare
  BY <1>1, FifoReset DEF Fifo!Next
<1>2. CASE overrun /\ ~Prepare
  <2>1. overrun' \/ UNCHANGED vars
    BY <1>2, Zenon DEF Next, Iter, NextInRegion, NextRegion, Depleted, DropIter, Start,
       HwRecord, HwReport
  <2>2. overrun'
    BY <1>2, <2>1 DEF vars
  <2> QED BY <1>2, <2>2, NothingPromised
<1>3. CASE ~overrun
  <2>1. CASE Iter
    BY <1>3, <2>1, FifoOpen DEF Fifo!Next
  <2>2. CASE NextInRegion
    BY <1>3, <2>2, FifoNextInRegion DEF Fifo!Next
  <2>3. CASE NextRegion
    BY <1>3, <2>3, FifoNextRegion DEF Fifo!Next
  <2>4. CASE Depleted
    BY <1>3, <2>4, FifoDeplete DEF Fifo!Next
  <2>5. CASE DropIter
    BY <1>3, <2>5, FifoClose DEF Fifo!Next
  <2>6. CASE Start
    BY <2>6 DEF Start, iter, Fifo!vars, incomingBar, queueBar, FrameAt, limitBar,
                takenBar, outBar, HeldFrames, SamplesOf
  <2>7. ASSUME NEW f \in [1 .. Channels -> Sample], HwRecord(f) PROVE Fifo!Next
    <3>1. CASE overrun'
      BY <1>3, <2>7, <3>1, FifoOverwrite DEF Fifo!Next
    <3>2. CASE ~overrun'
      <4>1. Fifo!Record(f) /\ f \in Fifo!Frame
        BY <1>3, <2>7, <3>2, FifoRecord DEF Fifo!Frame
      <4> QED BY <4>1 DEF Fifo!Next
    <3> QED BY <3>1, <3>2
  <2>8. CASE HwReport
    BY <1>3, <2>8, FifoReport DEF Fifo!Next
  <2>9. CASE UNCHANGED vars
    BY <2>9 DEF vars, Fifo!vars, incomingBar, queueBar, FrameAt, limitBar,
                takenBar, outBar, HeldFrames, SamplesOf
  <2> QED BY <1>1, <2>1, <2>2, <2>3, <2>4, <2>5, <2>6, <2>7, <2>8, <2>9 DEF Next
<1> QED BY <1>1, <1>2, <1>3

-----------------------------------------------------------------------------
(* Theorems                                                                *)

\* As long as no commit leaves appl_ptr below zero, the pages, the iterator's
\* fields and the history stay in range, however often the counters wrap.
THEOREM CaptureTypes == Spec /\ [](applPtr >= 0) => []TypeOK
<1>1. CaptureInv => TypeOK
  BY DEF CaptureInv
<1> QED BY InitInv, NextInv, <1>1, PTL DEF Spec, AboveZero

\* As long as no commit leaves appl_ptr below zero, avail() is what was recorded
\* and not committed, however often the counters wrap, hw_ptr is reported and
\* iterators are depleted or dropped.
THEOREM CaptureAvailExact == Spec /\ [](applPtr >= 0) => []AvailExact
<1> QED BY InitInv, NextInv, InvAvail, PTL DEF Spec, AboveZero

\* As long as no commit leaves appl_ptr below zero, no iterator holds a sample
\* that was not recorded.
THEOREM IterHoldsRecorded == Spec /\ [](applPtr >= 0) => []IterWithinUnread
<1>1. CaptureInv => IterWithinUnread
  BY DEF CaptureInv, IterBounded, IterWithinUnread
<1> QED BY InitInv, NextInv, <1>1, PTL DEF Spec, AboveZero

\* As long as no commit leaves appl_ptr below zero, the iterators and the card
\* are the capture FIFO, however often the counters wrap: frames are read in the
\* order the card recorded them, each exactly once, whichever iterators were
\* depleted or dropped half way; a frame of which only some samples were read is
\* read again from its start.
THEOREM CaptureIsFifo == Spec /\ [](applPtr >= 0) => ImplementsFifo
<1>1. Init => FifoInv
  BY InitInv, InitStream DEF FifoInv, Init, Quiet
<1>2. FifoInv /\ [Next]_vars /\ AboveZero' => FifoInv'
  BY NextInv, NextStream, NextQuiet DEF FifoInv
<1> QED BY FifoInit, FifoNext, <1>1, <1>2, PTL
        DEF Spec, ImplementsFifo, Fifo!Spec, AboveZero

\* appl_ptr stays within a buffer of MaxAppl, and no iterator that holds
\* samples is above.
Early == appl <= MaxAppl \/ (appl <= MaxAppl + BufSize /\ HeldFrames = 0)

LEMMA CommitEarly ==
  ASSUME MaxAppl + 2 * BufSize < Boundary, CaptureInv, Early,
         CommitFrames(read_samples \div Channels)
  PROVE  applPtr' >= 0 /\ appl' <= MaxAppl + BufSize
<1>1. PICK v \in Nat : v = read_samples \div Channels /\ v <= BufSize
                       /\ (HeldFrames = 0 => v = 0)
  <2>1. read_samples \in Nat /\ read_samples <= BufSize * Channels
    BY RingAssumption DEF CaptureInv, TypeOK
  <2>2. BufSize \in Int /\ 0 \div Channels = 0
    BY RingAssumption
  <2>3. HeldFrames = 0 => read_samples = 0
    BY HeldParts
  <2> QED BY <2>1, <2>2, <2>3, WholeFramesBound
<1>2. PICK a \in 0 .. Boundary - 1 : a = appl /\ a = applPtr
  BY ApplPtrValue DEF CaptureInv, CountersAgree
<1>3. MaxAppl \in Nat /\ BufSize \in Nat /\ Boundary \in Nat
  BY RingAssumption, CaptureAssumption
<1>4. a + v <= MaxAppl + BufSize /\ a + 2 * v < Boundary
  BY <1>1, <1>2, <1>3 DEF Early
<1>5. CommitTo(a, v) = a + v /\ a + v \in 0 .. Boundary - 1
  BY <1>1, <1>3, <1>4 DEF CommitTo
<1>6. appl' = AsUnsigned(a + v)
  BY <1>1, <1>2, <1>5 DEF CommitFrames
<1>7. a + v \in -BufSize .. Boundary - 1 /\ AsUnsigned(a + v) = a + v
  BY <1>3, <1>5 DEF AsUnsigned
<1>8. applPtr' = a + v
  BY <1>6, <1>7, CastRoundTrip DEF applPtr
<1> QED BY <1>4, <1>5, <1>6, <1>7, <1>8

LEMMA NextEarly ==
  ASSUME MaxAppl + 2 * BufSize < Boundary, CaptureInv, Early, [Next]_vars
  PROVE  AboveZero' /\ Early'
<1>1. MaxAppl \in Nat /\ BufSize \in Nat /\ applPtr = appl /\ appl \in Nat
  BY RingAssumption, CaptureAssumption, ApplPtrValue DEF CaptureInv, TypeOK
<1>2. CASE Depleted \/ DropIter
  <2>1. CommitFrames(read_samples \div Channels)
    BY <1>2 DEF Depleted, DropIter
  <2>2. samples'.frames = 0 /\ p_offs' = 0 /\ read_samples' = 0 /\ next_p' = <<>>
    BY <1>2 DEF Depleted, DropIter, NoRegion, CaptureInv, TypeOK, Region
  <2>3. HeldFrames' = 0
    <3>1. SamplesOf(samples)' = 0
      BY <2>2, RingAssumption DEF SamplesOf
    <3> QED BY <2>2, <3>1 DEF HeldFrames
  <2> QED BY <2>1, <2>3, CommitEarly DEF Early, AboveZero
<1>3. CASE Prepare
  <2>1. appl' = 0
    BY <1>3 DEF Prepare
  <2> QED BY <1>1, <2>1, RingAssumption DEF Early, AboveZero, applPtr, AsFrames
<1>4. CASE Iter
  <2>1. appl <= MaxAppl /\ appl' = appl
    BY <1>1, <1>4 DEF Iter
  <2> QED BY <1>1, <2>1 DEF Early, AboveZero, applPtr
<1>5. CASE NextInRegion \/ NextRegion
  <2>1. UNCHANGED appl /\ read_samples' = read_samples + 1
    BY <1>5 DEF NextInRegion, NextRegion
  <2>2. read_samples' <= HeldFrames
    BY <1>5, NextInRegionHeld, NextRegionHeld
  <2>3. HeldFrames # 0
    BY <2>1, <2>2, HeldParts
  <2> QED BY <1>1, <2>1, <2>3 DEF Early, AboveZero, applPtr
<1>6. CASE UNCHANGED <<appl, samples, p_offs, read_samples, next_p>>
  <2>1. HeldFrames' = HeldFrames
    BY <1>6 DEF HeldFrames, SamplesOf
  <2> QED BY <1>1, <1>6, <2>1 DEF Early, AboveZero, applPtr
<1>7. \/ Depleted \/ DropIter \/ Prepare \/ Iter \/ NextInRegion \/ NextRegion
      \/ UNCHANGED <<appl, samples, p_offs, read_samples, next_p>>
  BY DEF Next, Start, HwRecord, HwReport, iter, vars
<1> QED BY <1>2, <1>3, <1>4, <1>5, <1>6, <1>7

\* A stream never comes to a commit that leaves appl_ptr below zero when no
\* iterator is made in the last two buffers before the boundary.
THEOREM AboveZeroBeforeBoundary ==
  ASSUME MaxAppl + 2 * BufSize < Boundary PROVE Spec => [](applPtr >= 0)
<1>1. Init => CaptureInv /\ Early /\ AboveZero
  <2>1. Init => Early /\ AboveZero
    BY RingAssumption, CaptureAssumption DEF Init, Early, AboveZero, applPtr, AsFrames
  <2> QED BY <2>1, InitInv
<1>2. CaptureInv /\ Early /\ [Next]_vars => CaptureInv' /\ Early' /\ AboveZero'
  BY NextInv, NextEarly
<1> QED BY <1>1, <1>2, PTL DEF Spec, AboveZero
=============================================================================
