---------------------------- MODULE MmapRingProofs ----------------------------
(***************************************************************************)
(* Facts about the pointer arithmetic that playback and capture share, for *)
(* every size of ring, frame and word.                                     *)
(***************************************************************************)
EXTENDS MmapRing, TLAPS

-----------------------------------------------------------------------------
(* Counters                                                                *)

\* Storing a counter in the control page and reading it back (set_appl_ptr,
\* appl_ptr) is the identity on every value commit produces.
LEMMA CastRoundTrip ==
  ASSUME NEW f \in -BufSize .. Boundary - 1
  PROVE  /\ AsUnsigned(f) \in 0 .. 2 * HalfWord - 1
         /\ AsFrames(AsUnsigned(f)) = f
BY RingAssumption DEF AsUnsigned, AsFrames

\* Playback::avail undoes the wrap of either counter, of both, and of an
\* appl_ptr below zero.
LEMMA AvailPlaybackValue ==
  ASSUME NEW h \in 0 .. Boundary - 1,
         NEW a \in -BufSize .. Boundary - 1,
         NEW p \in -BufSize .. BufSize,
         a - h - p \in {-Boundary, 0, Boundary}
  PROVE  AvailPlayback(h, a) = BufSize - p
<1> DEFINE r0 == h + BufSize - a
<1>1. /\ BufSize \in Nat /\ BufSize > 0 /\ Boundary \in Nat /\ HalfWord \in Nat
      /\ 4 * BufSize <= Boundary /\ Boundary + 2 * BufSize <= HalfWord
  BY RingAssumption
<1>2. /\ WrappingSub(WrappingAdd(h, BufSize), a) = r0
      /\ r0 \in Int
      /\ r0 - (BufSize - p) \in {-Boundary, 0, Boundary}
  BY <1>1 DEF WrappingAdd, WrappingSub, Wrapped
<1> HIDE DEF r0
<1>3. AvailPlayback(h, a) =
        LET r == IF r0 < 0 THEN WrappingAdd(r0, Boundary) ELSE r0
        IN  IF AsUnsigned(r) >= AsUnsigned(Boundary)
            THEN WrappingSub(r, Boundary) ELSE r
  BY <1>2 DEF AvailPlayback
<1>4. CASE r0 < 0
  <2>1. r0 = BufSize - p - Boundary
    BY <1>1, <1>2, <1>4
  <2>2. WrappingAdd(r0, Boundary) = BufSize - p
    BY <1>1, <2>1 DEF WrappingAdd, Wrapped
  <2>3. AsUnsigned(BufSize - p) < AsUnsigned(Boundary)
    BY <1>1 DEF AsUnsigned
  <2> QED BY <1>1, <1>3, <1>4, <2>2, <2>3 DEF AsUnsigned
<1>5. CASE r0 >= Boundary
  <2>1. r0 = BufSize - p + Boundary
    BY <1>1, <1>2, <1>5
  <2>2. WrappingSub(r0, Boundary) = BufSize - p
    BY <1>1, <2>1 DEF WrappingSub, Wrapped
  <2> QED BY <1>1, <1>2, <1>3, <1>5, <2>2 DEF AsUnsigned
<1>6. CASE r0 >= 0 /\ r0 < Boundary
  <2>1. r0 = BufSize - p
    BY <1>1, <1>2, <1>6
  <2> QED BY <1>1, <1>2, <1>3, <1>6, <2>1 DEF AsUnsigned
<1> QED BY <1>1, <1>2, <1>4, <1>5, <1>6

\* Capture::avail undoes the turn hw_ptr is ahead.
LEMMA AvailCaptureValue ==
  ASSUME NEW h \in 0 .. Boundary - 1, NEW a \in 0 .. Boundary - 1,
         NEW u \in 0 .. 2 * BufSize, h - a - u \in {-Boundary, 0}
  PROVE  AvailCapture(h, a) = u
BY RingAssumption DEF AvailCapture, WrappingSub, WrappingAdd, Wrapped

\* commit keeps appl_ptr between minus a buffer and the boundary, and moves it
\* by the frames committed, less a turn of the boundary or not.
LEMMA CommitToValue ==
  ASSUME NEW a \in -BufSize .. Boundary - 1,
         NEW v \in 0 .. BufSize
  PROVE  /\ CommitTo(a, v) \in -BufSize .. Boundary - 1
         /\ CommitTo(a, v) - a - v \in {-Boundary, 0}
BY RingAssumption DEF CommitTo

\* When that is below zero: the boundary is within the frames committed and as
\* many again, for which commit tests, and not within the frames committed.
LEMMA CommitBelowZero ==
  ASSUME NEW a \in 0 .. Boundary - 1, NEW v \in 0 .. BufSize
  PROVE  CommitTo(a, v) < 0 <=> a + v < Boundary /\ Boundary <= a + 2 * v
BY RingAssumption DEF CommitTo

\* Rust's remainder is smaller than the divisor on either side of zero.
LEMMA RustRemRange ==
  ASSUME NEW a \in Int, NEW n \in Nat \ {0}
  PROVE  RustRem(a, n) \in Int /\ -n < RustRem(a, n) /\ RustRem(a, n) < n
BY DEF RustRem

-----------------------------------------------------------------------------
(* Frames and samples                                                      *)

\* More frames have more samples, and the samples of a sum are summed.
LEMMA Samples ==
  ASSUME NEW m \in Int, NEW n \in Int
  PROVE  /\ m * Channels \in Int
         /\ m <= n => m * Channels <= n * Channels
         /\ (m + n) * Channels = m * Channels + n * Channels
         /\ m >= 0 => m * Channels >= 0
         /\ 0 * Channels = 0
BY RingAssumption

\* A number of samples is whole frames and less than one frame more.
LEMMA SamplesSplit ==
  ASSUME NEW s \in Nat
  PROVE  /\ s \div Channels \in Nat /\ s % Channels \in 0 .. Channels - 1
         /\ s = (s \div Channels) * Channels + (s % Channels)
BY RingAssumption

\* The frames in s samples are no more than those the samples fit in.
LEMMA WholeFramesBound ==
  ASSUME NEW s \in Nat, NEW f \in Int, s <= f * Channels
  PROVE  s \div Channels \in Nat /\ s \div Channels <= f
<1> DEFINE q == s \div Channels
<1>1. q \in Nat /\ q * Channels <= s
  BY RingAssumption
<1>2. ASSUME q >= f + 1 PROVE FALSE
  <2>1. q * Channels >= f * Channels + Channels
    BY <1>1, <1>2, RingAssumption
  <2> QED BY <1>1, <2>1, RingAssumption
<1> QED BY <1>1, <1>2

\* A sample among those of some frames is in one of them.
LEMMA FrameOfSample ==
  ASSUME NEW s \in Nat, NEW f \in Int, s < f * Channels
  PROVE  s \div Channels \in Nat /\ s \div Channels < f
<1> DEFINE q == s \div Channels
<1>1. q \in Nat /\ q * Channels <= s
  BY RingAssumption
<1>2. ASSUME q >= f PROVE FALSE
  <2> HIDE DEF q
  <2>1. f * Channels <= q * Channels /\ f * Channels \in Int /\ q * Channels \in Int
    BY <1>1, <1>2, Samples
  <2> QED BY <1>1, <2>1
<1> QED BY <1>1, <1>2

\* A frame and a sample in it are told by the index of the sample.
LEMMA FrameAndSample ==
  ASSUME NEW x \in Int, NEW y \in Int,
         NEW c \in 0 .. Channels - 1, NEW d \in 0 .. Channels - 1,
         x * Channels + c = y * Channels + d
  PROVE  x = y /\ c = d
<1>1. \A m, n \in Int : m < n => m * Channels + Channels <= n * Channels
  <2> SUFFICES ASSUME NEW m \in Int, NEW n \in Int, m < n
               PROVE  m * Channels + Channels <= n * Channels
    OBVIOUS
  <2>1. (m + 1) * Channels <= n * Channels
    BY Samples
  <2>2. (m + 1) * Channels = m * Channels + Channels
    BY RingAssumption
  <2> QED BY <2>1, <2>2
<1>2. x * Channels \in Int /\ y * Channels \in Int /\ Channels \in Int
  BY RingAssumption
<1> DEFINE xs == x * Channels
           ys == y * Channels
<1>3. xs \in Int /\ ys \in Int /\ xs + c = ys + d
  BY <1>2
<1>4. (x < y => xs + Channels <= ys) /\ (y < x => ys + Channels <= xs)
  BY <1>1
<1>5. x = y => xs = ys
  OBVIOUS
<1> HIDE DEF xs, ys
<1> QED BY <1>2, <1>3, <1>4, <1>5

\* The samples of whole frames are whole frames.
LEMMA FramesOfSamples ==
  ASSUME NEW f \in Nat, NEW c \in 0 .. Channels - 1
  PROVE  (f * Channels + c) \div Channels = f /\ (f * Channels + c) % Channels = c
<1> DEFINE s == f * Channels + c
<1>1. s \in Nat
  BY RingAssumption
<1> HIDE DEF s
<1>2. s = (s \div Channels) * Channels + (s % Channels)
      /\ s \div Channels \in Nat /\ s % Channels \in 0 .. Channels - 1
  BY <1>1, SamplesSplit
<1>3. f * Channels + c = (s \div Channels) * Channels + (s % Channels)
  BY <1>2 DEF s
<1>4. f = s \div Channels /\ c = s % Channels
  BY <1>2, <1>3, FrameAndSample
<1> QED BY <1>4 DEF s

\* Whole frames before some samples add those frames.
LEMMA FramesAdd ==
  ASSUME NEW f \in Nat, NEW s \in Nat
  PROVE  /\ (f * Channels + s) \div Channels = f + s \div Channels
         /\ (f * Channels + s) % Channels = s % Channels
<1> DEFINE q == s \div Channels
           c == s % Channels
<1>1. q \in Nat /\ c \in 0 .. Channels - 1 /\ s = q * Channels + c
  BY SamplesSplit
<1> HIDE DEF q, c
<1>2. f + q \in Nat
  BY <1>1
<1>3. /\ (f + q) * Channels = f * Channels + q * Channels
      /\ f * Channels \in Int /\ q * Channels \in Int
  <2>1. f \in Int /\ q \in Int
    BY <1>1
  <2> QED BY <2>1, Samples
<1>4. f * Channels + s = (f + q) * Channels + c
  <2> DEFINE x == f * Channels
             y == q * Channels
  <2> HIDE DEF x, y
  <2>1. x \in Int /\ y \in Int /\ s = y + c /\ c \in Int /\ (f + q) * Channels = x + y
    BY <1>1, <1>3, RingAssumption DEF x, y
  <2>2. x + s = (x + y) + c
    BY <2>1
  <2> QED BY <2>1, <2>2 DEF x
<1>5. /\ ((f + q) * Channels + c) \div Channels = f + q
      /\ ((f + q) * Channels + c) % Channels = c
  BY <1>1, <1>2, FramesOfSamples
<1> QED BY <1>4, <1>5 DEF q, c

-----------------------------------------------------------------------------
(* Positions in the stream and slots of the ring                           *)

\* A position is a number of turns and a frame of the ring.
LEMMA Turns ==
  ASSUME NEW p \in Int
  PROVE  /\ p \div BufSize \in Int /\ p % BufSize \in 0 .. BufSize - 1
         /\ p = BufSize * (p \div BufSize) + (p % BufSize)
BY RingAssumption

\* Two numbers of turns that differ are a turn apart or more.
LEMMA TurnsApart ==
  ASSUME NEW m \in Int, NEW n \in Int, m < n
  PROVE  BufSize * m + BufSize <= BufSize * n
<1>1. BufSize * (n - m) >= BufSize
  BY RingAssumption
<1>2. BufSize * (n - m) = BufSize * n - BufSize * m
  BY RingAssumption
<1> QED BY <1>1, <1>2, RingAssumption

\* A number is known by its turns and what is left.
LEMMA RemainderIs ==
  ASSUME NEW p \in Int, NEW t \in Int, NEW r \in 0 .. BufSize - 1,
         p = BufSize * t + r
  PROVE  p % BufSize = r
<1> DEFINE m == p \div BufSize
           a == BufSize * m
           b == BufSize * t
<1>1. m \in Int /\ a \in Int /\ b \in Int /\ BufSize \in Int
      /\ p % BufSize \in 0 .. BufSize - 1
      /\ p = a + (p % BufSize) /\ p = b + r
  <2>1. m \in Int /\ p % BufSize \in 0 .. BufSize - 1 /\ p = a + (p % BufSize)
    BY Turns
  <2> HIDE DEF m
  <2>2. a \in Int /\ b \in Int /\ BufSize \in Int
    BY <2>1, RingAssumption
  <2> QED BY <2>1, <2>2
<1>2. (m < t => a + BufSize <= b) /\ (t < m => b + BufSize <= a)
  BY <1>1, TurnsApart
<1>3. m = t => a = b
  OBVIOUS
<1> HIDE DEF m, a, b
<1> QED BY <1>1, <1>2, <1>3

\* Up to the end of the ring positions and frames of the ring grow together;
\* there the ring begins again.
LEMMA FrameAhead ==
  ASSUME NEW p \in Nat, NEW k \in Nat, (p % BufSize) + k <= BufSize
  PROVE  (p + k) % BufSize = IF (p % BufSize) + k < BufSize
                             THEN (p % BufSize) + k ELSE 0
<1> DEFINE m == p \div BufSize
           a == BufSize * m
<1>1. m \in Int /\ a \in Int /\ p % BufSize \in 0 .. BufSize - 1
      /\ p = a + (p % BufSize)
  BY Turns, RingAssumption
<1>2. CASE (p % BufSize) + k < BufSize
  <2>1. p + k = BufSize * m + ((p % BufSize) + k)
    <3> HIDE DEF m
    <3> QED BY <1>1
  <2>2. (p % BufSize) + k \in 0 .. BufSize - 1 /\ p + k \in Nat
    <3> HIDE DEF m, a
    <3> QED BY <1>1, <1>2, RingAssumption
  <2> HIDE DEF m, a
  <2>3. (p + k) % BufSize = (p % BufSize) + k
    BY <1>1, <2>1, <2>2, RemainderIs
  <2> QED BY <1>2, <2>3
<1>3. CASE (p % BufSize) + k = BufSize
  <2>1. BufSize * (m + 1) = a + BufSize
    BY <1>1, RingAssumption
  <2>2. p + k = BufSize * (m + 1) + 0 /\ m + 1 \in Int /\ 0 \in 0 .. BufSize - 1
    <3> HIDE DEF m, a
    <3> QED BY <1>1, <1>3, <2>1, RingAssumption
  <2> HIDE DEF m, a
  <2>3. (p + k) % BufSize = 0
    <3>1. p + k \in Nat
      OBVIOUS
    <3> QED BY <2>2, <3>1, RemainderIs
  <2>4. ~((p % BufSize) + k < BufSize)
    BY <1>3, RingAssumption
  <2> QED BY <2>3, <2>4
<1>4. (p % BufSize) + k < BufSize \/ (p % BufSize) + k = BufSize
  <2> HIDE DEF m, a
  <2> QED BY <1>1, RingAssumption
<1> QED BY <1>2, <1>3, <1>4

\* Positions less than a ring apart have frames of their own.
LEMMA FramesApart ==
  ASSUME NEW p \in Nat, NEW q \in Nat, p % BufSize = q % BufSize,
         p - q < BufSize, q - p < BufSize
  PROVE  p = q
<1> DEFINE m == p \div BufSize
           n == q \div BufSize
           a == BufSize * m
           b == BufSize * n
<1>1. m \in Int /\ n \in Int /\ a \in Int /\ b \in Int /\ BufSize \in Int
      /\ p % BufSize \in Int /\ p = a + (p % BufSize) /\ q = b + (q % BufSize)
  BY Turns, RingAssumption
<1>2. (m < n => a + BufSize <= b) /\ (n < m => b + BufSize <= a)
  BY <1>1, TurnsApart
<1>3. m = n => a = b
  OBVIOUS
<1> HIDE DEF m, n, a, b
<1> QED BY <1>1, <1>2, <1>3

\* A slot is a sample of the ring.
LEMMA SlotInRing ==
  ASSUME NEW p \in Nat, NEW c \in 0 .. Channels - 1
  PROVE  SlotOf(p, c) \in RingIndex
<1>1. p % BufSize \in Int /\ 0 <= p % BufSize /\ (p % BufSize) + 1 <= BufSize
      /\ BufSize \in Int
  BY Turns, RingAssumption
<1>2. ((p % BufSize) + 1) * Channels <= BufSize * Channels
      /\ ((p % BufSize) + 1) * Channels = (p % BufSize) * Channels + Channels
      /\ (p % BufSize) * Channels \in Nat /\ BufSize * Channels \in Int
  BY <1>1, Samples, RingAssumption
<1> QED BY <1>2, RingAssumption DEF SlotOf, RingIndex

\* Samples less than a ring apart have slots of their own.
LEMMA SlotsApart ==
  ASSUME NEW p \in Nat, NEW q \in Nat, p - q < BufSize, q - p < BufSize,
         NEW c \in 0 .. Channels - 1, NEW d \in 0 .. Channels - 1,
         SlotOf(p, c) = SlotOf(q, d)
  PROVE  p = q /\ c = d
<1>1. p % BufSize \in Int /\ q % BufSize \in Int
  BY Turns
<1>2. p % BufSize = q % BufSize /\ c = d
  BY <1>1, FrameAndSample DEF SlotOf
<1> QED BY <1>2, FramesApart

-----------------------------------------------------------------------------
(* Regions                                                                 *)

\* Region r begins with the frame at stream position p and does not run past
\* the end of the ring.
BeginsAt(r, p) ==
  /\ r.at = (p % BufSize) * Channels
  /\ (p % BufSize) + r.frames <= BufSize

\* The samples of a region are those of the frames from where it begins on.
LEMMA RegionSlots ==
  ASSUME NEW p \in Nat, NEW r, r.frames \in Int, BeginsAt(r, p),
         NEW s \in Nat, s < SamplesOf(r)
  PROVE  /\ s \div Channels \in Nat /\ s \div Channels < r.frames
         /\ s % Channels \in 0 .. Channels - 1
         /\ r.at + s = SlotOf(p + s \div Channels, s % Channels)
<1> DEFINE q == s \div Channels
           c == s % Channels
           o == p % BufSize
<1>1. /\ q \in Nat /\ q < r.frames /\ c \in 0 .. Channels - 1
      /\ s = q * Channels + c
  BY FrameOfSample, SamplesSplit DEF SamplesOf
<1>2. o \in 0 .. BufSize - 1
  BY Turns
<1> HIDE DEF q, c
<1>3. r.at = o * Channels /\ o + r.frames <= BufSize
  BY DEF BeginsAt
<1>4. o + q < BufSize
  <2> HIDE DEF o
  <2> QED BY <1>1, <1>2, <1>3, RingAssumption
<1>5. (p + q) % BufSize = o + q
  <2>1. (p % BufSize) + q < BufSize /\ (p % BufSize) + q <= BufSize
    BY <1>1, <1>2, <1>4, RingAssumption
  <2> HIDE DEF o
  <2>2. (p + q) % BufSize = (p % BufSize) + q
    BY <1>1, <2>1, FrameAhead
  <2> QED BY <2>2 DEF o
<1> HIDE DEF o
<1>6. (o + q) * Channels = o * Channels + q * Channels
      /\ o * Channels \in Int /\ q * Channels \in Int
  <2>1. o \in Int /\ q \in Int
    BY <1>1, <1>2
  <2> QED BY <2>1, Samples
<1>7. r.at + s = (o + q) * Channels + c
  <2> DEFINE x == o * Channels
             y == q * Channels
  <2>1. x \in Int /\ y \in Int /\ c \in Int /\ r.at = x /\ s = y + c
        /\ (o + q) * Channels = x + y
    BY <1>1, <1>3, <1>6
  <2> HIDE DEF x, y
  <2> QED BY <2>1
<1>8. SlotOf(p + q, c) = (o + q) * Channels + c
  BY <1>5 DEF SlotOf
<1> QED BY <1>1, <1>7, <1>8 DEF q, c

\* data_ptr begins at the frame of appl_ptr and goes on from the ring's start
\* when the frames available run past its end.
LEMMA DataPtrIs ==
  ASSUME NEW v \in Nat, NEW a \in Nat,
         NEW m, m = IF v <= BufSize THEN v ELSE BufSize,
         NEW o, o = a % BufSize
  PROVE  DataPtr(v, a) =
           IF BufSize - o < m
           THEN <<[at |-> o * Channels, frames |-> BufSize - o],
                  [at |-> 0, frames |-> m - (BufSize - o)]>>
           ELSE <<[at |-> o * Channels, frames |-> m]>>
BY DEF DataPtr, RustRem

\* As many frames as are available, the ring's size at the most, in one region
\* or in two that follow each other in the stream.
LEMMA DataPtrPlaces ==
  ASSUME NEW v \in Nat, NEW a \in Nat,
         NEW m, m = IF v <= BufSize THEN v ELSE BufSize,
         NEW rs, rs = DataPtr(v, a)
  PROVE  /\ BeginsAt(rs[1], a) /\ rs[1].frames \in 0 .. BufSize
         /\ \/ /\ Len(rs) = 1 /\ DOMAIN rs = {1} /\ Tail(rs) = <<>>
               /\ rs[1].frames = m
            \/ /\ Len(rs) = 2 /\ DOMAIN rs = {1, 2} /\ Tail(rs) = <<rs[2]>>
               /\ rs[2].frames \in 1 .. BufSize
               /\ BeginsAt(rs[2], a + rs[1].frames)
               /\ rs[1].frames + rs[2].frames = m
<1> DEFINE o == a % BufSize
           b == BufSize - o
<1>1. o \in 0 .. BufSize - 1 /\ m \in 0 .. BufSize /\ BufSize \in Nat
  BY Turns, RingAssumption
<1>2. rs = IF b < m THEN <<[at |-> o * Channels, frames |-> b],
                           [at |-> 0, frames |-> m - b]>>
                    ELSE <<[at |-> o * Channels, frames |-> m]>>
  BY DataPtrIs
<1>3. \A x, y : /\ Len(<<x>>) = 1 /\ DOMAIN <<x>> = {1} /\ Tail(<<x>>) = <<>>
                /\ Len(<<x, y>>) = 2 /\ DOMAIN <<x, y>> = {1, 2}
                /\ Tail(<<x, y>>) = <<y>>
  OBVIOUS
<1>4. CASE b < m
  <2> DEFINE r1 == [at |-> o * Channels, frames |-> b]
             r2 == [at |-> 0, frames |-> m - b]
  <2>1. rs = <<r1, r2>>
    BY <1>2, <1>4
  <2>2. (a % BufSize) + b = BufSize /\ b \in Nat
    <3> HIDE DEF o
    <3>1. o + b = BufSize /\ b \in Nat
      BY <1>1
    <3> QED BY <3>1 DEF o
  <2>3. (a + b) % BufSize = 0
    <3> HIDE DEF b, o
    <3>1. (a % BufSize) + b <= BufSize /\ ~((a % BufSize) + b < BufSize)
      BY <2>2, RingAssumption
    <3> QED BY <2>2, <3>1, FrameAhead
  <2>4. 0 * Channels = 0
    BY RingAssumption
  <2>5. BeginsAt(r1, a) /\ BeginsAt(r2, a + b)
    <3>1. BeginsAt(r1, a)
      <4>1. r1.at = o * Channels /\ r1.frames = b
        OBVIOUS
      <4> HIDE DEF b, r1
      <4>2. (a % BufSize) + b <= BufSize
        BY <2>2, RingAssumption
      <4> QED BY <4>1, <4>2 DEF BeginsAt
    <3>2. BeginsAt(r2, a + b)
      <4>1. r2.at = 0 /\ r2.frames = m - b
        OBVIOUS
      <4> HIDE DEF b, o, r2
      <4>2. 0 + (m - b) <= BufSize
        BY <1>1, <2>2
      <4> QED BY <2>3, <2>4, <4>1, <4>2 DEF BeginsAt
    <3> QED BY <3>1, <3>2
  <2>6. b \in 0 .. BufSize /\ m - b \in 1 .. BufSize /\ b + (m - b) = m
    <3> HIDE DEF o
    <3>1. b \in 0 .. BufSize
      BY <1>1
    <3> HIDE DEF b
    <3> QED BY <1>1, <1>4, <3>1
  <2>7. r1.frames = b /\ r2.frames = m - b
    OBVIOUS
  <2> HIDE DEF r1, r2, b, o
  <2>8. rs[1] = r1 /\ rs[2] = r2
    BY <2>1
  <2> QED BY <1>3, <2>1, <2>5, <2>6, <2>7, <2>8
<1>5. CASE ~(b < m)
  <2> DEFINE r1 == [at |-> o * Channels, frames |-> m]
  <2>1. rs = <<r1>>
    BY <1>2, <1>5
  <2>2. r1.at = o * Channels /\ r1.frames = m
    OBVIOUS
  <2>3. o + m <= BufSize
    <3> HIDE DEF o
    <3> QED BY <1>1, <1>5
  <2> HIDE DEF r1
  <2>4. BeginsAt(r1, a)
    BY <2>2, <2>3 DEF BeginsAt
  <2>5. rs[1] = r1
    BY <2>1
  <2> HIDE DEF o
  <2> QED BY <1>1, <1>3, <2>1, <2>2, <2>4, <2>5
<1> QED BY <1>4, <1>5
-----------------------------------------------------------------------------
(* Past the boundary, and below zero                                       *)

\* The boundary is whole turns of the ring: a position and the one a boundary
\* further have the same frame of the ring.
LEMMA BoundaryTurns ==
  ASSUME NEW p \in Int
  PROVE  p + Boundary \in Int /\ (p + Boundary) % BufSize = p % BufSize
<1> DEFINE m == p \div BufSize
           t == Boundary \div BufSize
           a == BufSize * m
           b == BufSize * t
<1>1. /\ Boundary \in Nat /\ Boundary = b /\ b \in Int /\ t \in Int
      /\ m \in Int /\ a \in Int /\ p % BufSize \in 0 .. BufSize - 1
      /\ p = a + (p % BufSize)
  BY Turns, RingAssumption
<1>2. BufSize * (m + t) = a + b /\ m + t \in Int
  BY <1>1, RingAssumption
<1> HIDE DEF m, t, a, b
<1>3. p + Boundary \in Int /\ p + Boundary = BufSize * (m + t) + (p % BufSize)
  BY <1>1, <1>2
<1>4. (p + Boundary) % BufSize = p % BufSize
  BY <1>1, <1>2, <1>3, RemainderIs
<1> QED BY <1>3, <1>4

\* Positions that differ by a boundary or two have the same slots.
LEMMA SameSlot ==
  ASSUME NEW p \in Int, NEW q \in Int, NEW c,
         p - q \in {-2 * Boundary, -Boundary, 0, Boundary, 2 * Boundary}
  PROVE  SlotOf(p, c) = SlotOf(q, c)
<1>1. Boundary \in Nat
  BY RingAssumption
<1>2. \A x \in Int : /\ (x + Boundary) % BufSize = x % BufSize
                     /\ ((x + Boundary) + Boundary) % BufSize = x % BufSize
  BY BoundaryTurns
<1>3. \/ p = q
      \/ p = q + Boundary \/ p = (q + Boundary) + Boundary
      \/ q = p + Boundary \/ q = (p + Boundary) + Boundary
  BY <1>1
<1>4. p % BufSize = q % BufSize
  BY <1>2, <1>3
<1> QED BY <1>4 DEF SlotOf

\* Region r begins a ring before the frame at stream position p: before the
\* memory of the ring.
BeginsBelow(r, p) ==
  /\ r.at = ((p % BufSize) - BufSize) * Channels
  /\ r.frames <= BufSize

\* What of such a region is in the ring are still frames from p on.
LEMMA BelowSlots ==
  ASSUME NEW p \in Nat, NEW r, r.frames \in Int, BeginsBelow(r, p),
         NEW s \in Nat, s < SamplesOf(r), r.at + s >= 0
  PROVE  /\ s \div Channels \in Nat /\ s \div Channels < r.frames
         /\ s % Channels \in 0 .. Channels - 1
         /\ r.at + s = SlotOf(p + s \div Channels, s % Channels)
<1> DEFINE q == s \div Channels
           c == s % Channels
           m == p \div BufSize
           o == (p % BufSize) - BufSize
<1>1. /\ q \in Nat /\ q < r.frames /\ c \in 0 .. Channels - 1
      /\ s = q * Channels + c
  BY FrameOfSample, SamplesSplit DEF SamplesOf
<1>2. /\ m \in Int /\ BufSize * m \in Int /\ p = BufSize * m + (o + BufSize)
      /\ o \in -BufSize .. -1 /\ BufSize * (m + 1) = BufSize * m + BufSize
  BY Turns, RingAssumption
<1>3. r.at = o * Channels /\ r.frames <= BufSize
  BY DEF BeginsBelow
<1> HIDE DEF q, c, m, o
<1>4. /\ (o + q) * Channels = o * Channels + q * Channels
      /\ o * Channels \in Int /\ q * Channels \in Int
      /\ o + q \in Int
  <2>1. o \in Int /\ q \in Int
    BY <1>1, <1>2
  <2>2. o + q \in Int
    BY <2>1
  <2> QED BY <2>1, <2>2, Samples
<1>5. r.at + s = (o + q) * Channels + c
  <2> DEFINE x == o * Channels
             y == q * Channels
  <2>1. x \in Int /\ y \in Int /\ c \in Int /\ r.at = x /\ s = y + c
        /\ (o + q) * Channels = x + y
    BY <1>1, <1>3, <1>4
  <2> HIDE DEF x, y
  <2> QED BY <2>1
<1>6. o + q >= 0
  <2> SUFFICES ASSUME o + q <= -1 PROVE FALSE
    BY <1>4
  <2>1. (o + q) * Channels <= (-1) * Channels /\ (-1) * Channels = -Channels
        /\ (o + q) * Channels \in Int
    BY <1>4, Samples, RingAssumption
  <2> QED BY <1>1, <1>5, <2>1, RingAssumption
<1>7. o + q \in 0 .. BufSize - 1
  BY <1>1, <1>2, <1>3, <1>6, RingAssumption
<1>8. (p + q) % BufSize = o + q
  <2> DEFINE y == BufSize * m
  <2>1. y \in Int /\ p = y + (o + BufSize) /\ BufSize * (m + 1) = y + BufSize
    BY <1>2
  <2> HIDE DEF y
  <2>2. p + q = BufSize * (m + 1) + (o + q) /\ p + q \in Nat /\ m + 1 \in Int
    BY <1>1, <1>2, <2>1, RingAssumption
  <2> QED BY <1>7, <2>2, RemainderIs
<1>9. SlotOf(p + q, c) = (o + q) * Channels + c
  BY <1>8 DEF SlotOf
<1> QED BY <1>1, <1>5, <1>9 DEF q, c

\* data_ptr when commit has left appl_ptr below zero: one region, that begins
\* where the frame of appl_ptr is or a ring before it.
LEMMA DataPtrBelow ==
  ASSUME NEW v \in Nat, NEW a \in -BufSize .. -1,
         NEW m, m = IF v <= BufSize THEN v ELSE BufSize,
         NEW rs, rs = DataPtr(v, a)
  PROVE  /\ Len(rs) = 1 /\ DOMAIN rs = {1} /\ rs[1].frames = m
         /\ m \in 0 .. BufSize
         /\ BeginsAt(rs[1], a + Boundary) \/ BeginsBelow(rs[1], a + Boundary)
<1> DEFINE o == RustRem(a, BufSize)
           b == BufSize - o
<1>1. m \in 0 .. BufSize /\ BufSize \in Nat /\ BufSize > 0
  BY RingAssumption
<1>2. o = IF a = -BufSize THEN 0 ELSE a
  <2>1. o = -((-a) % BufSize)
    BY RingAssumption DEF RustRem
  <2>2. -a \in 1 .. BufSize
    BY <1>1
  <2>3. BufSize % BufSize = 0 /\ \A x \in 0 .. BufSize - 1 : x % BufSize = x
    <3>1. BufSize * 0 = 0 /\ BufSize * 1 = BufSize
      BY <1>1
    <3> QED BY <1>1, <3>1, RemainderIs
  <2> QED BY <1>1, <2>1, <2>2, <2>3
<1> HIDE DEF o
<1>3. b \in Int /\ ~(b < m)
  BY <1>1, <1>2
<1> DEFINE r == [at |-> o * Channels, frames |-> m]
<1>4. rs = <<r>>
  BY <1>3 DEF DataPtr, o
<1>5. r.at = o * Channels /\ r.frames = m
  OBVIOUS
<1> HIDE DEF r
<1>6. Len(rs) = 1 /\ DOMAIN rs = {1} /\ rs[1] = r
  BY <1>4
<1>7. (a + Boundary) % BufSize = IF a = -BufSize THEN 0 ELSE a + BufSize
  <2>1. a + BufSize \in Nat /\ Boundary - BufSize \in Nat
    BY <1>1, RingAssumption
  <2>2. ((a + BufSize) + Boundary) % BufSize = (a + BufSize) % BufSize
    BY <2>1, BoundaryTurns
  <2>3. (a + BufSize) % BufSize = a + BufSize
    <3>1. a + BufSize \in 0 .. BufSize - 1 /\ BufSize * 0 = 0
      BY <1>1
    <3> QED BY <1>1, <3>1, RemainderIs
  <2>4. a + Boundary \in Nat /\ (a + Boundary) + BufSize = (a + BufSize) + Boundary
    BY <1>1, RingAssumption
  <2>5. ((a + Boundary) + BufSize) % BufSize = (a + Boundary) % BufSize
    <3> DEFINE p == a + Boundary
               t == p \div BufSize
    <3>1. p \in Nat /\ t \in Int /\ BufSize * t \in Int /\ p % BufSize \in 0 .. BufSize - 1
          /\ p = BufSize * t + (p % BufSize) /\ BufSize * (t + 1) = BufSize * t + BufSize
      <4>1. /\ p \in Nat /\ t \in Int /\ p % BufSize \in 0 .. BufSize - 1
            /\ p = BufSize * t + (p % BufSize)
        BY <2>4, Turns
      <4> HIDE DEF p, t
      <4>2. BufSize * t \in Int /\ BufSize * (t + 1) = BufSize * t + BufSize
        BY <4>1, RingAssumption
      <4> QED BY <4>1, <4>2
    <3> HIDE DEF p, t
    <3> DEFINE y == BufSize * t
    <3>2. y \in Int /\ p = y + (p % BufSize) /\ BufSize * (t + 1) = y + BufSize
      BY <3>1
    <3> HIDE DEF y
    <3>3. p + BufSize \in Nat /\ p + BufSize = BufSize * (t + 1) + (p % BufSize)
          /\ t + 1 \in Int
      BY <1>1, <3>1, <3>2
    <3>4. (p + BufSize) % BufSize = p % BufSize
      BY <3>1, <3>3, RemainderIs
    <3> QED BY <3>4 DEF p
  <2> QED BY <1>1, <2>2, <2>3, <2>4, <2>5
<1>8. CASE a = -BufSize
  <2>1. BeginsAt(r, a + Boundary)
    BY <1>1, <1>2, <1>5, <1>7, <1>8 DEF BeginsAt
  <2> QED BY <1>1, <1>5, <1>6, <2>1
<1>9. CASE a # -BufSize
  <2>1. ((a + Boundary) % BufSize) - BufSize = o
    BY <1>1, <1>2, <1>7, <1>9
  <2>2. BeginsBelow(r, a + Boundary)
    BY <1>1, <1>5, <2>1 DEF BeginsBelow
  <2> QED BY <1>1, <1>5, <1>6, <2>2
<1> QED BY <1>8, <1>9
=============================================================================
