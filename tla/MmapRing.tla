------------------------------ MODULE MmapRing ------------------------------
(***************************************************************************)
(* Pointer arithmetic of src/src/direct/pcm.rs.                            *)
(*                                                                         *)
(* The application and the sound card share a ring buffer of BufSize       *)
(* frames of Channels samples.  Each side has a frame counter, hw_ptr and  *)
(* appl_ptr, that wraps at Boundary.  The counters live in mapped pages as *)
(* unsigned words (snd_pcm_uframes_t) and are computed with as signed      *)
(* words (Frames); HalfWord is 2^31 or 2^63.                               *)
(***************************************************************************)
EXTENDS Integers, Sequences

CONSTANTS
  BufSize,   \* buffer_size(): frames in the ring buffer
  Channels,  \* channels(): samples per frame
  Boundary,  \* boundary(): where hw_ptr and appl_ptr wrap
  HalfWord   \* half the number of values of a machine word

(***************************************************************************)
(* alsa-lib doubles the buffer size while the result still fits a signed   *)
(* word with a buffer to spare, so Boundary is a (large) multiple of       *)
(* BufSize.  That two buffers fit above it holds for every buffer size but *)
(* a few just below a power of two on 32-bit machines.                     *)
(***************************************************************************)
ASSUME RingAssumption ==
  /\ BufSize \in Nat \ {0}
  /\ Channels \in Nat \ {0}
  /\ Boundary \in Nat /\ HalfWord \in Nat
  /\ Boundary % BufSize = 0
  /\ 4 * BufSize <= Boundary
  /\ Boundary + 2 * BufSize <= HalfWord

-----------------------------------------------------------------------------
(* Words.  `as` casts between Frames and snd_pcm_uframes_t reinterpret the *)
(* bits; wrapping_add and wrapping_sub keep the low bits of the result.    *)

AsUnsigned(f) == IF f < 0 THEN f + 2 * HalfWord ELSE f

AsFrames(u) == IF u >= HalfWord THEN u - 2 * HalfWord ELSE u

\* the word a sum or a difference of two words leaves
Wrapped(r) == IF r >= HalfWord THEN r - 2 * HalfWord
              ELSE IF r < -HalfWord THEN r + 2 * HalfWord
              ELSE r

WrappingAdd(a, b) == Wrapped(a + b)
WrappingSub(a, b) == Wrapped(a - b)

\* Rust's `%`: the remainder has the sign of the dividend
RustRem(a, n) == IF a >= 0 THEN a % n ELSE -((-a) % n)

-----------------------------------------------------------------------------
(* <Playback as MmapDir>::avail and <Capture as MmapDir>::avail            *)

\* mutant: no reduction when the sum passes the boundary
AvailPlayback_NotReduced(hw, appl) ==
  LET r == WrappingSub(WrappingAdd(hw, BufSize), appl)
  IN  IF r < 0 THEN WrappingAdd(r, Boundary) ELSE r

AvailPlayback(hw, appl) ==
  LET r0 == WrappingSub(WrappingAdd(hw, BufSize), appl)
      r  == IF r0 < 0 THEN WrappingAdd(r0, Boundary) ELSE r0
  IN  IF AsUnsigned(r) >= AsUnsigned(Boundary)
      THEN WrappingSub(r, Boundary) ELSE r

\* mutant: the playback formula
AvailCapture_AsPlayback(hw, appl) == AvailPlayback(hw, appl)

AvailCapture(hw, appl) ==
  LET r == WrappingSub(hw, appl)
  IN  IF r < 0 THEN WrappingAdd(r, Boundary) ELSE r

\* mutant: an off-by-one in the test for the wrap
CommitTo_KeepsBoundary(appl, v) ==
  LET z == appl + v
  IN  IF z > Boundary THEN z - Boundary ELSE z

\* MmapIO::commit: the value it stores as the new appl_ptr
CommitTo(appl, v) ==
  LET z == appl + v
  IN  IF z + v >= Boundary THEN z - Boundary ELSE z

-----------------------------------------------------------------------------
(* A region is a RawSamples: the index of its first sample in the ring and *)
(* its number of frames.  data_ptr returns one region, or two when the     *)
(* frames available run past the end of the ring.                          *)

SamplesOf(region) == region.frames * Channels

\* mutant: the second region is not shortened by the first
DataPtr_LongSecond(avail, appl) ==
  LET offs  == RustRem(appl, BufSize)
      a     == IF avail <= BufSize THEN avail ELSE BufSize
      b     == BufSize - offs
  IN  IF b < a THEN <<[at |-> offs * Channels, frames |-> b], [at |-> 0, frames |-> a]>>
      ELSE <<[at |-> offs * Channels, frames |-> a]>>

\* mutant: the region is not split at the end of the ring
DataPtr_OneRegion(avail, appl) ==
  <<[at |-> RustRem(appl, BufSize) * Channels,
     frames |-> IF avail <= BufSize THEN avail ELSE BufSize]>>

DataPtr(avail, appl) ==
  LET offs  == RustRem(appl, BufSize)
      a     == IF avail <= BufSize THEN avail ELSE BufSize
      b     == BufSize - offs
      first == [at |-> offs * Channels, frames |-> IF b < a THEN b ELSE a]
  IN  IF b < a THEN <<first, [at |-> 0, frames |-> a - b]>>
      ELSE <<first>>

RingIndex == 0 .. BufSize * Channels - 1

\* where sample c (from 0) of the frame at stream position p is kept
SlotOf(p, c) == (p % BufSize) * Channels + c
=============================================================================
