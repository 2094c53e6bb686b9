---------------------------- MODULE MmapPlayback ----------------------------
(***************************************************************************)
(* MmapIO<S, Playback>: MmapPlayback::write and the sound card that plays  *)
(* concurrently from the same memory.                                      *)
(*                                                                         *)
(* write is split where the card can run in between: data_ptr (reads       *)
(* hw_ptr and appl_ptr), one step per sample stored, the end of a region,  *)
(* the end of the iterator, and commit.  Only this thread writes appl_ptr, *)
(* so data_ptr's two reads and commit's read-modify-write are one step     *)
(* each: an advance of hw_ptr between the reads is an advance before or    *)
(* after both of them.                                                     *)
(*                                                                         *)
(* The card and PCM::prepare / PCM::start are external: they do what the   *)
(* tests of direct/pcm.rs and the loop of synth-example rely on.           *)
(***************************************************************************)
EXTENDS MmapRing

CONSTANTS
  Sample,      \* the samples an iterator yields
  MaxAppl,     \* bound: no write begins above this appl_ptr
  MaxOverrun   \* bound: frames the card may go past the last committed one

ASSUME PlaybackAssumption ==
  /\ MaxAppl \in Nat /\ MaxOverrun \in Nat
  /\ Sample # {}
  /\ MaxOverrun < BufSize

VARIABLES
  hw,       \* status page: hw_ptr
  appl,     \* control page: appl_ptr, an unsigned word
  state,    \* status page: state
  ring,     \* the sample memory
  pc,       \* where write is: "idle", "store" or "commit"
  todo,     \* the regions of data_ptr still to be filled, the current one first
  z,        \* samples written to the current region (write_samples)
  done,     \* frames written to the regions already left (write's z)
  pending,  \* history: frames committed minus frames played
  yielded   \* history: the samples this write took from its iterator

card == <<hw, state>>
call == <<pc, todo, z, done>>
vars == <<hw, appl, state, ring, pc, todo, z, done, pending, yielded>>

applPtr == AsFrames(appl)
avail == AvailPlayback(hw, applPtr)

Init ==
  /\ hw = 0 /\ appl = 0 /\ state = "Prepared"
  /\ ring \in [RingIndex -> Sample]
  /\ pc = "idle" /\ todo = <<>> /\ z = 0 /\ done = 0
  /\ pending = 0 /\ yielded = <<>>

-----------------------------------------------------------------------------
(* MmapPlayback::write                                                     *)

BeginWrite ==
  /\ pc = "idle"
  /\ applPtr <= MaxAppl
  /\ todo' = DataPtr(avail, applPtr)
  /\ pc' = "store"
  /\ UNCHANGED <<card, appl, ring, z, done, pending, yielded>>

\* the iterator yields s; a store outside the ring leaves the ring alone
StoreSample(s) ==
  /\ pc = "store"
  /\ z < SamplesOf(todo[1])
  /\ ring' = [i \in RingIndex |-> IF i = todo[1].at + z THEN s ELSE ring[i]]
  /\ z' = z + 1
  /\ yielded' = Append(yielded, s)
  /\ UNCHANGED <<card, appl, pc, todo, done, pending>>

\* mutant: samples are committed as if they were frames
IterEnds_Samples ==
  /\ pc = "store"
  /\ z < SamplesOf(todo[1])
  /\ done' = done + z
  /\ pc' = "commit"
  /\ UNCHANGED <<card, appl, ring, todo, z, pending, yielded>>

\* mutant: the second region's count replaces the first's
IterEnds_LastOnly ==
  /\ pc = "store"
  /\ z < SamplesOf(todo[1])
  /\ done' = z \div Channels
  /\ pc' = "commit"
  /\ UNCHANGED <<card, appl, ring, todo, z, pending, yielded>>

\* the iterator is depleted: the second region, if any, is not touched
IterEnds ==
  /\ pc = "store"
  /\ z < SamplesOf(todo[1])
  /\ done' = done + z \div Channels
  /\ pc' = "commit"
  /\ UNCHANGED <<card, appl, ring, todo, z, pending, yielded>>

RegionFull ==
  /\ pc = "store"
  /\ z >= SamplesOf(todo[1])
  /\ done' = done + z \div Channels
  /\ \/ /\ Len(todo) = 2
        /\ todo' = Tail(todo) /\ z' = 0
        /\ UNCHANGED pc
     \/ /\ Len(todo) = 1
        /\ pc' = "commit"
        /\ UNCHANGED <<todo, z>>
  /\ UNCHANGED <<card, appl, ring, pending, yielded>>

Commit ==
  /\ pc = "commit"
  /\ appl' = AsUnsigned(CommitTo(applPtr, done))
  /\ pending' = pending + done
  /\ pc' = "idle" /\ todo' = <<>> /\ z' = 0 /\ done' = 0 /\ yielded' = <<>>
  /\ UNCHANGED <<card, ring>>

-----------------------------------------------------------------------------
(* The card, and the calls on the PCM, which the thread makes between      *)
(* writes.                                                                 *)

\* PCM::start: refused while there is nothing to play
Start ==
  /\ pc = "idle" /\ state = "Prepared" /\ pending > 0
  /\ state' = "Running"
  /\ UNCHANGED <<hw, appl, ring, call, pending, yielded>>

\* PCM::prepare: a prepared stream has both counters at 0
Prepare ==
  /\ pc = "idle" /\ state # "Running"
  /\ hw' = 0 /\ appl' = 0 /\ state' = "Prepared" /\ pending' = 0
  /\ UNCHANGED <<ring, call, yielded>>

\* the card has played n more frames; with none left the stream stops
HwAdvance(n) ==
  /\ state = "Running"
  /\ n <= pending + MaxOverrun
  /\ hw' = IF hw + n >= Boundary THEN hw + n - Boundary ELSE hw + n
  /\ pending' = pending - n
  /\ state' = IF n >= pending THEN "XRun" ELSE "Running"
  /\ UNCHANGED <<appl, ring, call, yielded>>

Write == BeginWrite \/ (\E s \in Sample : StoreSample(s)) \/ IterEnds
         \/ RegionFull \/ Commit

Next == \/ Write
        \/ Start
        \/ Prepare
        \/ \E n \in 1 .. BufSize + MaxOverrun : HwAdvance(n)

Spec == Init /\ [][Next]_vars

-----------------------------------------------------------------------------
(* Properties                                                              *)

Region == [at : Int, frames : 0 .. BufSize]

\* Types of the mapped pages, of write's locals and of the history.  After a
\* wrap the offset of a region, and so `at`, may be negative: see RegionsInRing.
TypeOK ==
  /\ hw \in 0 .. Boundary - 1
  /\ appl \in 0 .. 2 * HalfWord - 1
  /\ state \in {"Prepared", "Running", "XRun"}
  /\ ring \in [RingIndex -> Sample]
  /\ pc \in {"idle", "store", "commit"}
  /\ todo \in Seq(Region) /\ Len(todo) \in 0 .. 2
  /\ z \in Nat
  /\ done \in 0 .. BufSize
  /\ pending \in -MaxOverrun .. BufSize
  /\ yielded \in Seq(Sample)

\* What avail() returns is the room there really is, BufSize less the frames
\* committed and not yet played, in every state: before and after either
\* counter wraps, with the card ahead of the application after an underrun.
AvailExact == avail = BufSize - pending

\* While a write is in progress the room only grows: what data_ptr read before
\* the first sample stays a safe estimate until the commit, across both wraps.
RoomNeverShrinks == [][pc # "idle" /\ pc' # "idle" => avail' >= avail]_vars

\* No frame that was committed and waits to be played is in a region that the
\* write in progress fills, however far the card got since data_ptr.
Waiting == {SlotOf(hw + i, c) : i \in 0 .. pending - 1, c \in 0 .. Channels - 1}
RegionsFree ==
  \A k \in DOMAIN todo :
    LET r == todo[k]
    IN  Waiting \cap (r.at .. r.at + SamplesOf(r) - 1) = {}

\* A running stream always has a frame to play: commits never take frames
\* back and start is not reached with an empty buffer.
RunningHasFrames == state = "Running" => pending > 0

\* The two counters and the true number of waiting frames agree up to one turn
\* of Boundary, although commit may leave appl_ptr up to a buffer below zero.
CountersAgree ==
  /\ applPtr \in -BufSize .. Boundary - 1
  /\ applPtr - hw - pending \in {-Boundary, 0, Boundary}

\* The frames write has stored, with those it may still store, fit in the room
\* there is, so that the coming commit cannot overfill the buffer.
FramesIn(regions) ==
  CASE Len(regions) = 0 -> 0
    [] Len(regions) = 1 -> regions[1].frames
    [] Len(regions) = 2 -> regions[1].frames + regions[2].frames
CallBounded ==
  /\ pc = "idle" => todo = <<>> /\ z = 0 /\ done = 0
  /\ pc = "store" => /\ todo # <<>> /\ z <= SamplesOf(todo[1])
                     /\ done + FramesIn(todo) <= BufSize
                     /\ done + FramesIn(todo) + pending <= BufSize
  /\ pc = "commit" => done + pending <= BufSize

\* The inductive invariant behind AvailExact.
IInv == TypeOK /\ CountersAgree /\ CallBounded /\ RunningHasFrames

\* Doc of data_ptr, "Since this is a ring buffer, there might be more data in
\* the beginning of the buffer": what data_ptr hands out to be filled lies in
\* the ring buffer.
RegionsInRing ==
  \A k \in DOMAIN todo :
    todo[k].frames > 0 =>
      /\ todo[k].at >= 0
      /\ todo[k].at + SamplesOf(todo[k]) <= BufSize * Channels

\* How far the code keeps that: no region runs past the end of the ring, and
\* none begins before it unless commit has left appl_ptr below zero.
RegionsBounded ==
  \A k \in DOMAIN todo :
    /\ todo[k].at + SamplesOf(todo[k]) <= BufSize * Channels
    /\ applPtr >= 0 => todo[k].at >= 0

\* Every behaviour of write and the card is one of a FIFO of whole frames: its
\* queue are the frames in the ring from hw_ptr on, as many as wait.
FrameAt(p) == [c \in 1 .. Channels |-> ring[SlotOf(p, c - 1)]]
waits == IF pending < 0 THEN 0 ELSE pending
queueBar == [i \in 1 .. waits |-> FrameAt(hw + i - 1)]
lateBar == IF pending < 0 THEN -pending ELSE 0

Fifo == INSTANCE FrameFifo WITH
  FrameLen <- Channels, Capacity <- BufSize, MaxLate <- MaxOverrun,
  offered <- yielded, late <- lateBar, queue <- queueBar
ImplementsFifo == Fifo!Spec
=============================================================================
