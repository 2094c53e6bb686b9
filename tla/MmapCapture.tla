----------------------------- MODULE MmapCapture -----------------------------
(***************************************************************************)
(* MmapIO<S, Capture>: MmapCapture::iter, CaptureIter (Iterator and Drop)  *)
(* and the card that records concurrently into the same memory.            *)
(*                                                                         *)
(* A call of `next` reads at most one sample of the shared memory, and     *)
(* only this thread writes appl_ptr, so each call is one step.  The        *)
(* iterator borrows the MmapCapture mutably: there is at most one.  The    *)
(* card writes a frame to memory before it reports it in hw_ptr ("updated  *)
(* every now and then by the kernel"), and checks for an overrun when it   *)
(* reports.                                                                *)
(***************************************************************************)
EXTENDS MmapRing

CONSTANTS
  Sample,      \* the samples the card records
  NoItem,      \* None
  MaxAppl,     \* bound: no iterator is made above this appl_ptr
  MaxOverrun   \* bound: unread frames the card may overwrite before it stops

ASSUME CaptureAssumption ==
  /\ MaxAppl \in Nat /\ MaxOverrun \in Nat
  /\ Sample # {} /\ NoItem \notin Sample
  /\ MaxOverrun < BufSize

VARIABLES
  hw,            \* status page: hw_ptr
  lag,           \* frames in memory past hw_ptr
  appl,          \* control page: appl_ptr, an unsigned word
  state,         \* status page: state
  ring,          \* the sample memory
  open,          \* whether a CaptureIter exists
  samples,       \* CaptureIter: the region it reads
  p_offs,        \* CaptureIter: samples read of that region
  read_samples,  \* CaptureIter: samples read and not committed
  next_p,        \* CaptureIter: the region to read next, if any
  out,           \* history: what the last call of next returned
  unread,        \* history: frames reported minus frames committed
  overrun        \* history: unread frames were overwritten

iter == <<open, samples, p_offs, read_samples, next_p>>
vars == <<hw, lag, appl, state, ring, open, samples, p_offs, read_samples,
          next_p, out, unread, overrun>>

applPtr == AsFrames(appl)
avail == AvailCapture(hw, applPtr)

\* read_volatile: what a read of the mapped memory may return; outside the
\* ring that is anything
MemoryAt(i) == IF i \in RingIndex THEN {ring[i]} ELSE Sample

NoRegion == [at |-> 0, frames |-> 0]

Init ==
  /\ hw = 0 /\ lag = 0 /\ appl = 0 /\ state = "Prepared"
  /\ ring \in [RingIndex -> Sample]
  /\ open = FALSE /\ samples = NoRegion /\ p_offs = 0 /\ read_samples = 0
  /\ next_p = <<>>
  /\ out = NoItem /\ unread = 0 /\ overrun = FALSE

-----------------------------------------------------------------------------
(* The application                                                         *)

\* MmapIO::commit
CommitFrames(v) ==
  /\ appl' = AsUnsigned(CommitTo(applPtr, v))
  /\ unread' = unread - v

\* MmapCapture::iter
Iter ==
  /\ ~open
  /\ applPtr <= MaxAppl
  /\ LET regions == DataPtr(avail, applPtr)
     IN  samples' = regions[1] /\ next_p' = Tail(regions)
  /\ open' = TRUE
  /\ UNCHANGED <<hw, lag, appl, state, ring, p_offs, read_samples, out,
                 unread, overrun>>

\* mutant: off by one at the end of a region
NextInRegion_OneMore ==
  /\ open /\ p_offs <= SamplesOf(samples)
  /\ out' \in MemoryAt(samples.at + p_offs)
  /\ p_offs' = p_offs + 1
  /\ read_samples' = read_samples + 1
  /\ UNCHANGED <<hw, lag, appl, state, ring, open, samples, next_p, unread,
                 overrun>>

\* next: a sample of the current region
NextInRegion ==
  /\ open /\ p_offs < SamplesOf(samples)
  /\ out' \in MemoryAt(samples.at + p_offs)
  /\ p_offs' = p_offs + 1
  /\ read_samples' = read_samples + 1
  /\ UNCHANGED <<hw, lag, appl, state, ring, open, samples, next_p, unread,
                 overrun>>

\* next: handle_max moves on to the second region, and its first sample is read
NextRegion ==
  /\ open /\ p_offs >= SamplesOf(samples)
  /\ next_p # <<>> /\ next_p[1].frames > 0
  /\ samples' = next_p[1] /\ next_p' = <<>>
  /\ out' \in MemoryAt(next_p[1].at)
  /\ p_offs' = 1
  /\ read_samples' = read_samples + 1
  /\ UNCHANGED <<hw, lag, appl, state, ring, open, unread, overrun>>

\* mutant: read_samples is not reset, and the drop commits again
Depleted_KeepsCount ==
  /\ open /\ p_offs >= SamplesOf(samples) /\ next_p = <<>>
  /\ p_offs' = 0
  /\ CommitFrames(read_samples \div Channels)
  /\ samples' = [samples EXCEPT !.frames = 0]
  /\ out' = NoItem
  /\ UNCHANGED <<hw, lag, state, ring, open, read_samples, next_p, overrun>>

\* mutant: the region is not closed, and the next call reads it again
Depleted_StaysOpen ==
  /\ open /\ p_offs >= SamplesOf(samples) /\ next_p = <<>>
  /\ p_offs' = 0
  /\ CommitFrames(read_samples \div Channels)
  /\ read_samples' = 0
  /\ out' = NoItem
  /\ UNCHANGED <<hw, lag, state, ring, open, samples, next_p, overrun>>

\* next: handle_max commits, and None is returned
Depleted ==
  /\ open /\ p_offs >= SamplesOf(samples) /\ next_p = <<>>
  /\ p_offs' = 0
  /\ CommitFrames(read_samples \div Channels)
  /\ read_samples' = 0
  /\ samples' = [samples EXCEPT !.frames = 0]
  /\ out' = NoItem
  /\ UNCHANGED <<hw, lag, state, ring, open, next_p, overrun>>

\* Drop for CaptureIter
DropIter ==
  /\ open
  /\ CommitFrames(read_samples \div Channels)
  /\ open' = FALSE /\ samples' = NoRegion /\ p_offs' = 0
  /\ read_samples' = 0 /\ next_p' = <<>> /\ out' = NoItem
  /\ UNCHANGED <<hw, lag, state, ring, overrun>>

-----------------------------------------------------------------------------
(* The card, and the calls on the PCM                                      *)

Start ==
  /\ ~open /\ state = "Prepared" /\ state' = "Running"
  /\ UNCHANGED <<hw, lag, appl, ring, iter, out, unread, overrun>>

\* PCM::prepare: a prepared stream has both counters at 0
Prepare ==
  /\ ~open /\ state # "Running"
  /\ hw' = 0 /\ lag' = 0 /\ appl' = 0 /\ state' = "Prepared"
  /\ unread' = 0 /\ overrun' = FALSE
  /\ UNCHANGED <<ring, iter, out>>

HwRecord(f) ==
  /\ state = "Running"
  /\ unread + lag < BufSize + MaxOverrun
  /\ ring' = [i \in RingIndex |->
                IF i \div Channels = (hw + lag) % BufSize
                THEN f[(i % Channels) + 1] ELSE ring[i]]
  /\ lag' = lag + 1
  /\ overrun' = (overrun \/ unread + lag >= BufSize)
  /\ UNCHANGED <<hw, appl, state, iter, out, unread>>

HwReport ==
  /\ state = "Running" /\ lag > 0
  /\ hw' = IF hw + lag >= Boundary THEN hw + lag - Boundary ELSE hw + lag
  /\ unread' = unread + lag
  /\ lag' = 0
  /\ state' = IF unread' >= BufSize THEN "XRun" ELSE "Running"
  /\ UNCHANGED <<appl, ring, iter, out, overrun>>

Next == \/ Iter \/ NextInRegion \/ NextRegion \/ Depleted \/ DropIter
        \/ Start \/ Prepare
        \/ \E f \in [1 .. Channels -> Sample] : HwRecord(f)
        \/ HwReport

Spec == Init /\ [][Next]_vars

-----------------------------------------------------------------------------
(* Properties                                                              *)

Region == [at : -(BufSize * Channels) .. BufSize * Channels,
           frames : 0 .. BufSize]

\* Types of the mapped pages, of the iterator's fields and of the history.
TypeOK ==
  /\ hw \in 0 .. Boundary - 1
  /\ lag \in 0 .. BufSize + MaxOverrun
  /\ appl \in 0 .. 2 * HalfWord - 1
  /\ state \in {"Prepared", "Running", "XRun"}
  /\ ring \in [RingIndex -> Sample]
  /\ open \in BOOLEAN
  /\ samples \in Region
  /\ p_offs \in 0 .. BufSize * Channels
  /\ read_samples \in 0 .. BufSize * Channels
  /\ next_p \in Seq(Region) /\ Len(next_p) <= 1
  /\ out \in Sample \cup {NoItem}
  /\ unread \in Int
  /\ overrun \in BOOLEAN

\* What avail() returns is the number of frames recorded and not committed,
\* whatever iterators were depleted, dropped half way or dropped unused.
AvailExact == avail = unread

\* An open iterator holds no more than it was given: what it read and has not
\* committed, with what is left of its regions, are frames that were reported.
HeldFrames == read_samples + (SamplesOf(samples) - p_offs)
              + IF next_p = <<>> THEN 0 ELSE SamplesOf(next_p[1])
IterWithinUnread == HeldFrames <= unread * Channels

\* Every behaviour of the iterators and the card is one of the capture FIFO: its
\* queue are the frames of the ring that were reported and not committed, and
\* those recorded since come in. Nothing is promised after an overrun.
FrameAt(p) == [c \in 1 .. Channels |-> ring[SlotOf(p, c - 1)]]
incomingBar == IF overrun THEN <<>> ELSE [i \in 1 .. lag |-> FrameAt(hw + i - 1)]
queueBar == IF overrun THEN <<>>
            ELSE [i \in 1 .. unread |-> FrameAt(hw - unread + i - 1)]
limitBar == IF overrun \/ ~open THEN -1 ELSE HeldFrames \div Channels
takenBar == IF overrun THEN 0 ELSE read_samples
outBar == IF overrun THEN NoItem ELSE out

Fifo == INSTANCE CaptureFifo WITH
  FrameLen <- Channels, Capacity <- BufSize, incoming <- incomingBar,
  queue <- queueBar, limit <- limitBar, taken <- takenBar, out <- outBar,
  lost <- overrun
ImplementsFifo == Fifo!Spec
=============================================================================
