----------------------------- MODULE CaptureFifo -----------------------------
(***************************************************************************)
(* What MmapCapture promises: frames are read in the order the card        *)
(* recorded them.  An iterator yields, sample by sample, the frames that   *)
(* were there when it was made and no others; when it ends, by depletion   *)
(* or by being dropped, exactly the frames it yielded completely leave the *)
(* queue.  A frame of which only some samples were yielded is yielded      *)
(* again from its start by the next iterator.  The promise lapses when the *)
(* card overwrites frames nobody has read (`lost`), until prepare.         *)
(***************************************************************************)
EXTENDS Integers, Sequences

CONSTANTS Sample, NoItem, FrameLen, Capacity

VARIABLES incoming,  \* frames in memory the card has not reported yet
          queue,     \* frames reported and not yet committed
          limit,     \* frames the open iterator may yield, -1 when none is open
          taken,     \* samples yielded by the open iterator, not yet committed
          out,       \* what the last call of next returned
          lost       \* unread frames have been overwritten

vars == <<incoming, queue, limit, taken, out, lost>>

Frame == [1 .. FrameLen -> Sample]

Drop(s, n) == SubSeq(s, n + 1, Len(s))

Fresh == /\ incoming = <<>> /\ queue = <<>> /\ limit = -1 /\ taken = 0
         /\ out = NoItem

Init == Fresh /\ lost = FALSE

Record(f) == /\ ~lost
             /\ Len(queue) + Len(incoming) < Capacity
             /\ incoming' = Append(incoming, f)
             /\ UNCHANGED <<queue, limit, taken, out, lost>>

Report == /\ ~lost
          /\ queue' = queue \o incoming /\ incoming' = <<>>
          /\ UNCHANGED <<limit, taken, out, lost>>

Open == /\ ~lost /\ limit = -1
        /\ limit' = Len(queue)
        /\ UNCHANGED <<incoming, queue, taken, out, lost>>

Yield == /\ ~lost /\ taken < limit * FrameLen
         /\ out' = queue[(taken \div FrameLen) + 1][(taken % FrameLen) + 1]
         /\ taken' = taken + 1
         /\ UNCHANGED <<incoming, queue, limit, lost>>

\* next returns None: everything the iterator could yield has been yielded
Deplete == /\ ~lost /\ limit # -1 /\ taken = limit * FrameLen
           /\ queue' = Drop(queue, limit)
           /\ limit' = 0 /\ taken' = 0 /\ out' = NoItem
           /\ UNCHANGED <<incoming, lost>>

Close == /\ ~lost /\ limit # -1
         /\ queue' = Drop(queue, taken \div FrameLen)
         /\ limit' = -1 /\ taken' = 0 /\ out' = NoItem
         /\ UNCHANGED <<incoming, lost>>

Overwrite == /\ ~lost /\ Len(queue) + Len(incoming) = Capacity
             /\ lost' = TRUE /\ Fresh'

Reset == /\ limit = -1 /\ Fresh' /\ lost' = FALSE

Next == \/ \E f \in Frame : Record(f)
        \/ Report \/ Open \/ Yield \/ Deplete \/ Close \/ Overwrite \/ Reset

Spec == Init /\ [][Next]_vars
=============================================================================
