------------------------------ MODULE FrameFifo ------------------------------
(***************************************************************************)
(* What MmapPlayback promises: a FIFO of frames between the iterator given *)
(* to `write` and the sound card.  The samples of one write become audible *)
(* all at once, at its commit, as whole frames, in the iterator's order,   *)
(* and the card consumes them in that order.  If the card finds nothing to *)
(* play it stops, `late` frames past the end; the first `late` frames      *)
(* committed after that are never heard.                                   *)
(***************************************************************************)
EXTENDS Integers, Sequences

CONSTANTS Sample, FrameLen, Capacity, MaxLate

VARIABLES queue,    \* frames committed and not yet played
          offered,  \* samples taken from the iterator by the current write
          late,     \* frames the card went past the last committed one
          state     \* "Prepared", "Running" or "XRun"

vars == <<queue, offered, late, state>>

Drop(s, n) == SubSeq(s, n + 1, Len(s))

WholeFrames(s) ==
  [i \in 1 .. Len(s) \div FrameLen |->
     [c \in 1 .. FrameLen |-> s[(i - 1) * FrameLen + c]]]

Init == /\ queue = <<>> /\ offered = <<>> /\ late = 0
        /\ state = "Prepared"

Offer(s) == /\ offered' = Append(offered, s)
            /\ Len(offered') <= Capacity * FrameLen
            /\ UNCHANGED <<queue, late, state>>

Publish ==
  LET all == queue \o WholeFrames(offered)
  IN  /\ Len(all) - late <= Capacity
      /\ queue' = Drop(all, late)
      /\ late' = IF Len(all) >= late THEN 0 ELSE late - Len(all)
      /\ offered' = <<>>
      /\ UNCHANGED state

Start == /\ state = "Prepared" /\ queue # <<>>
         /\ state' = "Running"
         /\ UNCHANGED <<queue, offered, late>>

Play(n) == /\ state = "Running"
           /\ queue' = Drop(queue, n)
           /\ IF n < Len(queue)
              THEN UNCHANGED <<late, state>>
              ELSE late' = n - Len(queue) /\ state' = "XRun"
           /\ UNCHANGED offered

\* prepare throws away what was not played
Reset == /\ state # "Running" /\ offered = <<>>
         /\ queue' = <<>> /\ late' = 0 /\ state' = "Prepared"
         /\ UNCHANGED offered

Next == \/ \E s \in Sample : Offer(s)
        \/ Publish
        \/ Start
        \/ \E n \in 1 .. Capacity + MaxLate : Play(n)
        \/ Reset

Spec == Init /\ [][Next]_vars
=============================================================================
