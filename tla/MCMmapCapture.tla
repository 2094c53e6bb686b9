---------------------------- MODULE MCMmapCapture ----------------------------
(* Instances of MmapCapture for TLC: small rings, a machine word with just  *)
(* enough room above Boundary.                                              *)
EXTENDS MmapCapture, TLC

CONSTANTS s1, s2

OneSample == {s1}
TwoSamples == {s1, s2}

\* Spec /\ [](applPtr >= 0), the hypothesis of CaptureIsFifo: a thread that
\* comes to a commit that would leave appl_ptr below zero is followed no further.
StopsAboveZero == /\ open /\ CommitTo(applPtr, read_samples \div Channels) < 0
                  /\ UNCHANGED vars
SpecAboveZero == Init /\ [][(Next /\ applPtr' >= 0) \/ StopsAboveZero]_vars
=============================================================================
