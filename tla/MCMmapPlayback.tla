--------------------------- MODULE MCMmapPlayback ---------------------------
(* Instances of MmapPlayback for TLC: small rings, a machine word with just *)
(* enough room above Boundary.                                              *)
EXTENDS MmapPlayback, TLC

CONSTANTS s1, s2

OneSample == {s1}
TwoSamples == {s1, s2}

\* Spec /\ [](applPtr >= 0), the hypothesis of PlaybackIsFifo: a thread that
\* comes to a commit that would leave appl_ptr below zero is followed no further.
StopsAboveZero == /\ pc = "commit" /\ CommitTo(applPtr, done) < 0
                  /\ UNCHANGED vars
SpecAboveZero == Init /\ [][(Next /\ applPtr' >= 0) \/ StopsAboveZero]_vars

\* no operator tells two samples apart
Symmetry == Permutations(Sample)
=============================================================================
