-------------------------------- MODULE MCSeq --------------------------------
(***************************************************************************)
(* SeqIo with two of everything, alike but for their names.                *)
(***************************************************************************)
EXTENDS SeqIo, TLC
CONSTANTS s1, s2, i1, i2, b1, b2
TwoSlots == {s1, s2}
TwoInputs == {i1, i2}
TwoBytes == {b1, b2}
Symmetry == Permutations(TwoSlots) \cup Permutations(TwoInputs) \cup Permutations(TwoBytes)
=============================================================================
