---------------------------- MODULE MCImageUpload ----------------------------
(* Instances of ImageUpload for TLC. *)
EXTENDS ImageUpload, TLC

CONSTANTS t1, t2, k1, k2, c1, c2, c3, au1, d1, pass, block

Symmetry == Permutations(Keys) \cup Permutations(Confirms)
=============================================================================
