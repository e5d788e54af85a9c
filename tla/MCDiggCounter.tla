---------------------------- MODULE MCDiggCounter ----------------------------
(* Model values and symmetry for DiggCounter. *)
EXTENDS DiggCounter, TLC

CONSTANTS u1, u2, a1, a2, r1, r2, r3, s1, s2

MCUsers == {u1, u2}
Symmetric == Permutations(MCUsers) \cup Permutations({s1, s2}) \cup Permutations({r1, r2, r3})
=============================================================================
