---------------------------- MODULE MCAuthSession ----------------------------
(* Instances of AuthSession for TLC. *)
EXTENDS AuthSession, TLC

CONSTANTS u1, u2, s1, s2, r1, r2, r3

Symmetry == Permutations(Sessions) \cup Permutations(Reqs)
=============================================================================
