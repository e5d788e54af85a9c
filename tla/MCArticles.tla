------------------------------ MODULE MCArticles ------------------------------
(* Instances of Articles where what it shows differs from what was written. *)
EXTENDS Articles, TLC

CONSTANTS r1, r2

Published == [author |-> "u", status |-> "published", deleted |-> FALSE]
MCSeeds == {<< >>, <<Published>>}
MCPinSeeds == {<<Published, Published>>}

Symmetric == Permutations(Reqs)
=============================================================================
