------------------------------- MODULE MCImages -------------------------------
(* Images, side by side: their upload and audit, and the references to them *)
(* that the binlog feeds.  The two share no variable, so one of them moves  *)
(* at a time.                                                              *)
EXTENDS MCImageUpload, FiniteSets, Sequences

CONSTANTS Articles, Others, RefKeys, Foreign, Contents, MaxImages, MaxWrites, MaxStops

VARIABLES
  part,
  rows, images, lastID, refs, canal, feed, job, removing, late, writes, stops

MCContents == {<< >>} \cup {<<Foreign, k>> : k \in RefKeys}
Refs == INSTANCE ImageRefs WITH Keys <- RefKeys

ASSUME RefsAssumption ==
  /\ MaxImages \in Nat /\ IsFiniteSet(Refs!Owners)
  /\ Foreign \notin RefKeys /\ Contents \subseteq Seq(Refs!Urls)
  /\ \A o \in Refs!Owners : None \notin Refs!Row(o)

refVars == <<rows, images, lastID, refs, canal, feed, job, removing, late, writes, stops>>

ImagesInit == part \in {"upload", "references"} /\ Init /\ Refs!Init

\* Bound: with a removal, two confirmations.
FewRequests == NothingRemoved \/ Cardinality({c \in Confirms : conf[c].pc # "idle"}) <= 2

ImagesNext ==
  /\ UNCHANGED part
  /\ \/ part = "upload" /\ Next /\ FewRequests' /\ UNCHANGED refVars
     \/ part = "references" /\ Refs!Next /\ UNCHANGED vars

ImagesSpec == ImagesInit /\ [][ImagesNext]_<<part, vars, refVars>>

(* Every variable of the two has its type. *)
TypesOK == TypeOK /\ Refs!TypeOK

(* ImageRefs: the references are those of the rows once the feed is empty. *)
RefsFollowRows == Refs!RefsFollowRows
=============================================================================
