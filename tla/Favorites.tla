------------------------------ MODULE Favorites ------------------------------
(* Favourites folders (api/article_api/favorite, article_favorite.go) of   *)
(* one user: folders with a unique title, the articles in them, and the    *)
(* count of favourites each article shows (the stored count with what the  *)
(* nightly job still owes it, see CounterFlush).  A request that changes   *)
(* relations counts them afterwards; the hook of a folder's deletion       *)
(* counts before its transaction commits.  A count that Redis refuses is   *)
(* logged and given up: the relations stay as they are.                    *)
EXTENDS Integers, Sequences, FiniteSets, FiniteSetsExt

CONSTANTS
  Posts,       \* articles
  Titles,
  Default,     \* the title of the default folder
  Reqs,        \* requests of the user and of administrators, each made once
  MaxFolders   \* bound

VARIABLES
  folder,      \* favorite_models, by id: [title, isDefault, deleted]
  inFolder,    \* user_article_favor_models that are not deleted: <<article, folder>>
  favors,      \* the favourites each article shows
  missed,      \* history: what Redis refused to add to each of them
  req,
  blurred      \* history: removals overlapped, or one failed after its hooks

favVars == <<folder, inFolder, favors, missed, req, blurred>>

FavRow == [title : Titles, isDefault : BOOLEAN, deleted : BOOLEAN]

Open == {i \in DOMAIN folder : ~folder[i].deleted}

(* The unique index of user and title knows nothing of deleted_at.         *)
Taken(title, id) == \E i \in (DOMAIN folder) \ {id} : folder[i].title = title

DefaultFolder == {i \in Open : folder[i].isDefault}

FavInit ==
  /\ folder = <<>> /\ inFolder = {} /\ favors = [a \in Posts |-> 0] /\ missed = favors
  /\ req = [r \in Reqs |-> [pc |-> "idle"]] /\ blurred = FALSE

Goto(r, state) == req' = [req EXCEPT ![r] = state]
Finished == [pc |-> "done"]

Of(a, found) == Cardinality({x \in found : x[1] = a})

(* SetCacheFavorite(-1) for each relation, which may fail for some of them. *)
Lower(found) ==
  \E refused \in SUBSET found :
    /\ favors' = [a \in Posts |-> favors[a] - Of(a, found \ refused)]
    /\ missed' = [a \in Posts |-> missed[a] - Of(a, refused)]

-----------------------------------------------------------------------------
NewFolder(title, isDefault) ==
  /\ Len(folder) < MaxFolders /\ ~Taken(title, 0)
  /\ folder' = Append(folder, [title |-> title, isDefault |-> isDefault, deleted |-> FALSE])

CreateFolder(title) ==
  /\ NewFolder(title, FALSE)
  /\ UNCHANGED <<inFolder, favors, missed, req, blurred>>

RenameFolder(i, title) ==
  /\ i \in Open /\ ~Taken(title, i) /\ folder[i].title # title
  /\ folder' = [folder EXCEPT ![i].title = title]
  /\ UNCHANGED <<inFolder, favors, missed, req, blurred>>

(***************************************************************************)
(* ArticleFavoriteSaveView: the folder of the request, or the default one, *)
(* which is created in the transaction when it is missing.                 *)
(***************************************************************************)
TakeFolder(r, a, i) ==
  /\ req[r].pc = "idle" /\ i \in Open
  /\ Goto(r, [pc |-> "switch", article |-> a, folder |-> i])
  /\ UNCHANGED <<folder, inFolder, favors, missed, blurred>>

CreateDefault(r, a) ==
  /\ req[r].pc = "idle" /\ DefaultFolder = {}
  /\ NewFolder(Default, TRUE)
  /\ inFolder' = inFolder \cup {<<a, Len(folder')>>}
  /\ Goto(r, [pc |-> "count", article |-> a, by |-> 1])
  /\ UNCHANGED <<favors, missed, blurred>>

SwitchFavorite(r) ==
  /\ req[r].pc = "switch"
  /\ LET x == <<req[r].article, req[r].folder>> IN
       \/ x \in inFolder /\ inFolder' = inFolder \ {x} /\ Goto(r, [pc |-> "count", article |-> x[1], by |-> -1])
       \/ x \notin inFolder /\ inFolder' = inFolder \cup {x} /\ Goto(r, [pc |-> "count", article |-> x[1], by |-> 1])
  /\ UNCHANGED <<folder, favors, missed, blurred>>

SetCacheFavorite(r) ==
  /\ req[r].pc = "count"
  /\ LET a == req[r].article IN
       \/ favors' = [favors EXCEPT ![a] = @ + req[r].by] /\ UNCHANGED missed
       \/ missed' = [missed EXCEPT ![a] = @ + req[r].by] /\ UNCHANGED favors
  /\ Goto(r, Finished)
  /\ UNCHANGED <<folder, inFolder, blurred>>

(***************************************************************************)
(* FavoriteRemovePatchView: the relations it finds are deleted, and each   *)
(* of them is counted, whoever deleted it.                                 *)
(***************************************************************************)
Removing(x) == \E r \in Reqs : req[r].pc \in {"patch", "commit"} /\ x \in req[r].found

PatchFind(r, i, list) ==
  LET found == {x \in inFolder : x[2] = i /\ x[1] \in list} IN
  /\ req[r].pc = "idle" /\ i \in Open /\ found # {}
  /\ Goto(r, [pc |-> "patch", found |-> found])
  /\ blurred' = (blurred \/ \E x \in found : Removing(x))
  /\ UNCHANGED <<folder, inFolder, favors, missed>>

PatchDelete(r) ==
  /\ req[r].pc = "patch"
  /\ inFolder' = inFolder \ req[r].found
  /\ Goto(r, [pc |-> "lower", found |-> req[r].found])
  /\ blurred' = (blurred \/ ~(req[r].found \subseteq inFolder))
  /\ UNCHANGED <<folder, favors, missed>>

PatchCountOnce(r) ==                 \* mutant: one less, however many were removed
  /\ req[r].pc = "lower"
  /\ Lower({CHOOSE x \in req[r].found : TRUE}) /\ Goto(r, Finished)
  /\ UNCHANGED <<folder, inFolder, blurred>>

PatchCount(r) ==
  /\ req[r].pc = "lower"
  /\ Lower(req[r].found) /\ Goto(r, Finished)
  /\ UNCHANGED <<folder, inFolder, blurred>>

(***************************************************************************)
(* FavoriteDeleteView.  FavoriteModel.BeforeDelete runs for each folder of *)
(* the list: it deletes the relations and lowers the counts at once.  For  *)
(* a folder without relations its DELETE has no condition, which gorm      *)
(* refuses: the whole transaction is rolled back, the counts are not.      *)
(***************************************************************************)
BeforeDelete(r, list) ==
  LET found == {x \in inFolder : x[2] \in list} IN
  /\ req[r].pc = "idle" /\ list # {} /\ list \subseteq Open
  /\ Lower(found)
  /\ Goto(r, [pc |-> "commit", found |-> found, list |-> list])
  /\ blurred' = (blurred \/ \E x \in found : Removing(x))
  /\ UNCHANGED <<folder, inFolder>>

Refused(r) == \E i \in req[r].list : \A x \in req[r].found : x[2] # i

DeleteCommit(r) ==
  /\ req[r].pc = "commit" /\ ~Refused(r)
  /\ folder' = [i \in DOMAIN folder |->
                  IF i \in req[r].list THEN [folder[i] EXCEPT !.deleted = TRUE] ELSE folder[i]]
  /\ inFolder' = inFolder \ req[r].found
  /\ Goto(r, Finished)
  /\ blurred' = (blurred \/ ~(req[r].found \subseteq inFolder))
  /\ UNCHANGED <<favors, missed>>

DeleteRollback(r) ==               \* refused, or the database fails
  /\ req[r].pc = "commit"
  /\ Goto(r, Finished)
  /\ blurred' = (blurred \/ req[r].found # {})
  /\ UNCHANGED <<folder, inFolder, favors, missed>>

\* The transaction of a switch or of a removal fails: nothing was done.
Aborted(r) ==
  /\ req[r].pc \in {"switch", "patch"}
  /\ Goto(r, Finished)
  /\ UNCHANGED <<folder, inFolder, favors, missed, blurred>>

FavNext ==
  \/ \E t \in Titles : CreateFolder(t)
  \/ \E i \in DOMAIN folder, t \in Titles : RenameFolder(i, t)
  \/ \E r \in Reqs :
       \/ \E a \in Posts : CreateDefault(r, a) \/ \E i \in DOMAIN folder : TakeFolder(r, a, i)
       \/ SwitchFavorite(r) \/ SetCacheFavorite(r)
       \/ \E i \in DOMAIN folder, list \in SUBSET Posts : PatchFind(r, i, list)
       \/ PatchDelete(r) \/ PatchCount(r)
       \/ \E list \in SUBSET DOMAIN folder : BeforeDelete(r, list)
       \/ DeleteCommit(r) \/ DeleteRollback(r) \/ Aborted(r)

-----------------------------------------------------------------------------
FavTypeOK ==
  /\ folder \in Seq(FavRow) /\ Len(folder) <= MaxFolders
  /\ inFolder \subseteq Posts \X DOMAIN folder
  /\ {favors, missed} \subseteq [Posts -> Int] /\ blurred \in BOOLEAN
  /\ \A r \in Reqs : req[r].pc \in {"idle", "switch", "count", "patch", "lower", "commit", "done"}

(* When no request is under way each article shows as many favourites as   *)
(* folders hold it, but for exactly what Redis refused to count, whatever  *)
(* was favoured, removed and deleted in between.                           *)
(* Left out: removals of one relation that overlap, which each count it,   *)
(* and a deletion that failed after its hooks.                             *)
FavorsCounted ==
  (~blurred /\ \A r \in Reqs : req[r].pc \in {"idle", "done"}) =>
    \A a \in Posts : favors[a] + missed[a] = Of(a, inFolder)

=============================================================================
