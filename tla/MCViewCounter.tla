---------------------------- MODULE MCViewCounter ----------------------------
(* The counts an article shows, side by side: its views, the favourites and *)
(* the comments.  They share no variable, so one of them moves at a time.  *)
EXTENDS ViewCounter, TLC

CONSTANTS v1, g1, a1, a2, r1, r2, r3, r4, s1, s2,
          Titles, Default, MaxFolders, FavReqs,
          Commenters, Author, Admin, ComReqs, MaxComments

VARIABLES
  part,
  folder, inFolder, favors, favMissed, favReq, favBlurred,
  comments, diggs, articleCount, replyCount, comMissed, notices, skipExamining, comReq, comBlurred

ASSUME CountsAssumption == Default \in Titles /\ MaxFolders \in Nat /\ MaxComments \in Nat

Favs == INSTANCE Favorites WITH Posts <- Ids, Reqs <- FavReqs, req <- favReq, missed <- favMissed, blurred <- favBlurred
Coms == INSTANCE Comments WITH Users <- Commenters, Reqs <- ComReqs, req <- comReq, missed <- comMissed, blurred <- comBlurred

favVars == <<folder, inFolder, favors, favMissed, favReq, favBlurred>>
comVars == <<comments, diggs, articleCount, replyCount, comMissed, notices, skipExamining, comReq, comBlurred>>

\* A part that does not move has one initial state.  Comments are examined:
\* with skipExamining every user's comments are counted as the administrator's
\* are here.
CountInit ==
  /\ part \in {"views", "favorites", "comments"}
  /\ Init /\ Favs!FavInit /\ Coms!ComInit
  /\ part # "views" => \A r \in Reqs : req[r].viewer = v1 /\ req[r].item = a1
  /\ ~skipExamining

CountNext ==
  /\ UNCHANGED part
  /\ \/ part = "views" /\ Next /\ UNCHANGED <<favVars, comVars>>
     \/ part = "favorites" /\ Favs!FavNext /\ UNCHANGED <<vars, comVars>>
     \/ part = "comments" /\ Coms!ComNext /\ UNCHANGED <<vars, favVars>>
     \/ part # "views" /\ UNCHANGED <<vars, favVars, comVars>>  \* requests run out

CountSpec == CountInit /\ [][CountNext]_<<part, vars, favVars, comVars>>

(* Every variable of the three has its type. *)
TypesOK == TypeOK /\ Favs!FavTypeOK /\ Coms!ComTypeOK

(* Favorites: an article shows as many favourites as folders hold it.      *)
FavorsCounted == Favs!FavorsCounted

(* Comments: the counts of comments and of replies are those there are.    *)
CommentsCounted == Coms!CommentsCounted

Symmetric == Permutations({r1, r2, r3}) \cup Permutations({a1, a2})
=============================================================================
