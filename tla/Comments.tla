------------------------------- MODULE Comments -------------------------------
(* The comments of one article (api/comment_api) and the counts shown with *)
(* them: of the article's comments and of the replies of each top-level    *)
(* comment (the stored count and what the nightly job owes it, see         *)
(* CounterFlush, added up).  Replies hang on a top-level comment, also     *)
(* replies to replies.  No request uses a transaction, and a count that    *)
(* Redis refuses is logged and given up.                                   *)
EXTENDS Integers, Sequences, FiniteSets

CONSTANTS
  Users,
  Author,        \* of the article
  Admin,
  Reqs,          \* requests, each made once
  MaxComments    \* bound

VARIABLES
  comments,      \* comment_models, by id: [user, reply, root, published, deleted]
  diggs,         \* comments with a row in comment_digg_models
  articleCount,  \* the comments the article shows
  replyCount,    \* the replies each comment shows
  missed,        \* history: what Redis refused to add to the article's count
                 \* (at 0) and to the count of each comment
  notices,       \* goroutines of message_service started: <<receiver, comment>>
  skipExamining, \* Site.Comment.SkipExamining
  req,
  blurred        \* history: a comment was deleted as another one than was read

comVars == <<comments, diggs, articleCount, replyCount, missed, notices, skipExamining, req, blurred>>

Readers == Users \cup {Author, Admin}
CommentIds == DOMAIN comments
Live  == {i \in CommentIds : ~comments[i].deleted}
Shown == {i \in Live : comments[i].published}

(* The three lists.                                                        *)
RootList        == {i \in Shown : comments[i].root = 0}
ReplyList(root) == IF root \in RootList THEN {i \in Shown : comments[i].root = root} ELSE {}
ManList(type, who) ==
  CASE type = 1 -> IF who = Author THEN Shown ELSE {}
    [] type = 2 -> {i \in Live : comments[i].user = who}
    [] type = 3 -> IF who = Admin THEN Live ELSE {}

ComInit ==
  /\ comments = <<>> /\ diggs = {} /\ articleCount = 0 /\ replyCount = <<>> /\ notices = {}
  /\ missed = [i \in 0..MaxComments |-> 0]
  /\ skipExamining \in BOOLEAN
  /\ req = [r \in Reqs |-> [pc |-> "idle"]] /\ blurred = FALSE

Goto(r, state) == req' = [req EXCEPT ![r] = state]
Finished == [pc |-> "done"]

(* SetCacheComment (for 0) and SetCacheReply, each of which may fail, on   *)
(* top of the replies counted so far.                                      *)
Count(counts, by, replies) ==
  \E refused \in SUBSET counts :
    /\ articleCount' = articleCount + IF 0 \in refused THEN 0 ELSE by
    /\ replyCount' = [i \in CommentIds |-> replies[i] + IF i \in counts \ refused THEN by ELSE 0]
    /\ missed' = [i \in DOMAIN missed |-> missed[i] + IF i \in refused THEN by ELSE 0]

(***************************************************************************)
(* CommentCreateView                                                       *)
(***************************************************************************)
CreateFind(r, who, reply) ==       \* the article allows comments; 0: no reply
  /\ req[r].pc = "idle" /\ reply \in Shown \cup {0}
  /\ LET root == IF reply = 0 THEN 0
                 ELSE IF comments[reply].root # 0 THEN comments[reply].root ELSE reply
     IN Goto(r, [pc |-> "create", user |-> who, reply |-> reply, root |-> root])
  /\ UNCHANGED <<comments, diggs, articleCount, replyCount, missed, notices, skipExamining, blurred>>

CreateRow(r) ==
  /\ req[r].pc = "create" /\ Len(comments) < MaxComments
  /\ LET q == req[r] IN
       /\ comments' = Append(comments, [user |-> q.user, reply |-> q.reply, root |-> q.root,
                                        published |-> FALSE, deleted |-> FALSE])
       /\ IF q.user = Admin \/ skipExamining
            THEN Goto(r, [pc |-> "publish", id |-> Len(comments) + 1, reply |-> q.reply, root |-> q.root])
            ELSE Goto(r, Finished)
  /\ replyCount' = Append(replyCount, 0)
  /\ UNCHANGED <<diggs, articleCount, missed, notices, skipExamining, blurred>>

Publish(r) ==                      \* UPDATE status: a deleted row stays as it is
  /\ req[r].pc = "publish"
  /\ LET q == req[r] IN
       /\ comments' = [comments EXCEPT ![q.id].published = ~comments[q.id].deleted]
       /\ notices' = notices \cup {<<Author, q.id>>}
                     \cup {<<comments[q.reply].user, q.id>> : i \in {q.reply} \ {0}}
       /\ Goto(r, [pc |-> "count", root |-> q.root])
  /\ UNCHANGED <<diggs, articleCount, replyCount, missed, skipExamining, blurred>>

CountNew(r) ==                     \* SetCacheComment, SetCacheReply
  /\ req[r].pc = "count"
  /\ Count({0, req[r].root}, 1, replyCount)
  /\ Goto(r, Finished)
  /\ UNCHANGED <<comments, diggs, notices, skipExamining, blurred>>

(***************************************************************************)
(* CommentRemoveView                                                       *)
(***************************************************************************)
RemoveTake(r, who, i) ==
  /\ req[r].pc = "idle" /\ i \in Live /\ who \in {Admin, Author, comments[i].user}
  /\ IF comments[i].root = 0
       THEN Goto(r, [pc |-> "find", target |-> i])
       ELSE Goto(r, [pc |-> "delete", target |-> i, root |-> comments[i].root,
                     ids |-> {i}, shown |-> {i} \cap Shown])
  /\ UNCHANGED <<comments, diggs, articleCount, replyCount, missed, notices, skipExamining, blurred>>

RemoveFind(r) ==                   \* a top-level comment takes its replies along
  /\ req[r].pc = "find"
  /\ LET i == req[r].target
         ids == {j \in Live : j = i \/ comments[j].root = i}
     IN Goto(r, IF ids = {} THEN Finished
                ELSE [pc |-> "delete", target |-> i, root |-> 0, ids |-> ids, shown |-> ids \cap Shown])
  /\ UNCHANGED <<comments, diggs, articleCount, replyCount, missed, notices, skipExamining, blurred>>

RemoveTargetOnly(r) ==             \* mutant
  /\ req[r].pc = "delete"
  /\ LET q == req[r] IN
       /\ comments' = [comments EXCEPT ![q.target].deleted = TRUE]
       /\ diggs' = diggs \ {q.target}
       /\ Goto(r, [q EXCEPT !.pc = "uncount"])
       /\ blurred' = (blurred \/ q.shown # q.ids \cap Shown \/ ~(q.ids \subseteq Live))
  /\ UNCHANGED <<articleCount, replyCount, missed, notices, skipExamining>>

(* Deletes, diggs included (a failure of theirs is only logged); what was  *)
(* read is counted, whoever deleted it.                                    *)
RemoveRows(r) ==
  /\ req[r].pc = "delete"
  /\ LET q == req[r] IN
       /\ comments' = [i \in CommentIds |-> IF i \in q.ids THEN [comments[i] EXCEPT !.deleted = TRUE] ELSE comments[i]]
       /\ diggs' \in {diggs, diggs \ q.ids}
       /\ Goto(r, [q EXCEPT !.pc = "uncount"])
       /\ blurred' = \/ blurred
                     \/ q.shown # q.ids \cap Shown \/ ~(q.ids \subseteq Live)
                     \/ \E s \in Reqs : req[s].pc = "publish" /\ req[s].id \in q.ids
  /\ UNCHANGED <<articleCount, replyCount, missed, notices, skipExamining>>

CountRemoved(r) ==                 \* SetCacheComment; DelCacheReply (may fail), or SetCacheReply
  /\ req[r].pc = "uncount"
  /\ LET q == req[r] IN
       /\ \E replies \in {replyCount, [replyCount EXCEPT ![q.target] = 0]} :
            /\ q.root # 0 => replies = replyCount
            /\ Count({0, q.root}, -Cardinality(q.shown), replies)
       /\ Goto(r, Finished)
  /\ UNCHANGED <<comments, diggs, notices, skipExamining, blurred>>

Digg(i) ==                         \* CommentDiggView, see DiggCounter
  /\ i \in Shown \ diggs
  /\ diggs' = diggs \cup {i}
  /\ UNCHANGED <<comments, articleCount, replyCount, missed, notices, skipExamining, req, blurred>>

\* A statement fails before anything is counted, which ends the request.
Aborted(r) ==
  /\ req[r].pc \in {"create", "publish", "find", "delete"}
  /\ Goto(r, Finished)
  /\ UNCHANGED <<comments, diggs, articleCount, replyCount, missed, notices, skipExamining, blurred>>

ComNext ==
  \/ \E r \in Reqs :
       \/ \E who \in Readers, reply \in CommentIds \cup {0} : CreateFind(r, who, reply)
       \/ CreateRow(r) \/ Publish(r) \/ CountNew(r)
       \/ \E who \in Readers, i \in CommentIds : RemoveTake(r, who, i)
       \/ RemoveFind(r) \/ RemoveRows(r) \/ CountRemoved(r) \/ Aborted(r)
  \/ \E i \in CommentIds : Digg(i)

-----------------------------------------------------------------------------
ComTypeOK ==
  /\ \A i \in CommentIds : /\ comments[i].user \in Readers
                    /\ comments[i].reply \in 0 .. i - 1 /\ comments[i].root \in 0 .. i - 1
  /\ diggs \subseteq CommentIds /\ articleCount \in Int /\ DOMAIN replyCount = CommentIds
  /\ missed \in [0..MaxComments -> Int]
  /\ \A r \in Reqs : req[r].pc \in {"idle", "create", "publish", "count", "find", "delete", "uncount", "done"}

(* When no request is under way the article shows as many comments as its  *)
(* author can list, and each top-level comment as many replies as its list *)
(* has, but for exactly what Redis refused to count, whatever was written, *)
(* answered and removed side by side.  A reply                             *)
(* that its top-level comment's removal missed counts on: it is in the     *)
(* author's list and in no other.  Left out: comments that were deleted    *)
(* twice, or published while their removal was under way.                  *)
CommentsCounted ==
  (~blurred /\ \A r \in Reqs : req[r].pc \in {"idle", "done"}) =>
    /\ articleCount + missed[0] = Cardinality(ManList(1, Author))
    /\ \A root \in RootList : replyCount[root] + missed[root] = Cardinality(ReplyList(root))
=============================================================================
