------------------------------- MODULE Articles -------------------------------
(* Articles with their tags and pins (api/article_api), and the documents  *)
(* of the search index that the handlers refresh themselves                *)
(* (es_service/article_sync.go).  A handler reads, writes in a             *)
(* transaction, counts tags and refreshes documents, one after the other.  *)
(* The River (module River) brings a row to the index only with the columns *)
(* that the filter of settings.yaml lets through: status, author and       *)
(* content are not among them, and a removal changes none of them.         *)
EXTENDS Integers, Sequences, FiniteSets

CONSTANTS
  Authors,      \* users who are not administrators
  Admin,
  Tags,
  Reqs,         \* requests, each made once
  Seeds,        \* the articles there may be at first, untagged, unpinned and indexed
  NoDoc, NoField, Nobody,
  MaxPins,      \* maxUserTopArticleCount
  MaxArticles   \* bound

VARIABLES
  skipExamining,  \* the site publishes without examination (fixed)
  article,        \* article_models, by id: [author, status, deleted]
  live, dead,     \* article_tag_models, and those that are soft-deleted: <<article, tag>>
  tag,            \* tag_models: "absent", "on", "off" or "deleted"
  tagged,         \* the article count each tag shows
  missed,         \* history: what failed HINCRBYs would have added to tagged
  pin,            \* user_top_article_models that are not deleted: <<user, article>>
  rowLock,        \* who has the user's row FOR UPDATE
  eased,          \* history: users one of whose checks the query cache answered
  binlog,         \* ids of new articles the River has not indexed yet
  doc,            \* the index: [status, tags, top], by id
  req,
  raced           \* history: tags changed between the reading of the old ones and the write

tagVars == <<live, dead, tag, tagged, missed>>
pinVars == <<pin, rowLock, eased>>
docVars == <<binlog, doc>>
artVars == <<skipExamining, article, tagVars, pinVars, docVars, req, raced>>

Statuses == {"draft", "examining", "published", "rejected"}
Accounts == Authors \cup {Admin}
Ids == 1..MaxArticles
Article == [author : Accounts, status : Statuses, deleted : BOOLEAN]
Doc == [status : Statuses \cup {NoField}, tags : SUBSET Tags, top : SUBSET {"author", "admin"}]

Exists(a) == a \in DOMAIN article /\ ~article[a].deleted
Enabled == {t \in Tags : tag[t] = "on"}
TagsOf(a) == {t \in Tags : <<a, t>> \in live}
Pairs(S) == {x \in live : x[1] \in S}

(***************************************************************************)
(* Preload("Tags"): gorm joins over the two keys of article_tag_models     *)
(* alone, so that rows with a deleted_at count too; tags themselves have   *)
(* their own soft deletion.                                                *)
(***************************************************************************)
Preload(a) == {t \in Tags : <<a, t>> \in live \cup dead /\ tag[t] # "deleted"}

(* loadArticleESTopMap                                                     *)
TopMap(a) ==
  {k \in {"author", "admin"} : <<IF k = "author" THEN article[a].author ELSE Admin, a>> \in pin}

(* What a refresh of each kind selects for an article.                     *)
Part(kind, a) ==
  CASE kind = "tags"    -> [tags |-> Preload(a)]
    [] kind = "content" -> [status |-> article[a].status]
    [] kind = "top"     -> [top |-> TopMap(a)]
    [] kind = "all"     -> [status |-> article[a].status, tags |-> Preload(a), top |-> TopMap(a)]

ArtInit ==
  /\ skipExamining \in BOOLEAN /\ article \in Seeds /\ live = {} /\ dead = {}
  /\ tag \in [Tags -> {"absent", "on"}] /\ tagged = [t \in Tags |-> 0]
  /\ missed = [t \in Tags |-> 0]
  /\ pin = {} /\ rowLock = [u \in Accounts |-> Nobody] /\ eased = {}
  /\ binlog = {}
  /\ doc = [a \in Ids |-> IF a \in DOMAIN article THEN Part("all", a) ELSE NoDoc]
  /\ req = [r \in Reqs |-> [pc |-> "idle"]] /\ raced = FALSE

Goto(r, state) == req' = [req EXCEPT ![r] = state]
Done == [pc |-> "done"]
Refresh(kind, S) == IF S = {} THEN Done ELSE [pc |-> "load", kind |-> kind, ids |-> S]
Recount(old, new, next) == [pc |-> "count", plus |-> new \ old, minus |-> old \ new, next |-> next]

(* syncArticleTags: missing relations are restored or inserted, the others *)
(* soft-deleted.                                                           *)
SyncTagsAddOnly(a, new) ==                                \* mutant: nothing is removed
  live' = live \cup ({a} \X new) /\ dead' = dead \ ({a} \X new)

SyncTags(a, new) ==
  /\ live' = (live \ Pairs({a})) \cup ({a} \X new)
  /\ dead' = (dead \cup Pairs({a})) \ ({a} \X new)

-----------------------------------------------------------------------------
(* ArticleCreateView: tags are looked up, then the row and the relations   *)
(* are written in one transaction.                                         *)
CreateStart(r, u, s, T) ==
  /\ req[r].pc = "idle" /\ T \subseteq Enabled /\ s \in {"draft", "examining"}
  /\ Goto(r, [pc |-> "create", by |-> u, tags |-> T,
              status |-> IF skipExamining /\ s = "examining" THEN "published" ELSE s])
  /\ UNCHANGED <<skipExamining, article, tagVars, pinVars, docVars, raced>>

CreateCommit(r) ==
  /\ req[r].pc = "create" /\ Len(article) < MaxArticles
  /\ LET a == Len(article) + 1 IN
       /\ article' = Append(article, [author |-> req[r].by, status |-> req[r].status, deleted |-> FALSE])
       /\ SyncTags(a, req[r].tags)
       /\ binlog' = binlog \cup {a}
       /\ Goto(r, Recount({}, req[r].tags, Refresh("tags", IF req[r].tags = {} THEN {} ELSE {a})))
  /\ UNCHANGED <<skipExamining, tag, tagged, missed, pinVars, doc, raced>>

(***************************************************************************)
(* applyTagArticleCountDelta: one HINCRBY per tag, of which any may fail:  *)
(* that is logged and the next one tried.                                  *)
(***************************************************************************)
By(t, plus, minus) == (IF t \in plus THEN 1 ELSE 0) - (IF t \in minus THEN 1 ELSE 0)

CountTags(r) ==
  LET plus == req[r].plus  minus == req[r].minus IN
  /\ req[r].pc = "count"
  /\ \E refused \in SUBSET (plus \cup minus) :
       /\ tagged' = [t \in Tags |-> tagged[t] + By(t, plus \ refused, minus \ refused)]
       /\ missed' = [t \in Tags |-> missed[t] + By(t, plus \cap refused, minus \cap refused)]
  /\ Goto(r, req[r].next)
  /\ UNCHANGED <<skipExamining, article, live, dead, tag, pinVars, docVars, raced>>

(***************************************************************************)
(* ArticleUpdateView.  T is the tag_ids of the request, or {NoField} when  *)
(* it has none; body says whether the content is among the fields.  The    *)
(* row, the old and the new tags are read first.  A request of tags alone  *)
(* leaves an empty updateMap and returns before the transaction.           *)
(***************************************************************************)
UpdateTagsOnly(r, a) ==
  /\ req[r].pc = "idle" /\ Exists(a) /\ Goto(r, Done)
  /\ UNCHANGED <<skipExamining, article, tagVars, pinVars, docVars, raced>>

UpdateStart(r, a, T, body) ==
  /\ req[r].pc = "idle" /\ Exists(a) /\ (T = {NoField} \/ T \subseteq Enabled)
  /\ Goto(r, [pc |-> "update", id |-> a, old |-> TagsOf(a), new |-> T, body |-> body,
              examine |-> ~skipExamining /\ article[a].status = "published"])
  /\ UNCHANGED <<skipExamining, article, tagVars, pinVars, docVars, raced>>

UpdateCommit(r) ==
  /\ req[r].pc = "update"
  /\ LET a == req[r].id  tags == req[r].new # {NoField} IN
       /\ article' = IF Exists(a) /\ req[r].examine
                     THEN [article EXCEPT ![a].status = "examining"] ELSE article
       /\ IF tags THEN SyncTags(a, req[r].new) ELSE UNCHANGED <<live, dead>>
       /\ raced' = (raced \/ (tags /\ req[r].old # TagsOf(a)))
       /\ \/ tags /\ Goto(r, Recount(req[r].old, req[r].new, Refresh("tags", {a})))
          \/ ~tags /\ Goto(r, Refresh("content", IF req[r].body THEN {a} ELSE {}))
  /\ UNCHANGED <<skipExamining, tag, tagged, missed, pinVars, docVars>>

(* ArticleExamineView                                                      *)
Examine(a, s) ==
  /\ Exists(a) /\ s \in {"published", "rejected"} /\ article[a].status # s
  /\ article' = [article EXCEPT ![a].status = s]
  /\ UNCHANGED <<skipExamining, tagVars, pinVars, docVars, req, raced>>

(***************************************************************************)
(* ArticleRemoveUserView and ArticleRemoveView: the hook of every article  *)
(* reads the relations and counts in Redis, one HINCRBY per relation, of   *)
(* which any may fail; then the transaction commits, or is rolled back.    *)
(***************************************************************************)
RemoveHook(r, S) ==
  /\ req[r].pc = "idle" /\ S # {} /\ \A a \in S : Exists(a)
  /\ \E refused \in SUBSET Pairs(S) :
       /\ tagged' = [t \in Tags |-> tagged[t] - Cardinality({x \in Pairs(S) \ refused : x[2] = t})]
       /\ missed' = [t \in Tags |-> missed[t] - Cardinality({x \in refused : x[2] = t})]
  /\ Goto(r, [pc |-> "remove", ids |-> S, seen |-> Pairs(S)])
  /\ UNCHANGED <<skipExamining, article, live, dead, tag, pinVars, docVars, raced>>

RemoveCommit(r) ==
  /\ req[r].pc = "remove"
  /\ article' = [a \in DOMAIN article |-> IF a \in req[r].ids THEN [article[a] EXCEPT !.deleted = TRUE] ELSE article[a]]
  /\ live' = live \ Pairs(req[r].ids) /\ dead' = dead \cup Pairs(req[r].ids)
  /\ pin' = {x \in pin : x[2] \notin req[r].ids}
  /\ raced' = (raced \/ req[r].seen # Pairs(req[r].ids))
  /\ Goto(r, Done)
  /\ UNCHANGED <<skipExamining, tag, tagged, missed, rowLock, eased, docVars>>

RemoveRollback(r) ==
  /\ req[r].pc = "remove"
  /\ raced' = TRUE /\ Goto(r, Done)
  /\ UNCHANGED <<skipExamining, article, tagVars, pinVars, docVars>>

-----------------------------------------------------------------------------
(***************************************************************************)
(* ArticleTopSetView: the article is read first; then a transaction takes  *)
(* the user's row FOR UPDATE, looks for the pin, counts and writes.  The   *)
(* three queries pass through the query cache (module QueryCache): an      *)
(* entry, or the easer, may answer the first one, which then locks         *)
(* nothing, or one of the others, with what was there when it was stored,  *)
(* perhaps between the clearing of the cache by a write and its commit.    *)
(***************************************************************************)
MayPin(u, a, kind) ==
  \/ kind = "author" /\ article[a].author = u /\ article[a].status = "published"
  \/ kind = "admin" /\ u = Admin

Pins(u) == {x \in pin : x[1] = u}
Full(u) == Cardinality(Pins(u)) >= MaxPins

TopStart(r, u, a, kind) ==
  /\ req[r].pc = "idle" /\ Exists(a) /\ MayPin(u, a, kind)
  /\ Goto(r, [pc |-> "lock", by |-> u, id |-> a, limited |-> kind = "author" /\ u # Admin])
  /\ UNCHANGED <<skipExamining, article, tagVars, pinVars, docVars, raced>>

Refused(r) ==
  <<req[r].by, req[r].id>> \in pin \/ (req[r].limited /\ Full(req[r].by))

\* The request, let through to its write.
Cleared(r) == [pc |-> "pin", by |-> req[r].by, id |-> req[r].id, limited |-> req[r].limited]

TopCheckUnlocked(r) ==                                    \* mutant: the row is not locked
  /\ req[r].pc = "lock" /\ UNCHANGED <<rowLock, eased>>
  /\ Goto(r, IF Refused(r) THEN Done ELSE Cleared(r))
  /\ UNCHANGED <<skipExamining, article, tagVars, pin, docVars, raced>>

TopCheck(r) ==
  LET u == req[r].by
      locks == rowLock[u] = Nobody /\ rowLock' = [rowLock EXCEPT ![u] = r] IN
  /\ req[r].pc = "lock"
  /\ \/ /\ rowLock[u] = Nobody /\ UNCHANGED eased
        /\ \/ Refused(r) /\ Goto(r, Done) /\ UNCHANGED rowLock
           \/ ~Refused(r) /\ Goto(r, Cleared(r)) /\ locks
     \/ /\ eased' = eased \cup {u}
        /\ \/ Goto(r, Done) /\ UNCHANGED rowLock
           \/ Goto(r, Cleared(r)) /\ (UNCHANGED rowLock \/ locks)
  /\ UNCHANGED <<skipExamining, article, tagVars, pin, docVars, raced>>

Unlocked(r) == [u \in Accounts |-> IF rowLock[u] = r THEN Nobody ELSE rowLock[u]]

(* RestoreOrCreateUnique finds a pin that is there.                        *)
TopPin(r) ==
  LET x == <<req[r].by, req[r].id>> IN
  /\ req[r].pc = "pin" /\ pin' = pin \cup {x} /\ rowLock' = Unlocked(r)
  /\ Goto(r, IF x \in pin THEN Done ELSE Refresh("top", {req[r].id}))
  /\ UNCHANGED <<skipExamining, article, tagVars, eased, docVars, raced>>

(* ArticleTopRemoveView                                                    *)
Unpin(r, u, a) ==
  /\ req[r].pc = "idle" /\ Exists(a) /\ (article[a].author = u \/ u = Admin) /\ <<u, a>> \in pin
  /\ pin' = pin \ {<<u, a>>}
  /\ Goto(r, Refresh("top", {a}))
  /\ UNCHANGED <<skipExamining, article, tagVars, rowLock, eased, docVars, raced>>

-----------------------------------------------------------------------------
(* TagCreateUpdateView.  A title stays taken after its tag was deleted.    *)
SaveTag(t, state) ==
  /\ tag[t] # "deleted" /\ state \in {"on", "off"} /\ tag[t] # state
  /\ tag[t] = "absent" => state = "on"       \* gorm inserts the default true for false
  /\ tag' = [tag EXCEPT ![t] = state]
  /\ UNCHANGED <<skipExamining, article, live, dead, tagged, missed, pinVars, docVars, req, raced>>

RenameTag(r, t) ==
  /\ req[r].pc = "idle" /\ tag[t] \in {"on", "off"}
  /\ Goto(r, Refresh("tags", {x[1] : x \in {y \in live : y[2] = t}}))
  /\ UNCHANGED <<skipExamining, article, tagVars, pinVars, docVars, raced>>

(* TagDeleteView: no article may use the tag; the hook of the deletion     *)
(* counts the relations that have come since, all at once, which may fail; *)
(* what was counted stays when the deletion is rolled back.                *)
DeleteTagCheck(r, t) ==
  /\ req[r].pc = "idle" /\ \A x \in live : x[2] # t
  /\ Goto(r, [pc |-> "deleteTag", tag |-> t])
  /\ UNCHANGED <<skipExamining, article, tagVars, pinVars, docVars, raced>>

DeleteTag(r) ==
  LET t == req[r].tag  found == {x \in live : x[2] = t}
      Less(n) == [n EXCEPT ![t] = @ - Cardinality(found)] IN
  /\ req[r].pc = "deleteTag" /\ Goto(r, Done)
  /\ \/ tag[t] \in {"absent", "deleted"} /\ UNCHANGED <<tagVars, raced>>
     \/ /\ tag[t] \in {"on", "off"}
        /\ \/ tagged' = Less(tagged) /\ UNCHANGED missed
           \/ missed' = Less(missed) /\ UNCHANGED tagged
        /\ \/ /\ tag' = [tag EXCEPT ![t] = "deleted"]
              /\ live' = live \ found /\ dead' = dead \cup found /\ UNCHANGED raced
           \/ raced' = TRUE /\ UNCHANGED <<live, dead, tag>>
  /\ UNCHANGED <<skipExamining, article, pinVars, docVars>>

(* A failing statement before the commit, or a failing refresh, ends the   *)
(* request and gives the row lock back.                                    *)
Aborted(r) ==
  /\ req[r].pc \notin {"idle", "count", "remove", "done"}
  /\ Goto(r, Done) /\ rowLock' = Unlocked(r)
  /\ UNCHANGED <<skipExamining, article, tagVars, pin, eased, docVars, raced>>

-----------------------------------------------------------------------------
(***************************************************************************)
(* UpdateESDocsTags, UpdateESDocsContent, UpdateESDocsTop: a SELECT, then  *)
(* a bulk of partial updates.  Articles that are removed drop out of the   *)
(* first two; an update of a document that is missing fails.               *)
(***************************************************************************)
RefreshLoad(r) ==
  LET S == {a \in req[r].ids : req[r].kind = "top" \/ Exists(a)} IN
  /\ req[r].pc = "load"
  /\ Goto(r, [pc |-> "bulk", kind |-> req[r].kind, part |-> [a \in S |-> Part(req[r].kind, a)]])
  /\ UNCHANGED <<skipExamining, article, tagVars, pinVars, docVars, raced>>

Merged(d, part) == [f \in DOMAIN d |-> IF f \in DOMAIN part THEN part[f] ELSE d[f]]

RefreshWrite(r) ==
  LET part == req[r].part  S == DOMAIN part IN
  /\ req[r].pc = "bulk" /\ Goto(r, Done)
  /\ doc' = [a \in Ids |-> IF a \notin S THEN doc[a]
                           ELSE IF req[r].kind = "all" THEN part[a]
                           ELSE IF doc[a] = NoDoc THEN NoDoc ELSE Merged(doc[a], part[a])]
  /\ UNCHANGED <<skipExamining, article, tagVars, pinVars, binlog, raced>>

(* FlagESSync: SyncESDocs indexes all articles anew.                       *)
FullSync(r) ==
  LET S == {a \in DOMAIN article : ~article[a].deleted} IN
  /\ req[r].pc = "idle" /\ S # {}
  /\ Goto(r, [pc |-> "load", kind |-> "all", ids |-> S])
  /\ UNCHANGED <<skipExamining, article, tagVars, pinVars, docVars, raced>>

(* The River indexes a new row: the columns of the filter and no others.   *)
Replicate ==
  \E a \in binlog :
    /\ binlog' = binlog \ {a}
    /\ doc' = [doc EXCEPT ![a] = [status |-> NoField, tags |-> {}, top |-> {}]]
    /\ UNCHANGED <<skipExamining, article, tagVars, pinVars, req, raced>>

-----------------------------------------------------------------------------
Ask(r) ==
  \/ \E u \in Accounts, s \in {"draft", "examining"}, T \in SUBSET Tags : CreateStart(r, u, s, T)
  \/ \E a \in DOMAIN article :
       \/ UpdateTagsOnly(r, a)
       \/ \E T \in (SUBSET Tags) \cup {{NoField}}, body \in BOOLEAN : UpdateStart(r, a, T, body)
       \/ \E u \in Accounts, kind \in {"author", "admin"} : TopStart(r, u, a, kind)
       \/ \E u \in Accounts : Unpin(r, u, a)
  \/ \E S \in SUBSET DOMAIN article : RemoveHook(r, S)
  \/ \E t \in Tags : RenameTag(r, t) \/ DeleteTagCheck(r, t)
  \/ FullSync(r)

Step(r) ==
  \/ CreateCommit(r) \/ CountTags(r) \/ UpdateCommit(r)
  \/ RemoveCommit(r) \/ RemoveRollback(r)
  \/ TopCheck(r) \/ TopPin(r) \/ DeleteTag(r) \/ Aborted(r)
  \/ RefreshLoad(r) \/ RefreshWrite(r)

ArtNext ==
  \/ \E r \in Reqs : Ask(r)
  \/ \E r \in Reqs : Step(r)
  \/ \E a \in DOMAIN article, s \in Statuses : Examine(a, s)
  \/ \E t \in Tags, state \in {"on", "off"} : SaveTag(t, state)
  \/ Replicate

ArtSpec == ArtInit /\ [][ArtNext]_artVars

-----------------------------------------------------------------------------
Quiet == \A r \in Reqs : req[r].pc \in {"idle", "done"}

ArtTypeOK ==
  /\ skipExamining \in BOOLEAN /\ raced \in BOOLEAN
  /\ article \in Seq(Article) /\ Len(article) <= MaxArticles
  /\ live \subseteq Ids \X Tags /\ dead \subseteq Ids \X Tags /\ live \cap dead = {}
  /\ tag \in [Tags -> {"absent", "on", "off", "deleted"}]
  /\ tagged \in [Tags -> Int] /\ missed \in [Tags -> Int]
  /\ pin \subseteq Accounts \X Ids /\ rowLock \in [Accounts -> Reqs \cup {Nobody}]
  /\ eased \subseteq Accounts
  /\ binlog \subseteq Ids
  /\ doc \in [Ids -> Doc \cup {NoDoc}]

(* The row lock serializes the limit and the pin (top_set.go:53): a user   *)
(* who is no administrator never holds more pins than the limit, however   *)
(* many requests count at once.  An answer of the query cache breaks this. *)
PinLimit == \A u \in Authors : Cardinality(Pins(u)) <= MaxPins

(* What the lock does achieve: a user whose checks all reached the         *)
(* database never holds more pins than the limit, whatever requests the    *)
(* user, other users and the removal of articles interleave with them.     *)
LockedPinLimit == \A u \in Authors \ eased : Cardinality(Pins(u)) <= MaxPins

(* When no request is under way, every tag shows as many articles as have  *)
(* it, but for the HINCRBYs that failed, exactly; unless the tags of an    *)
(* article changed between a request's reading of the old ones and its     *)
(* transaction, or the removal of an article or a tag was rolled back.     *)
TagsCounted ==
  Quiet /\ ~raced =>
    \A t \in Tags : tagged[t] + missed[t] = Cardinality({x \in live : x[2] = t})

(* An article shows the tags it has: what ArticleDetailView and the        *)
(* documents get from Preload is what the last update left it.             *)
TagsShown == \A a \in DOMAIN article : Exists(a) => Preload(a) \subseteq TagsOf(a)
=============================================================================
