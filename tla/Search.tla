-------------------------------- MODULE Search --------------------------------
(* Article search (service/search_service).  A request becomes a bool      *)
(* query: clauses that every hit satisfies (here one field per clause) and *)
(* clauses that only raise the score.  The index is external; scores are   *)
(* not modelled, only which boosts a document gets.                        *)
EXTENDS Naturals, FiniteSets

CONSTANTS
  Members, Admin,  \* who may have a token
  Guest,           \* no token
  Tags,            \* titles of tags
  Blank,           \* a title of white space only
  Categories,
  Absent,          \* a field the document has not, or the request leaves out
  LikeTags,        \* user_conf_models.like_tags
  Index            \* the documents there are

VARIABLES
  asked,    \* the request and who makes it
  answer

searchVars == <<asked, answer>>

Statuses == {"draft", "examining", "published", "rejected", "deleted"}
Accounts == Members \cup {Admin}
Tops == {"author_top", "admin_top"}

Document ==
  [status : Statuses \cup {Absent}, author : Accounts \cup {Absent}, category : Categories \cup {Absent},
   tags : SUBSET (Tags \cup {Blank}), tops : SUBSET Tops, word : BOOLEAN, comments : {"0", "1", "true"}]

Request ==
  [type : 1..5, status : Statuses \cup {Absent}, user : Accounts \cup {Absent}, tags : SUBSET (Tags \cup {Blank}),
   category : Categories \cup {Absent}, top : BOOLEAN, key : BOOLEAN]

AnyStatus == Statuses \cup {Absent}
AnyAuthor == Accounts \cup {Absent}
AnyCategory == Categories \cup {Absent}

-----------------------------------------------------------------------------
BaseQuery(key) ==
  [status |-> AnyStatus, author |-> AnyAuthor, category |-> AnyCategory, tags |-> {Absent},
   likes |-> {}, tops |-> {}, word |-> key]

DefaultQuery(key) == [BaseQuery(key) EXCEPT !.status = {"published"}]

SelfQueryLosesAuthor(key, u, status) ==                  \* mutant: the second filter replaces the first
  IF status # Absent THEN [BaseQuery(key) EXCEPT !.status = {status}]
  ELSE [BaseQuery(key) EXCEPT !.author = {u}, !.status = AnyStatus \ {"deleted"}]

SelfQuery(key, u, status) ==
  [BaseQuery(key) EXCEPT !.author = {u},
                         !.status = IF status # Absent THEN {status} ELSE AnyStatus \ {"deleted"}]

AdminQuery(key, status) ==
  [BaseQuery(key) EXCEPT !.status = IF status # Absent THEN {status} ELSE AnyStatus]

LikeTagsQuery(q, u) == [q EXCEPT !.likes = LikeTags[u]]
UserIDQuery(q, u) == IF u = Absent THEN q ELSE [q EXCEPT !.author = {u}]
TagListQuery(q, list) == IF list \subseteq {Blank} THEN q ELSE [q EXCEPT !.tags = list \ {Blank}]
CategoryIDQuery(q, c) == [q EXCEPT !.category = {c}]
AdminTopQuery(q) == [q EXCEPT !.tops = {"admin_top"}]
AuthorAdminTopQuery(q) == [q EXCEPT !.tops = {"author_top", "admin_top"}]

(* Elasticsearch.                                                          *)
Hit(q, d) ==
  /\ d.status \in q.status /\ d.author \in q.author /\ d.category \in q.category
  /\ q.tags = {Absent} \/ d.tags \cap q.tags # {}
  /\ q.word => d.word

Boosts(q, d) == (IF d.tags \cap q.likes # {} THEN {"like_tags"} ELSE {}) \cup (d.tops \cap q.tops)

(* extractArticleSearchResults: what an answer shows of a hit.  Tags       *)
(* without a title are dropped; sourceBoolValue takes JSON booleans only,  *)
(* and the documents hold comments_toggle as 0 or 1.                       *)
SourceTags(d) == d.tags \ {Blank}
SourceBool(v) == v = "true"
Result(q, d) ==
  [doc |-> d, boosts |-> Boosts(q, d), tags |-> SourceTags(d), tops |-> d.tops,
   comments |-> SourceBool(d.comments), content |-> q.word]

-----------------------------------------------------------------------------
(* SearchArticles: the query of each type, in the order of the code.       *)
TypeRefused(cr, who) ==
  \/ cr.type = 4 /\ (who = Guest \/ cr.status = "deleted")
  \/ cr.type = 5 /\ who # Admin

TypeQuery(cr, who) ==
  CASE cr.type = 1 -> DefaultQuery(cr.key)
    [] cr.type = 2 -> IF who = Guest THEN DefaultQuery(cr.key) ELSE LikeTagsQuery(DefaultQuery(cr.key), who)
    [] cr.type = 3 -> UserIDQuery(DefaultQuery(cr.key), cr.user)
    [] cr.type = 4 -> SelfQuery(cr.key, who, cr.status)
    [] cr.type = 5 -> AdminQuery(cr.key, cr.status)

(* A search of one's own articles puts the caller in the place of user_id. *)
UserOf(cr, who) == IF cr.type = 4 THEN who ELSE cr.user

CategoryRefused(cr, who) ==
  cr.category # Absent /\ (cr.type \notin {3, 4} \/ UserOf(cr, who) = Absent)

Query(cr, who) ==
  LET tagged == TagListQuery(TypeQuery(cr, who), cr.tags)
      filed  == IF cr.category = Absent THEN tagged ELSE CategoryIDQuery(tagged, cr.category)
  IN IF ~cr.top THEN filed
     ELSE IF cr.type \in {3, 4} THEN AuthorAdminTopQuery(filed) ELSE AdminTopQuery(filed)

SearchInit ==
  /\ asked \in [request : Request, by : Accounts \cup {Guest}]
  /\ answer = [state |-> "none"]

SearchArticles ==
  LET cr == asked.request  who == asked.by IN
  /\ answer.state = "none"
  /\ answer' = IF TypeRefused(cr, who) \/ CategoryRefused(cr, who) THEN [state |-> "refused"]
               ELSE [state |-> "found", list |-> {Result(Query(cr, who), d) : d \in {e \in Index : Hit(Query(cr, who), e)}}]
  /\ UNCHANGED asked

SearchNext == SearchArticles

-----------------------------------------------------------------------------
SearchTypeOK ==
  /\ asked \in [request : Request, by : Accounts \cup {Guest}]
  /\ answer.state \in {"none", "refused", "found"}
  /\ answer.state = "found" => \A x \in answer.list : x.doc \in Index \cap Document

(* The rules of the search as the record states them, one by one and       *)
(* apart from how the query is put together: who is refused, which         *)
(* documents are found, and which of them are pushed up.                   *)
Wanted(cr, who, d) ==
  /\ cr.type \in {1, 2, 3} => d.status = "published"
  /\ cr.type = 3 /\ cr.user # Absent => d.author = cr.user
  /\ cr.type = 4 => d.author = who /\ d.status # "deleted"
  /\ cr.type \in {4, 5} /\ cr.status # Absent => d.status = cr.status
  /\ cr.tags \ {Blank} # {} => \E t \in cr.tags \ {Blank} : t \in d.tags
  /\ cr.category # Absent => d.category = cr.category
  /\ cr.key => d.word

Pushed(cr, who, d) ==
  {b \in {"like_tags", "author_top", "admin_top"} :
     \/ b = "like_tags" /\ cr.type = 2 /\ who # Guest /\ \E t \in d.tags : t \in LikeTags[who]
     \/ b = "admin_top" /\ cr.top /\ b \in d.tops
     \/ b = "author_top" /\ cr.top /\ cr.type \in {3, 4} /\ b \in d.tops}

MayAsk(cr, who) ==
  /\ cr.type = 4 => who # Guest /\ cr.status # "deleted"
  /\ cr.type = 5 => who = Admin
  /\ cr.category # Absent => cr.type = 4 \/ (cr.type = 3 /\ cr.user # Absent)

SearchFollowsRules ==
  LET cr == asked.request  who == asked.by IN
  /\ answer.state = "refused" => ~MayAsk(cr, who)
  /\ answer.state = "found" =>
       /\ MayAsk(cr, who)
       /\ {x.doc : x \in answer.list} = {d \in Index : Wanted(cr, who, d)}
       /\ \A x \in answer.list : x.boosts = Pushed(cr, who, x.doc)
=============================================================================
