-------------------------------- MODULE MCSite --------------------------------
(* What the site itself keeps, side by side: sessions, articles, searches,  *)
(* the configuration and the flow of visits, registrations and the scoring  *)
(* of articles.  They share no variable, so one of them moves at a time.    *)
EXTENDS MCAuthSession, Sequences

CONSTANTS
  r4, Nobody, Absent, None, Failure,
  Authors, Admin, Tags, Seeds, NoDoc, NoField, MaxPins, MaxArticles,  \* Articles
  Members, Guest, Blank, Categories, LikeTags, Index,                \* Search
  Fields, Values, Placeholder, Zero, Default, NoRow,
  Edits, Visits, KeepDays, MaxDay,                                   \* SiteConfig
  Emails, OpenIds, IPs, Visitors, Member, Kinds, KnownKinds,
  MaxFail, MaxSend, MaxName,                                         \* SignUp
  MaxChars, DirectMax, MinChars, Prefix, SmallLimit, MaxIssues,
  Names, Types, Expository, OtherType, Papers, Weights, Replies      \* Scoring

MCSeeds ==
  LET a == [author |-> "u", status |-> "published", deleted |-> FALSE] IN {<< >>, <<a, a>>}

MCLikeTags == [u \in Members \cup {Admin} |-> Tags]
MCIndex ==
  [status : {"draft", "published", "deleted", Absent}, author : Members \cup {Admin, Absent},
   category : Categories \cup {Absent}, tags : {{}, Tags, {Blank}},
   tops : {{}, {"admin_top"}, {"author_top"}}, word : BOOLEAN, comments : {"1"}]

MCFields == [site |-> {"title"}, ai |-> {"secret"}]
MCValues == {1, Placeholder}

MCPapers == [paragraphs : UNION {[1..n -> {2, 5, 13}] : n \in 0..3}, blank : {0, 20}]
MCWeights == [t \in Types |-> IF t = Expository THEN [x |-> 50, y |-> 50] ELSE [x |-> 24, y |-> 76]]
MCReplies ==
  {[type |-> t, dims |-> d[1], issues |-> d[2]] :
     t \in Types \cup {OtherType},
     d \in {<<[x |-> 90], 12>>, <<[x |-> 31, y |-> 60], 0>>, <<[x |-> -5, y |-> 120], 4>>}}

VARIABLES
  part,
  skipExamining, article, live, dead, tag, tagged, missed, pin, rowLock, eased, binlog, doc,
  artReq, artRaced,
  searchAsked, answer,
  stored, config, cache, shared, edit, committed, asked, raced,
  day, total, daily, visit, seen,
  users, profiles, stamped, seq, window, codes, mails, letIn, signReq,
  paper, chunks, pc, kind, sent, said, result

Art == INSTANCE Articles WITH req <- artReq, raced <- artRaced
Find == INSTANCE Search WITH asked <- searchAsked
Site == INSTANCE SiteConfig
Sign == INSTANCE SignUp WITH req <- signReq
Score == INSTANCE Scoring

ASSUME ArticlesAssumption ==
  /\ MaxPins \in Nat /\ Nobody \notin Reqs /\ Admin \notin Authors /\ IsFiniteSet(Reqs)
  /\ MaxArticles \in Nat /\ Seeds \subseteq Seq(Art!Article)
  /\ \A seed \in Seeds : Len(seed) <= MaxArticles

ASSUME SearchAssumption ==
  /\ Absent \notin Find!Statuses \cup Find!Accounts \cup Categories \cup Tags \cup {Blank}
  /\ Guest \notin Find!Accounts \cup {Absent}
  /\ Index \subseteq Find!Document

ASSUME ConfigAssumption ==
  /\ "secret" \in Fields["ai"] /\ "secret" \notin Fields["site"]
  /\ NoRow \notin Site!Configuration
  /\ {KeepDays, MaxDay} \subseteq Nat

ASSUME SignUpAssumption == MaxFail \in Nat \ {0} /\ MaxName \in Nat

ASSUME ScoringAssumption ==
  /\ {MaxChars, Prefix, SmallLimit, MaxIssues} \subseteq Nat /\ MaxChars > Prefix + SmallLimit
  /\ \A p \in Papers : p.paragraphs \in Seq(Nat)
  /\ IsFiniteSet(Names) /\ Names # {} /\ Expository \in Types /\ Failure \notin Types
  /\ Weights \in [Types -> [Names -> Nat]] /\ \A t \in Types : \E n \in Names : Weights[t][n] > 0
  /\ \A reply \in Replies :
       /\ reply.issues \in Nat /\ \A n \in DOMAIN reply.dims : reply.dims[n] \in Int
       /\ \A type \in Types \cup {Failure} : Score!NormalizeFinal(reply, type) # Failure

artVars ==
  <<skipExamining, article, live, dead, tag, tagged, missed, pin, rowLock, eased, binlog, doc,
    artReq, artRaced>>
searchVars == <<searchAsked, answer>>
confVars == <<stored, config, cache, shared, edit, committed, asked, raced>>
flowVars == <<day, total, daily, visit, seen>>
signVars == <<users, profiles, stamped, seq, window, codes, mails, letIn, signReq>>
scoreVars == <<paper, chunks, pc, kind, sent, said, result>>
siteVars == <<confVars, flowVars>>

(* Bound: two articles are there only to be pinned, and no others are; the  *)
(* cache answers no check of the administrator; tags do not meet rejected   *)
(* articles, nor a site without examination; a search is for a status, and  *)
(* a list of tags, of each kind.                                           *)
FewArticles ==
  /\ eased \subseteq Authors
  /\ (\E t \in Tags : tag[t] # "absent") =>
       ~skipExamining /\ \A a \in DOMAIN article : article[a].status # "rejected"
  /\ IF Len(article) = 2
     THEN /\ \A t \in Tags : tag[t] = "absent"
          /\ \A a \in 1..2 : article[a].status = "published"
          /\ \A r \in Reqs : artReq[r].pc # "update"
     ELSE pin = {} /\ \A r \in Reqs : artReq[r].pc \notin {"lock", "pin"}

FewSearches ==
  /\ searchAsked.request.status \in {Absent, "draft", "published", "deleted"}
  /\ searchAsked.request.tags \in {{}, {Blank}, Tags \cup {Blank}}

AnyRequest ==
  [type |-> 1, status |-> Absent, user |-> Absent, tags |-> {}, category |-> Absent,
   top |-> FALSE, key |-> FALSE]

AllInit ==
  /\ part \in {"sessions", "articles", "search", "config", "flow", "signup", "scoring"}
  /\ Init
  /\ IF part = "articles" THEN Art!ArtInit
     ELSE /\ skipExamining = FALSE /\ article = << >> /\ tag = [t \in Tags |-> "absent"]
          /\ Art!ArtInit
  /\ IF part = "search" THEN Find!SearchInit /\ FewSearches
     ELSE searchAsked = [request |-> AnyRequest, by |-> Guest] /\ answer = [state |-> "none"]
  /\ Site!SiteInit
  /\ Sign!SignInit
  /\ part # "scoring" => paper = [paragraphs |-> << >>, blank |-> 0]
  /\ Score!ScoringInit

AllNext ==
  /\ UNCHANGED part
  /\ \/ part = "sessions" /\ Next
        /\ UNCHANGED <<artVars, searchVars, siteVars, signVars, scoreVars>>
     \/ part = "articles" /\ Art!ArtNext /\ FewArticles'
        /\ UNCHANGED <<vars, searchVars, siteVars, signVars, scoreVars>>
     \/ part = "search" /\ Find!SearchNext
        /\ UNCHANGED <<vars, artVars, siteVars, signVars, scoreVars>>
     \/ part = "config" /\ Site!ConfNext
        /\ UNCHANGED <<vars, artVars, searchVars, flowVars, signVars, scoreVars>>
     \/ part = "flow" /\ Site!FlowNext
        /\ UNCHANGED <<vars, artVars, searchVars, confVars, signVars, scoreVars>>
     \/ part = "signup" /\ Sign!SignNext
        /\ UNCHANGED <<vars, artVars, searchVars, siteVars, scoreVars>>
     \/ part = "scoring" /\ Score!ScoringNext
        /\ UNCHANGED <<vars, artVars, searchVars, siteVars, signVars>>

AllSpec == AllInit /\ [][AllNext]_<<part, vars, artVars, searchVars, siteVars, signVars, scoreVars>>

(* Every variable of the part that moves has its type.                     *)
TypesOK ==
  CASE part = "sessions" -> TypeOK
    [] part = "articles" -> Art!ArtTypeOK
    [] part = "search" -> Find!SearchTypeOK
    [] part \in {"config", "flow"} -> Site!SiteTypeOK
    [] part = "signup" -> Sign!SignTypeOK
    [] part = "scoring" -> Score!ScoringTypeOK

(* Articles: a user whose checks reached the database has no more pins     *)
(* than the limit.                                                         *)
LockedPinLimit == Art!LockedPinLimit

(* Articles: a tag shows as many articles as have it.                      *)
TagsCounted == part = "articles" => Art!TagsCounted

(* Search: who is refused, what is found and what is pushed up.            *)
SearchFollowsRules == part = "search" => Find!SearchFollowsRules

(* SiteConfig: the configuration in force is the one that was saved, and   *)
(* the visits of the last days are those that were counted.                *)
SiteKept ==
  /\ part = "config" => Site!ConfigKept
  /\ part = "flow" => Site!FlowKept

(* SignUp: codes are good for one use, accounts are whole.                 *)
SignUpsSound == part = "signup" => Sign!SignUpsSound

(* Scoring: an article is read whole and its score follows the replies.    *)
ScoringSound == part = "scoring" => Score!ScoringSound
=============================================================================
