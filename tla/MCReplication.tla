---------------------------- MODULE MCReplication ----------------------------
(* The two copies of the database, side by side: the index behind the       *)
(* binlog and the query cache in front.  They share no variable, so one of  *)
(* them moves at a time.                                                   *)
EXTENDS River

CONSTANTS
  Readers, Writers, Absent    \* QueryCache

VARIABLES
  part,
  row, entry, reader, writer

Cache == INSTANCE QueryCache

cacheVars == <<row, entry, reader, writer>>
allVars == <<part, riverVars, cacheVars>>

MCCols == {"title", "deleted_at"}
MCRows == {[title |-> 1, deleted_at |-> 0], [title |-> 2, deleted_at |-> 0], [title |-> 1, deleted_at |-> 1]}
MCRules == {[wild |-> FALSE, piped |-> p, filter |-> {"title"}] : p \in BOOLEAN}
           \cup {[wild |-> TRUE, piped |-> TRUE, filter |-> {"title"}]}

(* Bound: one article at first, and no more than one DDL statement.        *)
Bounded == Cardinality({n \in DOMAIN log : log[n].kind = "ddl"}) <= 1

CopiesInit ==
  /\ part \in {"river", "cache"}
  /\ Init /\ table[1] = [title |-> 1, deleted_at |-> 0] /\ table[2] = None
  /\ part # "river" => ~rule.piped /\ rule.filter = {"title"}
  /\ Cache!Init

InRiver(A) == part = "river" /\ A /\ Bounded' /\ UNCHANGED <<part, cacheVars>>
InCache(A) == part = "cache" /\ A /\ UNCHANGED <<part, riverVars>>

CopiesNext == InRiver(Next) \/ InCache(Cache!Next)

(* The fairness of each module, for the steps of the whole.                *)
CopiesFairness ==
  /\ WF_allVars(InRiver(River)) /\ WF_allVars(InRiver(Later))
  /\ \A r \in Readers : WF_allVars(InCache(Cache!ReadStep(r) /\ reader[r].pc # "idle"))
  /\ \A w \in Writers : WF_allVars(InCache(Cache!Commit(w)))
  /\ WF_allVars(InCache(Cache!Expire))

CopiesSpec == CopiesInit /\ [][CopiesNext]_allVars /\ CopiesFairness

(* Every variable of the part that moves has its type; whatever is cached  *)
(* was committed once.                                                     *)
TypesOK ==
  CASE part = "river" -> TypeOK
    [] part = "cache" -> Cache!TypeOK /\ Cache!CachedWasCommitted

(* QueryCache: staleness ends with the entry and does not come back.       *)
StaleEntriesExpire == part = "cache" => Cache!StaleEntriesExpire
=============================================================================
