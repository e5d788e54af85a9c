-------------------------------- MODULE River --------------------------------
(* service/river_service: rows of MySQL follow the binlog into an index of *)
(* Elasticsearch.  The canal goroutine turns row events into bulk requests *)
(* and sends them, and positions, through syncCh; syncLoop collects the    *)
(* requests, flushes them, and saves the position to master.yaml, from     *)
(* which the next start resumes.  MySQL, the canal library and             *)
(* Elasticsearch are external.                                             *)
EXTENDS Naturals, Sequences, FiniteSets, SequencesExt

CONSTANTS
  Ids,        \* primary keys
  Cols,       \* columns of the table
  Vals,       \* values of a column
  Rows,       \* the rows the table may hold
  ConfRules,  \* rules that settings.yaml may have for the table
  None,       \* no row, no document
  NoPos,      \* master.yaml is absent
  Torn,       \* master.yaml holds part of an encoding
  BulkSize,   \* bulk_size: requests that force a flush
  ChanCap,    \* capacity of syncCh
  MaxLog,     \* bound: binlog entries
  MaxFaults   \* bound: crashes, failed requests, failed writes, lost connections

ASSUME RiverAssumption ==
  /\ IsFiniteSet(Ids)
  /\ Rows \subseteq [Cols -> Vals]
  /\ \A conf \in ConfRules : conf \in [wild : BOOLEAN, piped : BOOLEAN, filter : SUBSET Cols]
  /\ None \notin Rows /\ \A cols \in SUBSET Cols : None \notin [cols -> Vals]
  /\ NoPos \notin Nat /\ Torn \notin Nat /\ NoPos # Torn
  /\ ChanCap \in Nat \ {0} /\ MaxFaults \in Nat

VARIABLES
  rule,       \* the rule of the table, as NewRiver prepares it (fixed)
  table,      \* MySQL: the rows
  log,        \* MySQL: the binlog
  canal,      \* "on", or "off": RunFrom has returned or the process is down
  cursor,     \* how much of the binlog the canal has read
  syncCh,     \* messages on their way to syncLoop
  cancelled,  \* the context of the River is cancelled
  loop,       \* where syncLoop is: "off" when it has returned
  reqs,       \* requests collected since the last flush
  savePos,    \* the position to save after this flush, or NoPos
  recent,     \* less than 3 s since syncLoop last took up a position
  master,     \* masterInfo in memory
  file,       \* master.yaml
  fresh,      \* less than 1 s since master.yaml was written
  index,      \* Elasticsearch: the documents
  damaged,    \* history: ids of which the index was told wrong or not at all
  faults

logVars  == <<table, log>>
loopVars == <<loop, reqs, savePos, recent>>
saveVars == <<master, file, fresh>>
riverVars == <<rule, logVars, canal, cursor, syncCh, cancelled, loopVars, saveVars,
               index, damaged, faults>>

(***************************************************************************)
(* prepareRule.  A rule for a table of its own is taken as configured; a   *)
(* rule with a wildcard hands the tables it matches neither its filter nor *)
(* its pipeline.                                                           *)
(***************************************************************************)
PrepareRule(conf) ==
  IF conf.wild THEN [piped |-> FALSE, filter |-> Cols]
  ELSE [piped |-> conf.piped, filter |-> conf.filter]

Doc(row) == [c \in rule.filter |-> row[c]]    \* the columns the filter lets through

(***************************************************************************)
(* Bulk requests.                                                          *)
(***************************************************************************)
ReqData(before, after) ==          \* the columns that differ
  [c \in {d \in rule.filter : before[d] # after[d]} |-> after[c]]

Index(at, id, row) == [at |-> at, op |-> "index", id |-> id, doc |-> Doc(row)]
Delete(at, id)     == [at |-> at, op |-> "delete", id |-> id, doc |-> <<>>]

ReqsOf(e, at) ==
  CASE e.before = None                  -> <<Index(at, e.to, e.after)>>
    [] e.after = None                   -> <<Delete(at, e.id)>>
    [] e.before # None /\ e.after # None ->
         CASE e.id # e.to -> <<Delete(at, e.id), Index(at, e.to, e.after)>>
           [] e.id = e.to /\ rule.piped -> <<Index(at, e.to, e.after)>>
           [] e.id = e.to /\ ~rule.piped ->
                <<[at |-> at, op |-> "update", id |-> e.id, doc |-> ReqData(e.before, e.after)]>>

(* One item of the request; an update of an absent document answers 404.  *)
Applied(docs, r) ==
  CASE r.op = "index"  -> [docs EXCEPT ![r.id] = r.doc]
    [] r.op = "delete" -> [docs EXCEPT ![r.id] = None]
    [] r.op = "update" /\ docs[r.id] = None -> docs
    [] r.op = "update" /\ docs[r.id] # None ->
         [docs EXCEPT ![r.id] = [c \in DOMAIN @ |-> IF c \in DOMAIN r.doc THEN r.doc[c] ELSE @[c]]]

(* A bulk request: the items one by one.  A refused item leaves its         *)
(* document wrong until it is replaced whole.                              *)
Refuse(es, r) == [es EXCEPT !.damaged = @ \cup {r.id}]

Accept(es, r) ==
  [docs    |-> Applied(es.docs, r),
   damaged |-> IF r.op = "update" THEN es.damaged ELSE es.damaged \ {r.id}]

Bulk(es, items, refused) ==
  FoldLeftDomain(LAMBDA e, n : IF n \in refused THEN Refuse(e, items[n]) ELSE Accept(e, items[n]),
                 es, items)

IndexOf(rows) == [i \in Ids |-> IF rows[i] = None THEN None ELSE Doc(rows[i])]

-----------------------------------------------------------------------------
(* A first start with a table that may hold rows, or a start that resumes. *)
Init ==
  /\ rule \in {PrepareRule(conf) : conf \in ConfRules}
  /\ table \in [Ids -> Rows \cup {None}]
  /\ log = <<>>
  /\ \/ file = NoPos /\ index = [i \in Ids |-> None]
     \/ file = 0 /\ index = IndexOf(table)
  /\ canal = "off" /\ loop = "off" /\ cancelled = FALSE
  /\ cursor = 0 /\ syncCh = <<>> /\ reqs = <<>> /\ savePos = NoPos
  /\ recent = FALSE /\ fresh = FALSE /\ master = NoPos
  /\ damaged = {} /\ faults = 0

Fault == faults < MaxFaults /\ faults' = faults + 1

(***************************************************************************)
(* MySQL.  A transaction is a row event and its XID; a DDL statement (or a *)
(* rotation) is an entry of its own.                                       *)
(***************************************************************************)
Commit(i, j, row) ==
  /\ Len(log) + 2 <= MaxLog
  /\ table[i] # row \/ i # j
  /\ i # j => table[i] # None /\ table[j] = None /\ row # None
  /\ table' = [table EXCEPT ![i] = None, ![j] = row]
  /\ log' = log \o <<[kind |-> "row", id |-> i, to |-> j, before |-> table[i], after |-> row],
                     [kind |-> "xid"]>>
  /\ UNCHANGED <<rule, canal, cursor, syncCh, cancelled, loopVars, saveVars, index, damaged, faults>>

Alter ==
  /\ Len(log) < MaxLog
  /\ log' = Append(log, [kind |-> "ddl"])
  /\ UNCHANGED <<rule, table, canal, cursor, syncCh, cancelled, loopVars, saveVars, index, damaged, faults>>

(***************************************************************************)
(* The process starts: NewRiver reads master.yaml (a torn file is fatal),  *)
(* Run starts syncLoop and the canal.  Without a position the canal first  *)
(* dumps the table as inserts; rows deleted while nobody listened leave    *)
(* their documents behind.                                                 *)
(***************************************************************************)
Present == {i \in Ids : table[i] # None}

Dump(order) ==
  IF Present = {} THEN <<>>
  ELSE <<[kind |-> "reqs", at |-> Len(log),
          reqs |-> [n \in DOMAIN order |-> Index(Len(log), order[n], table[order[n]])]]>>

Start ==
  /\ canal = "off" /\ loop = "off" /\ file # Torn
  /\ master' = file
  /\ canal' = "on" /\ loop' = "select" /\ cancelled' = FALSE
  /\ reqs' = <<>> /\ savePos' = NoPos
  /\ recent' = TRUE /\ fresh' = TRUE
  /\ IF file = NoPos
     THEN /\ cursor' = Len(log)
          /\ \E order \in SetToSeqs(Present) : syncCh' = Dump(order)
          /\ damaged' = {i \in Ids : table[i] = None /\ index[i] # None}
     ELSE cursor' = file /\ syncCh' = <<>> /\ UNCHANGED damaged
  /\ UNCHANGED <<rule, logVars, file, index, faults>>

Crash ==
  /\ canal = "on" \/ loop # "off"
  /\ canal' = "off" /\ loop' = "off" /\ syncCh' = <<>> /\ reqs' = <<>> /\ savePos' = NoPos
  /\ cursor' = 0 /\ master' = NoPos /\ cancelled' = FALSE /\ recent' = FALSE /\ fresh' = FALSE
  /\ Fault
  /\ UNCHANGED <<rule, logVars, file, index, damaged>>

(***************************************************************************)
(* The canal's handler.  A send blocks while the channel is full; every    *)
(* handler then returns the context's error, which ends RunFrom.           *)
(***************************************************************************)
Message(e, at) ==
  IF e.kind = "row" THEN [kind |-> "reqs", at |-> at, reqs |-> ReqsOf(e, at)]
  ELSE [kind |-> "pos", at |-> at, force |-> e.kind = "ddl"]

Handle ==                                \* OnRow, OnXID, OnDDL, OnRotate
  /\ canal = "on" /\ cursor < Len(log) /\ Len(syncCh) < ChanCap
  /\ cursor' = cursor + 1
  /\ syncCh' = Append(syncCh, Message(log[cursor + 1], cursor + 1))
  /\ canal' = IF cancelled THEN "off" ELSE "on"
  /\ UNCHANGED <<rule, logVars, cancelled, loopVars, saveVars, index, damaged, faults>>

OnRowFails ==                            \* no request can be built: cancel
  /\ canal = "on" /\ cursor < Len(log) /\ log[cursor + 1].kind = "row"
  /\ cancelled' = TRUE /\ canal' = "off"
  /\ Fault
  /\ UNCHANGED <<rule, logVars, cursor, syncCh, loopVars, saveVars, index, damaged>>

RunFails ==                              \* RunFrom returns; syncLoop goes on
  /\ canal = "on"
  /\ canal' = "off"
  /\ Fault
  /\ UNCHANGED <<rule, logVars, cursor, syncCh, cancelled, loopVars, saveVars, index, damaged>>

(***************************************************************************)
(* syncLoop.                                                               *)
(***************************************************************************)
LoopFrame == UNCHANGED <<rule, logVars, canal, cursor>>

TakeReqs ==
  /\ loop = "select" /\ syncCh # <<>> /\ Head(syncCh).kind = "reqs"
  /\ reqs' = reqs \o Head(syncCh).reqs
  /\ loop' = IF Len(reqs') >= BulkSize THEN "flush" ELSE "select"
  /\ syncCh' = Tail(syncCh)
  /\ UNCHANGED <<cancelled, savePos, recent, saveVars, index, damaged, faults>> /\ LoopFrame

TakePosUnflushed ==                      \* mutant: the position is saved without a flush
  /\ loop = "select" /\ syncCh # <<>> /\ Head(syncCh).kind = "pos"
  /\ syncCh' = Tail(syncCh)
  /\ IF Head(syncCh).force \/ ~recent
     THEN recent' = TRUE /\ savePos' = Head(syncCh).at /\ loop' = "save"
     ELSE UNCHANGED <<recent, savePos, loop>>
  /\ UNCHANGED <<cancelled, reqs, saveVars, index, damaged, faults>> /\ LoopFrame

TakePos ==
  /\ loop = "select" /\ syncCh # <<>> /\ Head(syncCh).kind = "pos"
  /\ syncCh' = Tail(syncCh)
  /\ IF Head(syncCh).force \/ ~recent
     THEN recent' = TRUE /\ savePos' = Head(syncCh).at /\ loop' = "flush"
     ELSE UNCHANGED <<recent, savePos, loop>>        \* too early: dropped
  /\ UNCHANGED <<cancelled, reqs, saveVars, index, damaged, faults>> /\ LoopFrame

TickFull ==                              \* mutant: the ticker waits for a full bulk
  /\ loop = "select" /\ Len(reqs) >= BulkSize
  /\ loop' = "flush"
  /\ UNCHANGED <<syncCh, cancelled, reqs, savePos, recent, saveVars, index, damaged, faults>> /\ LoopFrame

Tick ==
  /\ loop = "select" /\ reqs # <<>>
  /\ loop' = "flush"
  /\ UNCHANGED <<syncCh, cancelled, reqs, savePos, recent, saveVars, index, damaged, faults>> /\ LoopFrame

Done ==                                  \* ctx.Done: what is collected is dropped
  /\ loop = "select" /\ cancelled
  /\ loop' = "off" /\ reqs' = <<>>
  /\ UNCHANGED <<syncCh, cancelled, savePos, recent, saveVars, index, damaged, faults>> /\ LoopFrame

Flushed(refused) ==
  /\ loop = "flush"
  /\ LET es == Bulk([docs |-> index, damaged |-> damaged], reqs, refused)
     IN  index' = es.docs /\ damaged' = es.damaged
  /\ reqs' = <<>>
  /\ loop' = IF savePos = NoPos THEN "select" ELSE "save"
  /\ UNCHANGED <<syncCh, cancelled, savePos, recent, saveVars>> /\ LoopFrame

DoBulk == Flushed({}) /\ UNCHANGED faults

(* Items or the whole request fail: doBulk logs it and returns nil.        *)
DoBulkFails ==
  /\ \E refused \in SUBSET DOMAIN reqs : refused # {} /\ Flushed(refused)
  /\ Fault

SaveStep == loop = "save" /\ master' = savePos /\ savePos' = NoPos

SaveThrottled ==
  /\ SaveStep /\ fresh
  /\ loop' = "select"
  /\ UNCHANGED <<syncCh, cancelled, reqs, recent, file, fresh, index, damaged, faults>> /\ LoopFrame

Save ==
  /\ SaveStep /\ ~fresh
  /\ file' = savePos /\ fresh' = TRUE /\ loop' = "select"
  /\ UNCHANGED <<syncCh, cancelled, reqs, recent, index, damaged, faults>> /\ LoopFrame

(* WriteFileAtomic cannot create, close or rename its file: an error.      *)
SaveFails ==
  /\ SaveStep /\ ~fresh
  /\ fresh' = TRUE /\ cancelled' = TRUE /\ loop' = "off" /\ reqs' = <<>>
  /\ Fault
  /\ UNCHANGED <<syncCh, recent, file, index, damaged>> /\ LoopFrame

(* WriteFileAtomic's Write fails: the else branch overwrites the error with *)
(* that of Chmod, and the part that was written replaces the good file.    *)
SaveTears ==
  /\ SaveStep /\ ~fresh
  /\ file' = Torn /\ fresh' = TRUE /\ loop' = "select"
  /\ Fault
  /\ UNCHANGED <<syncCh, cancelled, reqs, recent, index, damaged>> /\ LoopFrame

Later ==                                 \* seconds pass
  /\ loop # "off"
  /\ \/ recent /\ recent' = FALSE /\ UNCHANGED fresh
     \/ fresh /\ fresh' = FALSE /\ UNCHANGED recent
  /\ UNCHANGED <<rule, logVars, canal, cursor, syncCh, cancelled, loop, reqs, savePos,
                 master, file, index, damaged, faults>>

River == Handle \/ TakeReqs \/ TakePos \/ Tick \/ Done \/ DoBulk \/ SaveThrottled \/ Save

Next ==
  \/ \E i, j \in Ids, row \in Rows \cup {None} : Commit(i, j, row)
  \/ Alter \/ Start \/ Crash
  \/ River \/ Later
  \/ OnRowFails \/ RunFails \/ DoBulkFails \/ SaveFails \/ SaveTears

Spec == Init /\ [][Next]_riverVars

-----------------------------------------------------------------------------
TypeOK ==
  /\ cancelled \in BOOLEAN /\ recent \in BOOLEAN /\ fresh \in BOOLEAN
  /\ table \in [Ids -> Rows \cup {None}] /\ index \in [Ids -> [rule.filter -> Vals] \cup {None}]
  /\ cursor \in 0 .. Len(log) /\ Len(syncCh) <= ChanCap
  /\ canal \in {"on", "off"} /\ loop \in {"off", "select", "flush", "save"}
  /\ savePos \in {NoPos} \cup 1 .. Len(log)
  /\ master \in {NoPos} \cup 0 .. Len(log)
  /\ file \in {NoPos, Torn} \cup 0 .. Len(log)
  /\ damaged \subseteq Ids /\ faults \in 0 .. MaxFaults

(* A position that has reached the file (or is about to) lies behind every *)
(* request that is still on its way: resuming there skips nothing.  The    *)
(* order of flush and save in syncLoop is what keeps this.                 *)
Saved == ({master, file} \cup (IF loop = "save" THEN {savePos} ELSE {})) \ {NoPos, Torn}

SavedIsFlushed ==
  \A p \in Saved :
    /\ canal = "on" => p <= cursor
    /\ \A n \in DOMAIN reqs : p < reqs[n].at
    /\ \A n \in DOMAIN syncCh : syncCh[n].kind = "reqs" => p < syncCh[n].at

(* The River has nothing left to do.                                       *)
Caught ==
  /\ canal = "on" /\ loop = "select" /\ cursor = Len(log)
  /\ syncCh = <<>> /\ reqs = <<>>

(* Whenever the River has nothing left to do, the index holds the table,   *)
(* but for the ids a failed bulk item or a dump after a lost position has  *)
(* left wrong: crashes, replays and throttled positions lose no row.       *)
IndexIsTable == Caught => \A i \in Ids \ damaged : index[i] = IndexOf(table)[i]

(* The steps the process's goroutines take on their own; the ticker and    *)
(* the clock go on by themselves.                                          *)
Fairness == WF_riverVars(River) /\ WF_riverVars(Later)

(* While the River runs, it catches up with the binlog.                    *)
CatchesUp == <>[](canal = "on" /\ loop # "off") => <>[]Caught
=============================================================================
