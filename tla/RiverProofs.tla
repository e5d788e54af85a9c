----------------------------- MODULE RiverProofs -----------------------------
(***************************************************************************)
(* Proofs about River: a position that has reached master.yaml, or is      *)
(* about to, lies behind every request that is still on its way; and the   *)
(* index holds the table once nothing is on its way any more.  And about   *)
(* QueryCache beside it, that what is cached was committed.                *)
(***************************************************************************)
EXTENDS MCReplication, FiniteSetTheorems, SequenceTheorems, WellFoundedInduction, TLAPS

USE RiverAssumption DEF RiverAssumption

Entries ==
       {e \in [kind : {"row"}, id : Ids, to : Ids, before : Rows \cup {None}, after : Rows \cup {None}] :
          /\ e.before # None \/ e.after # None
          /\ e.id # e.to => e.before # None /\ e.after # None}
  \cup [kind : {"xid", "ddl"}]

Docs == {<<>>} \cup UNION {[cols -> Vals] : cols \in SUBSET Cols}

Requests == [at : Nat, op : {"index", "update", "delete"}, id : Ids, doc : Docs]

Messages ==
       [kind : {"reqs"}, at : Nat, reqs : Seq(Requests)]
  \cup [kind : {"pos"}, at : Nat, force : BOOLEAN]

(* The types of what the position of the binlog depends on: all the        *)
(* variables of the module but the documents of the index.                 *)
Typed ==
  /\ rule \in [piped : BOOLEAN, filter : SUBSET Cols]
  /\ table \in [Ids -> Rows \cup {None}]
  /\ log \in Seq(Entries)
  /\ canal \in {"on", "off"} /\ loop \in {"off", "select", "flush", "save"}
  /\ cancelled \in BOOLEAN /\ recent \in BOOLEAN /\ fresh \in BOOLEAN
  /\ cursor \in Nat
  /\ syncCh \in Seq(Messages)
  /\ reqs \in Seq(Requests)
  /\ savePos \in {NoPos} \cup Nat
  /\ master \in {NoPos} \cup Nat
  /\ file \in {NoPos, Torn} \cup Nat
  /\ faults \in 0 .. MaxFaults

(* What is in the channel comes from the part of the binlog that was read, *)
(* in its order; what was collected comes from before it.                  *)
InOrder ==
  /\ \A n \in DOMAIN reqs : reqs[n].at <= cursor
  /\ \A m \in DOMAIN syncCh :
       /\ syncCh[m].at <= cursor
       /\ \A k \in DOMAIN syncCh : m < k => syncCh[m].at < syncCh[k].at
       /\ \A n \in DOMAIN reqs : reqs[n].at < syncCh[m].at
       /\ syncCh[m].kind = "reqs" =>
            \A n \in DOMAIN syncCh[m].reqs : syncCh[m].reqs[n].at = syncCh[m].at

(* The positions in memory, in the file and on their way there.            *)
Positions == {master, file, savePos} \ {NoPos, Torn}

PositionsBehind ==
  \A p \in Positions :
    /\ canal = "on" \/ loop # "off" => p <= cursor
    /\ \A m \in DOMAIN syncCh : p < syncCh[m].at
    /\ p \in {master, file} \/ loop = "save" => \A n \in DOMAIN reqs : p < reqs[n].at

LoopKeepsPos ==
  /\ loop \in {"off", "select"} => savePos = NoPos
  /\ loop = "save" => reqs = <<>> /\ savePos # NoPos

(* No position lies beyond the end of the binlog. *)
Within == cursor <= Len(log) /\ \A p \in Positions : p <= Len(log)

Inv == Typed /\ InOrder /\ PositionsBehind /\ LoopKeepsPos /\ Within

-----------------------------------------------------------------------------
(* Lemmas about the requests and messages the canal's handlers build. *)

(* The columns the filter lets through are a document. *)
LEMMA DocTyped ==
  ASSUME rule \in [piped : BOOLEAN, filter : SUBSET Cols], NEW r \in Rows
  PROVE  Doc(r) \in Docs
<1>1. rule.filter \in SUBSET Cols /\ r \in [Cols -> Vals]
  OBVIOUS
<1>2. Doc(r) \in [rule.filter -> Vals]
  BY <1>1 DEF Doc
<1> QED
  BY <1>1, <1>2 DEF Docs

LEMMA IndexTyped ==
  ASSUME rule \in [piped : BOOLEAN, filter : SUBSET Cols], NEW r \in Rows,
         NEW at \in Nat, NEW i \in Ids
  PROVE  Index(at, i, r) \in Requests /\ Index(at, i, r).at = at
BY DocTyped DEF Index, Requests

LEMMA DeleteTyped ==
  ASSUME NEW at \in Nat, NEW i \in Ids
  PROVE  Delete(at, i) \in Requests /\ Delete(at, i).at = at
<1>1. <<>> \in Docs
  BY DEF Docs
<1> HIDE DEF Docs
<1> QED
  BY <1>1 DEF Delete, Requests

(* A row event becomes requests that carry its position in the binlog. *)
LEMMA ReqsOfEvent ==
  ASSUME rule \in [piped : BOOLEAN, filter : SUBSET Cols],
         NEW e \in Entries, e.kind = "row", NEW at \in Nat
  PROVE  /\ ReqsOf(e, at) \in Seq(Requests)
         /\ \A n \in DOMAIN ReqsOf(e, at) : ReqsOf(e, at)[n].at = at
<1>1. /\ e.id \in Ids /\ e.to \in Ids
      /\ e.before \in Rows \cup {None} /\ e.after \in Rows \cup {None}
      /\ e.before # None \/ e.after # None
  BY DEF Entries
<1>2. ASSUME NEW r \in Requests, r.at = at
      PROVE  <<r>> \in Seq(Requests) /\ \A n \in DOMAIN <<r>> : <<r>>[n].at = at
  BY <1>2
<1>3. CASE e.before = None
  <2>1. ReqsOf(e, at) = <<Index(at, e.to, e.after)>> /\ e.after \in Rows
    BY <1>1, <1>3 DEF ReqsOf
  <2> QED
    BY <1>1, <1>2, <2>1, IndexTyped
<1>4. CASE e.before # None /\ e.after = None
  <2>1. ReqsOf(e, at) = <<Delete(at, e.id)>>
    BY <1>1, <1>4 DEF ReqsOf
  <2> QED
    BY <1>1, <1>2, <2>1, DeleteTyped
<1>5. CASE e.before # None /\ e.after # None /\ e.id # e.to
  <2>1. ReqsOf(e, at) = <<Delete(at, e.id), Index(at, e.to, e.after)>> /\ e.after \in Rows
    BY <1>1, <1>5 DEF ReqsOf
  <2> DEFINE a == Delete(at, e.id)
             b == Index(at, e.to, e.after)
  <2>2. a \in Requests /\ b \in Requests /\ a.at = at /\ b.at = at
    BY <1>1, <2>1, DeleteTyped, IndexTyped
  <2> HIDE DEF a, b
  <2>3. <<a, b>> \in Seq(Requests) /\ \A n \in DOMAIN <<a, b>> : <<a, b>>[n].at = at
    BY <2>2
  <2> QED
    BY <2>1, <2>3 DEF a, b
<1>6. CASE e.before # None /\ e.after # None /\ e.id = e.to
  <2> DEFINE u == [at |-> at, op |-> "update", id |-> e.id, doc |-> ReqData(e.before, e.after)]
  <2>1. ReqsOf(e, at) = IF rule.piped THEN <<Index(at, e.to, e.after)>> ELSE <<u>>
    BY <1>1, <1>6 DEF ReqsOf
  <2>2. e.before \in [Cols -> Vals] /\ e.after \in [Cols -> Vals] /\ e.after \in Rows
    BY <1>1, <1>6
  <2>3. ReqData(e.before, e.after) \in Docs
    <3> DEFINE cols == {c \in rule.filter : e.before[c] # e.after[c]}
    <3>1. cols \in SUBSET Cols
      OBVIOUS
    <3>2. ReqData(e.before, e.after) \in [cols -> Vals]
      BY <2>2, <3>1 DEF ReqData
    <3> QED
      BY <3>1, <3>2 DEF Docs
  <2>4. u \in Requests /\ u.at = at
    BY <1>1, <2>3 DEF Requests
  <2> HIDE DEF u
  <2> QED
    BY <1>1, <1>2, <2>1, <2>2, <2>4, IndexTyped
<1> QED
  BY <1>3, <1>4, <1>5, <1>6

LEMMA MessageOfEntry ==
  ASSUME rule \in [piped : BOOLEAN, filter : SUBSET Cols],
         NEW e \in Entries, NEW at \in Nat
  PROVE  /\ Message(e, at) \in Messages
         /\ Message(e, at).at = at
         /\ Message(e, at).kind = "reqs" =>
              \A n \in DOMAIN Message(e, at).reqs : Message(e, at).reqs[n].at = at
<1>1. CASE e.kind = "row"
  BY <1>1, ReqsOfEvent DEF Message, Messages
<1>2. CASE e.kind # "row"
  BY <1>2 DEF Message, Messages
<1> QED
  BY <1>1, <1>2

(* The dump of the table is one message, at the end of the binlog. *)
LEMMA DumpTyped ==
  ASSUME Typed, NEW order \in SetToSeqs(Present)
  PROVE  /\ Dump(order) \in Seq(Messages)
         /\ \A m \in DOMAIN Dump(order) :
              /\ m = 1 /\ Dump(order)[m].at = Len(log)
              /\ \A n \in DOMAIN Dump(order)[m].reqs : Dump(order)[m].reqs[n].at = Len(log)
<1>1. CASE Present = {}
  BY <1>1 DEF Dump
<1>2. CASE Present # {}
  <2>1. IsFiniteSet(Present)
    BY FS_Subset DEF Present
  <2>2. PICK len \in Nat : order \in [1 .. len -> Present]
    BY <2>1, FS_CardinalityType DEF SetToSeqs
  <2> DEFINE items == [n \in DOMAIN order |-> Index(Len(log), order[n], table[order[n]])]
  <2>3. \A n \in 1 .. len : items[n] \in Requests /\ items[n].at = Len(log)
    BY <2>2, IndexTyped DEF Typed, Present
  <2>4. DOMAIN items = 1 .. len /\ items \in Seq(Requests)
    BY <2>2, <2>3
  <2>5. Dump(order) = <<[kind |-> "reqs", at |-> Len(log), reqs |-> items]>>
    BY <1>2 DEF Dump
  <2> HIDE DEF items
  <2>6. Len(log) \in Nat
    BY DEF Typed
  <2> DEFINE m == [kind |-> "reqs", at |-> Len(log), reqs |-> items]
  <2>7. m \in Messages /\ m.at = Len(log) /\ m.reqs = items
    BY <2>4, <2>6 DEF Messages
  <2> HIDE DEF m
  <2> QED
    BY <2>3, <2>4, <2>5, <2>7 DEF m
<1> QED
  BY <1>1, <1>2

-----------------------------------------------------------------------------
(* Typing. *)

LEMMA EmptyTyped == <<>> \in Seq(Entries) /\ <<>> \in Seq(Messages) /\ <<>> \in Seq(Requests)
OBVIOUS

LEMMA InitTyped == Init => Typed
<1> SUFFICES ASSUME Init PROVE Typed
  OBVIOUS
<1>1. rule \in [piped : BOOLEAN, filter : SUBSET Cols]
  <2>1. PICK conf \in ConfRules : rule = PrepareRule(conf)
    BY DEF Init
  <2>2. conf \in [wild : BOOLEAN, piped : BOOLEAN, filter : SUBSET Cols]
    BY <2>1
  <2> QED
    BY <2>1, <2>2 DEF PrepareRule
<1> QED
  <2>1. 0 \in Nat /\ 0 \in 0 .. MaxFaults
    OBVIOUS
  <2> QED
    BY <1>1, <2>1, EmptyTyped, Zenon DEF Init, Typed

LEMMA StoreTyped ==
  ASSUME Typed,
         \/ \E i, j \in Ids, new \in Rows \cup {None} : Commit(i, j, new)
         \/ Alter
  PROVE  Typed' /\ Len(log) <= Len(log') /\ Len(log) \in Nat
<1>1. ASSUME NEW i \in Ids, NEW j \in Ids, NEW new \in Rows \cup {None}, Commit(i, j, new)
      PROVE  Typed' /\ Len(log) <= Len(log')
  <2> DEFINE e == [kind |-> "row", id |-> i, to |-> j, before |-> table[i], after |-> new]
             x == [kind |-> "xid"]
  <2>1. table[i] \in Rows \cup {None}
    BY DEF Typed
  <2>2. e \in Entries /\ x \in Entries
    BY <1>1, <2>1 DEF Commit, Entries
  <2>3. log' = log \o <<e, x>>
    BY <1>1 DEF Commit
  <2> HIDE DEF e, x
  <2>4. <<e, x>> \in Seq(Entries) /\ Len(<<e, x>>) = 2
    BY <2>2
  <2>5. log' \in Seq(Entries) /\ Len(log') = Len(log) + 2 /\ Len(log) \in Nat
    BY <2>3, <2>4, ConcatProperties DEF Typed
  <2>6. table' \in [Ids -> Rows \cup {None}]
    BY <1>1 DEF Commit, Typed
  <2>7. UNCHANGED <<rule, canal, cursor, syncCh, cancelled, loopVars, saveVars, faults>>
    BY <1>1 DEF Commit
  <2>8. UNCHANGED <<rule, canal, cursor, syncCh, cancelled, recent, fresh, loop, reqs, savePos, master, file, faults>>
    BY <2>7 DEF loopVars, saveVars
  <2> QED
    BY <2>5, <2>6, <2>8 DEF Typed
<1>2. CASE Alter
  <2> DEFINE d == [kind |-> "ddl"]
  <2>1. d \in Entries /\ log' = Append(log, d)
    BY <1>2 DEF Alter, Entries
  <2> HIDE DEF d
  <2>2. log' \in Seq(Entries) /\ Len(log') = Len(log) + 1 /\ Len(log) \in Nat
    BY <2>1, AppendProperties DEF Typed
  <2> QED
    BY <1>2, <2>2 DEF Alter, Typed, loopVars, saveVars
<1>3. Len(log) \in Nat
  BY DEF Typed
<1> QED
  BY <1>1, <1>2, <1>3

LEMMA CanalTyped ==
  ASSUME Typed, Start \/ Crash \/ Handle \/ OnRowFails \/ RunFails
  PROVE  Typed'
<1>0. Len(log) \in Nat
  BY DEF Typed
<1>1. CASE Start
  <2>1. syncCh' \in Seq(Messages)
    <3>1. CASE file = NoPos
      BY <1>1, <3>1, DumpTyped DEF Start
    <3>2. CASE file # NoPos
      BY <1>1, <3>2 DEF Start
    <3> QED
      BY <3>1, <3>2
  <2>2. cursor' \in Nat
    BY <1>0, <1>1 DEF Start, Typed
  <2> QED
    BY <1>1, <2>1, <2>2, EmptyTyped, Zenon DEF Start, Typed, logVars
<1>2. CASE Crash
  <2>1. 0 \in Nat /\ faults' \in 0 .. MaxFaults
    BY <1>2 DEF Crash, Fault, Typed
  <2> QED
    BY <1>2, <2>1, EmptyTyped, Zenon DEF Crash, Typed, logVars
<1>3. CASE Handle
  <2>1. log[cursor + 1] \in Entries /\ cursor + 1 \in Nat
    BY <1>0, <1>3 DEF Handle, Typed
  <2>2. syncCh' \in Seq(Messages)
    BY <1>3, <2>1, MessageOfEntry, AppendProperties DEF Handle, Typed
  <2> QED
    BY <1>3, <2>1, <2>2 DEF Handle, Typed, logVars, loopVars, saveVars
<1>4. CASE OnRowFails
  BY <1>4 DEF OnRowFails, Typed, logVars, loopVars, saveVars, Fault
<1>5. CASE RunFails
  BY <1>5 DEF RunFails, Typed, logVars, loopVars, saveVars, Fault
<1> QED
  BY <1>1, <1>2, <1>3, <1>4, <1>5

(* syncLoop takes the head of the channel. *)
LEMMA HeadTaken ==
  ASSUME Typed, syncCh # <<>>, syncCh' = Tail(syncCh)
  PROVE  /\ Head(syncCh) \in Messages /\ Head(syncCh) = syncCh[1] /\ 1 \in DOMAIN syncCh
         /\ syncCh' \in Seq(Messages)
         /\ \A m \in DOMAIN syncCh' : m + 1 \in DOMAIN syncCh /\ syncCh'[m] = syncCh[m + 1]
BY HeadTailProperties DEF Typed

LEMMA LoopTyped ==
  ASSUME Typed, TakeReqs \/ TakePos \/ Tick \/ Done \/ (\E refused : Flushed(refused))
  PROVE  /\ rule' = rule /\ table' = table /\ log' = log /\ canal' = canal /\ cursor' = cursor
         /\ loop' \in {"off", "select", "flush", "save"}
         /\ cancelled' \in BOOLEAN /\ recent' \in BOOLEAN
         /\ syncCh' \in Seq(Messages)
         /\ reqs' \in Seq(Requests)
         /\ savePos' \in {NoPos} \cup Nat
         /\ UNCHANGED <<cancelled, saveVars>>
<1> USE DEF LoopFrame, logVars
<1>1. CASE TakeReqs
  <2>1. Head(syncCh) \in Messages /\ syncCh' \in Seq(Messages)
    BY <1>1, HeadTaken DEF TakeReqs
  <2>2. Head(syncCh).reqs \in Seq(Requests)
    BY <1>1, <2>1 DEF TakeReqs, Messages
  <2> QED
    BY <1>1, <2>1, <2>2, ConcatProperties DEF TakeReqs, Typed
<1>2. CASE TakePos
  BY <1>2, HeadTaken DEF TakePos, Typed, Messages
<1>3. CASE Tick
  BY <1>3 DEF Tick, Typed
<1>5. CASE Done
  BY <1>5 DEF Done, Typed
<1>4. CASE \E refused : Flushed(refused)
  BY <1>4 DEF Flushed, Typed
<1> QED
  BY <1>1, <1>2, <1>3, <1>4, <1>5

LEMMA SaveTyped ==
  ASSUME Typed, loop = "save" => savePos # NoPos,
         SaveThrottled \/ Save \/ SaveFails \/ SaveTears
  PROVE  Typed'
<1> USE DEF SaveStep, LoopFrame, logVars
<1>1. faults' \in 0 .. MaxFaults
  BY DEF Typed, SaveThrottled, Save, SaveFails, SaveTears, Fault
<1>2. savePos \in Nat
  BY DEF Typed, SaveThrottled, Save, SaveFails, SaveTears
<1>3. CASE SaveThrottled
  BY <1>1, <1>2, <1>3, Zenon DEF SaveThrottled, Typed
<1>4. CASE Save
  BY <1>1, <1>2, <1>4, Zenon DEF Save, Typed
<1>5. CASE SaveFails
  BY <1>1, <1>2, <1>5, EmptyTyped, Zenon DEF SaveFails, Typed
<1>6. CASE SaveTears
  BY <1>1, <1>2, <1>6, Zenon DEF SaveTears, Typed
<1> QED
  BY <1>3, <1>4, <1>5, <1>6

LEMMA NextTyped ==
  ASSUME Typed, LoopKeepsPos, [Next]_riverVars
  PROVE  Typed'
<1>1. CASE \/ \E i, j \in Ids, new \in Rows \cup {None} : Commit(i, j, new)
           \/ Alter
  BY <1>1, StoreTyped
<1>2. CASE Start \/ Crash \/ Handle \/ OnRowFails \/ RunFails
  BY <1>2, CanalTyped
<1>3. CASE TakeReqs \/ TakePos \/ Tick \/ Done \/ DoBulk \/ DoBulkFails
  <2>1. faults' \in 0 .. MaxFaults
    BY <1>3 DEF TakeReqs, TakePos, Tick, Done, DoBulk, DoBulkFails, Typed, Fault
  <2>2. TakeReqs \/ TakePos \/ Tick \/ Done \/ \E refused : Flushed(refused)
    BY <1>3 DEF DoBulk, DoBulkFails
  <2> QED
    BY <2>1, <2>2, LoopTyped, Zenon DEF Typed, saveVars
<1>4. CASE SaveThrottled \/ Save \/ SaveFails \/ SaveTears
  BY <1>4, SaveTyped DEF LoopKeepsPos
<1>5. CASE Later
  BY <1>5 DEF Later, Typed, logVars
<1>6. CASE UNCHANGED riverVars
  BY <1>6 DEF riverVars, Typed, logVars, loopVars, saveVars
<1> QED
  BY <1>1, <1>2, <1>3, <1>4, <1>5, <1>6 DEF Next, River

-----------------------------------------------------------------------------
(* The order of the requests and of the positions. *)

(* A step that leaves the channel alone and collects nothing keeps them. *)
LEMMA OrderKept ==
  ASSUME InOrder, syncCh' = syncCh, cursor' = cursor, reqs' = reqs \/ reqs' = <<>>
  PROVE  InOrder'
BY DEF InOrder

LEMMA PositionsKept ==
  ASSUME PositionsBehind, Within,
         syncCh' = syncCh, cursor' = cursor, Len(log) <= Len(log'),
         Len(log) \in Nat, Len(log') \in Nat, cursor \in Nat, Positions \subseteq Nat,
         Positions' \subseteq Positions,
         canal' = canal \/ canal' = "off", loop = "off" => loop' = "off",
         \/ reqs' = <<>>
         \/ /\ reqs' = reqs
            /\ \A p \in Positions' : p \in {master, file}' \/ loop' = "save"
                                     => p \in {master, file} \/ loop = "save"
  PROVE  PositionsBehind' /\ Within'
<1>1. Within'
  BY DEF Within
<1>2. ASSUME NEW p \in Positions'
      PROVE  /\ canal' = "on" \/ loop' # "off" => p <= cursor'
             /\ \A m \in DOMAIN syncCh' : p < syncCh'[m].at
             /\ p \in {master, file}' \/ loop' = "save" => \A n \in DOMAIN reqs' : p < reqs'[n].at
  <2>1. p \in Positions
    OBVIOUS
  <2>2. canal' = "on" \/ loop' # "off" => p <= cursor'
    BY <2>1, Zenon DEF PositionsBehind
  <2>3. \A m \in DOMAIN syncCh' : p < syncCh'[m].at
    BY <2>1, Zenon DEF PositionsBehind
  <2>4. CASE reqs' = <<>>
    BY <2>2, <2>3, <2>4
  <2>5. CASE reqs' # <<>>
    BY <2>1, <2>2, <2>3, <2>5, Zenon DEF PositionsBehind
  <2> QED
    BY <2>4, <2>5
<1> QED
  BY <1>1, <1>2, Zenon DEF PositionsBehind

LEMMA InitInv == Init => Inv
<1> SUFFICES ASSUME Init PROVE Inv
  OBVIOUS
<1>1. InOrder
  BY DEF Init, InOrder
<1>2. PositionsBehind
  BY DEF Init, PositionsBehind, Positions
<1>3. LoopKeepsPos
  BY DEF Init, LoopKeepsPos
<1>4. Within
  BY DEF Init, Within, Positions
<1> QED
  BY <1>1, <1>2, <1>3, <1>4, InitTyped DEF Inv

(* MySQL's own steps, the clock, and a canal that stops. *)
LEMMA OthersKeepOrder ==
  ASSUME Inv,
         \/ \E i, j \in Ids, new \in Rows \cup {None} : Commit(i, j, new)
         \/ Alter \/ OnRowFails \/ RunFails \/ Later \/ UNCHANGED riverVars
  PROVE  InOrder' /\ PositionsBehind' /\ LoopKeepsPos' /\ Within'
<1> USE DEF Inv
<1>1. /\ syncCh' = syncCh /\ cursor' = cursor /\ loopVars' = <<loop, reqs, savePos, recent'>>
      /\ master' = master /\ file' = file
      /\ canal' = canal \/ canal' = "off"
  BY DEF Commit, Alter, OnRowFails, RunFails, Later, riverVars, loopVars, saveVars
<1>2. Len(log) <= Len(log') /\ Len(log) \in Nat /\ Len(log') \in Nat
  <2>1. log' = log \/ (\E i, j \in Ids, new \in Rows \cup {None} : Commit(i, j, new)) \/ Alter
    BY DEF OnRowFails, RunFails, Later, riverVars, logVars
  <2> QED
    BY <2>1, StoreTyped DEF Typed
<1>3. Positions \subseteq Nat /\ Positions' = Positions /\ cursor \in Nat
  BY <1>1 DEF Positions, Typed, loopVars
<1>4. LoopKeepsPos'
  BY <1>1 DEF LoopKeepsPos, loopVars
<1>5. loop' = loop /\ reqs' = reqs
  BY <1>1 DEF loopVars
<1> QED
  BY <1>1, <1>2, <1>3, <1>4, <1>5, OrderKept, PositionsKept

LEMMA StartKeepsOrder ==
  ASSUME Inv, Start
  PROVE  InOrder' /\ PositionsBehind' /\ LoopKeepsPos' /\ Within'
<1> USE DEF Inv
<1>1. /\ reqs' = <<>> /\ savePos' = NoPos /\ loop' = "select" /\ log' = log
      /\ master' = file /\ file' = file /\ file # Torn
  BY DEF Start, logVars
<1>2. Len(log) \in Nat
  BY DEF Typed
<1>3. CASE file = NoPos
  <2>1. PICK order \in SetToSeqs(Present) : syncCh' = Dump(order)
    BY <1>3 DEF Start
  <2>2. cursor' = Len(log)
    BY <1>3 DEF Start
  <2>3. \A m \in DOMAIN syncCh' :
          /\ m = 1 /\ syncCh'[m].at = Len(log)
          /\ \A n \in DOMAIN syncCh'[m].reqs : syncCh'[m].reqs[n].at = Len(log)
    BY <2>1, DumpTyped
  <2>4. InOrder'
    BY <1>1, <1>2, <2>2, <2>3 DEF InOrder
  <2>5. Positions' = {}
    BY <1>1, <1>3 DEF Positions
  <2> QED
    BY <1>1, <1>2, <2>2, <2>4, <2>5 DEF PositionsBehind, LoopKeepsPos, Within
<1>4. CASE file # NoPos
  <2>1. cursor' = file /\ syncCh' = <<>>
    BY <1>4 DEF Start
  <2>2. file \in Nat /\ Positions' = {file} /\ file \in Positions
    BY <1>1, <1>4 DEF Positions, Typed
  <2>3. file <= Len(log)
    BY <2>2, Zenon DEF Within
  <2> QED
    BY <1>1, <1>2, <2>1, <2>2, <2>3 DEF InOrder, PositionsBehind, LoopKeepsPos, Within
<1> QED
  BY <1>3, <1>4

LEMMA CrashKeepsOrder ==
  ASSUME Inv, Crash
  PROVE  InOrder' /\ PositionsBehind' /\ LoopKeepsPos' /\ Within'
<1>1. /\ syncCh' = <<>> /\ reqs' = <<>> /\ savePos' = NoPos /\ loop' = "off" /\ canal' = "off"
      /\ cursor' = 0 /\ master' = NoPos /\ file' = file /\ log' = log
  BY DEF Crash, logVars
<1>2. Positions' \subseteq Positions
  BY <1>1 DEF Positions
<1>3. Within'
  <2>1. cursor' <= Len(log)
    BY <1>1 DEF Inv, Typed
  <2> QED
    BY <1>1, <1>2, <2>1, Zenon DEF Within, Inv
<1> QED
  BY <1>1, <1>3 DEF InOrder, PositionsBehind, LoopKeepsPos

(* The canal reads on: the new message is behind all that is on its way,   *)
(* and behind every position. *)
LEMMA HandleKeepsOrder ==
  ASSUME Inv, Handle
  PROVE  InOrder' /\ PositionsBehind' /\ LoopKeepsPos' /\ Within'
<1> USE DEF Inv
<1> DEFINE at == cursor + 1
           msg == Message(log[at], at)
<1>1. /\ cursor' = at /\ syncCh' = Append(syncCh, msg)
      /\ loop' = loop /\ reqs' = reqs /\ savePos' = savePos
      /\ master' = master /\ file' = file /\ log' = log
      /\ canal = "on" /\ cursor < Len(log)
  BY DEF Handle, loopVars, saveVars, logVars
<1>2. cursor \in Nat /\ at \in Nat /\ Len(log) \in Nat /\ log[at] \in Entries
  BY <1>1 DEF Typed
<1>3. /\ msg \in Messages /\ msg.at = at
      /\ msg.kind = "reqs" => \A n \in DOMAIN msg.reqs : msg.reqs[n].at = at
  BY <1>2, MessageOfEntry DEF Typed
<1> HIDE DEF msg
<1>4. /\ DOMAIN syncCh' = (DOMAIN syncCh) \cup {Len(syncCh) + 1}
      /\ syncCh'[Len(syncCh) + 1] = msg
      /\ \A m \in DOMAIN syncCh : syncCh'[m] = syncCh[m] /\ m \in Nat /\ m < Len(syncCh) + 1
      /\ \A m \in DOMAIN syncCh : syncCh[m] \in Messages /\ syncCh[m].at \in Nat
  BY <1>1, <1>3, AppendProperties DEF Typed, Messages
<1>5. \A n \in DOMAIN reqs : reqs[n].at \in Nat
  <2>1. \A n \in DOMAIN reqs : reqs[n] \in Requests
    BY DEF Typed
  <2> QED
    BY <2>1 DEF Requests
<1>6. Positions \subseteq Nat /\ Positions' = Positions
  BY <1>1 DEF Positions, Typed
<1>7. InOrder'
  <2>3. \A n \in DOMAIN reqs' : reqs'[n].at <= cursor
    BY <1>1, Zenon DEF InOrder
  <2>4. \A n \in DOMAIN reqs' : reqs'[n].at <= cursor'
    BY <1>1, <1>2, <1>5, <2>3
  <2> SUFFICES ASSUME NEW m \in DOMAIN syncCh'
               PROVE  /\ syncCh'[m].at <= cursor'
                      /\ \A k \in DOMAIN syncCh' : m < k => syncCh'[m].at < syncCh'[k].at
                      /\ \A n \in DOMAIN reqs' : reqs'[n].at < syncCh'[m].at
                      /\ syncCh'[m].kind = "reqs" =>
                           \A n \in DOMAIN syncCh'[m].reqs : syncCh'[m].reqs[n].at = syncCh'[m].at
    BY <2>4, Zenon DEF InOrder
  <2>1. CASE m \in DOMAIN syncCh
    BY <1>1, <1>2, <1>3, <1>4, <1>5, <2>1 DEF InOrder
  <2>2. CASE m = Len(syncCh) + 1
    <3>1. syncCh'[m] = msg /\ \A k \in DOMAIN syncCh' : ~(m < k)
      BY <1>4, <2>2
    <3>2. \A n \in DOMAIN reqs' : reqs'[n].at < at
      BY <1>1, <1>2, <1>5, <2>3
    <3> QED
      BY <1>1, <1>2, <1>3, <3>1, <3>2
  <2> QED
    BY <1>4, <2>1, <2>2
<1>8. PositionsBehind'
  <2> SUFFICES ASSUME NEW p \in Positions
               PROVE  /\ canal' = "on" \/ loop' # "off" => p <= cursor'
                      /\ \A m \in DOMAIN syncCh' : p < syncCh'[m].at
                      /\ p \in {master, file}' \/ loop' = "save" => \A n \in DOMAIN reqs' : p < reqs'[n].at
    BY <1>6, Zenon DEF PositionsBehind
  <2>1. p \in Nat /\ p <= cursor
    BY <1>1, <1>6 DEF PositionsBehind
  <2>2. \A m \in DOMAIN syncCh : p < syncCh[m].at
    BY Zenon DEF PositionsBehind
  <2>3. \A m \in DOMAIN syncCh' : p < syncCh'[m].at
    BY <1>2, <1>3, <1>4, <2>1, <2>2
  <2>4. p \in {master, file}' \/ loop' = "save" => \A n \in DOMAIN reqs' : p < reqs'[n].at
    BY <1>1, Zenon DEF PositionsBehind
  <2> QED
    BY <1>1, <1>2, <2>1, <2>3, <2>4
<1>9. LoopKeepsPos'
  BY <1>1, Zenon DEF LoopKeepsPos
<1>10. Within'
  <2>1. cursor' <= Len(log)
    BY <1>1, <1>2
  <2> QED
    BY <1>1, <1>6, <2>1, Zenon DEF Within
<1> QED
  BY <1>7, <1>8, <1>9, <1>10

(* syncLoop collects the head of the channel: those requests come after    *)
(* every position, and before what is still in the channel. *)
LEMMA TakeReqsKeepsOrder ==
  ASSUME Inv, TakeReqs
  PROVE  InOrder' /\ PositionsBehind' /\ LoopKeepsPos' /\ Within'
<1> USE DEF Inv
<1> DEFINE head == syncCh[1]
<1>1. /\ cursor' = cursor /\ canal' = canal /\ log' = log /\ loop = "select" /\ loop' \in {"flush", "select"}
      /\ savePos' = savePos /\ master' = master /\ file' = file
      /\ syncCh # <<>> /\ syncCh' = Tail(syncCh)
  BY DEF TakeReqs, LoopFrame, logVars, saveVars
<1>2. /\ head \in Messages /\ 1 \in DOMAIN syncCh /\ head = Head(syncCh)
      /\ \A m \in DOMAIN syncCh' : m \in Nat /\ m + 1 \in DOMAIN syncCh /\ 1 < m + 1 /\ syncCh'[m] = syncCh[m + 1]
  BY <1>1, HeadTaken DEF Typed
<1>3. head.kind = "reqs" /\ head.reqs \in Seq(Requests) /\ reqs' = reqs \o head.reqs
  BY <1>2 DEF TakeReqs, Messages
<1> HIDE DEF head
<1>4. \A n \in DOMAIN reqs' :
        \/ n \in DOMAIN reqs /\ reqs'[n] = reqs[n]
        \/ \E k \in DOMAIN head.reqs : reqs'[n] = head.reqs[k]
  BY <1>3, ConcatProperties DEF Typed
<1>5. /\ \A n \in DOMAIN head.reqs : head.reqs[n].at = head.at
      /\ \A m \in DOMAIN syncCh : 1 < m => head.at < syncCh[m].at
  BY <1>2, <1>3, Zenon DEF InOrder, head
<1>6. InOrder'
  <2>1. \A m \in DOMAIN syncCh', n \in DOMAIN reqs' : reqs'[n].at < syncCh'[m].at
    <3> SUFFICES ASSUME NEW m \in DOMAIN syncCh', NEW n \in DOMAIN reqs'
                 PROVE  reqs'[n].at < syncCh'[m].at
      OBVIOUS
    <3>1. m + 1 \in DOMAIN syncCh /\ syncCh'[m] = syncCh[m + 1] /\ 1 < m + 1
      BY <1>2
    <3>2. head.at < syncCh[m + 1].at
      BY <1>5, <3>1, Zenon
    <3>3. CASE n \in DOMAIN reqs /\ reqs'[n] = reqs[n]
      BY <3>1, <3>3, Zenon DEF InOrder
    <3>4. CASE \E k \in DOMAIN head.reqs : reqs'[n] = head.reqs[k]
      BY <1>5, <3>1, <3>2, <3>4, Zenon
    <3> QED
      BY <1>4, <3>3, <3>4
  <2>2. \A m, k \in DOMAIN syncCh' : m < k => m + 1 < k + 1
    BY <1>2
  <2>3. \A n \in DOMAIN reqs' : reqs'[n].at <= cursor'
    <3>1. head.at <= cursor
      BY <1>2, Zenon DEF InOrder, head
    <3> QED
      BY <1>1, <1>4, <1>5, <3>1, Zenon DEF InOrder
  <2> SUFFICES ASSUME NEW m \in DOMAIN syncCh'
               PROVE  /\ syncCh'[m].at <= cursor'
                      /\ \A k \in DOMAIN syncCh' : m < k => syncCh'[m].at < syncCh'[k].at
                      /\ syncCh'[m].kind = "reqs" =>
                           \A n \in DOMAIN syncCh'[m].reqs : syncCh'[m].reqs[n].at = syncCh'[m].at
    BY <2>1, <2>3, Zenon DEF InOrder
  <2> QED
    <3>1. m + 1 \in DOMAIN syncCh /\ syncCh'[m] = syncCh[m + 1]
      BY <1>2
    <3>2. ASSUME NEW k \in DOMAIN syncCh', m < k
          PROVE  syncCh'[m].at < syncCh'[k].at
      <4>1. k + 1 \in DOMAIN syncCh /\ syncCh'[k] = syncCh[k + 1] /\ m + 1 < k + 1
        BY <1>2, <2>2, <3>2
      <4> QED
        BY <3>1, <4>1, Zenon DEF InOrder
    <3>3. \A n \in DOMAIN reqs : reqs[n].at < syncCh'[m].at
      BY <3>1, Zenon DEF InOrder
    <3>4. /\ syncCh[m + 1].at <= cursor
          /\ syncCh[m + 1].kind = "reqs" =>
               \A n \in DOMAIN syncCh[m + 1].reqs : syncCh[m + 1].reqs[n].at = syncCh[m + 1].at
      BY <3>1, Zenon DEF InOrder
    <3> QED
      BY <1>1, <3>1, <3>2, <3>3, <3>4
<1>7. Positions' = Positions
  BY <1>1 DEF Positions
<1>8. PositionsBehind'
  <2>1. \A p \in Positions : p < head.at
    BY <1>2, Zenon DEF PositionsBehind, head
  <2>2. savePos = NoPos
    BY <1>1 DEF LoopKeepsPos
  <2>3. \A p \in Positions : p \in {master, file}
    BY <2>2 DEF Positions
  <2>4. \A p \in Positions : \A n \in DOMAIN reqs' : reqs'[n].at = head.at \/ (n \in DOMAIN reqs /\ reqs'[n] = reqs[n])
    <3> SUFFICES ASSUME NEW n \in DOMAIN reqs'
                 PROVE  reqs'[n].at = head.at \/ (n \in DOMAIN reqs /\ reqs'[n] = reqs[n])
      OBVIOUS
    <3>1. CASE n \in DOMAIN reqs /\ reqs'[n] = reqs[n]
      BY <3>1
    <3>2. CASE \E k \in DOMAIN head.reqs : reqs'[n] = head.reqs[k]
      <4>1. PICK k \in DOMAIN head.reqs : reqs'[n] = head.reqs[k]
        BY <3>2
      <4>2. head.reqs[k].at = head.at
        BY <1>5
      <4> QED
        BY <4>1, <4>2, Zenon
    <3> QED
      BY <1>4, <3>1, <3>2, Zenon
  <2> SUFFICES ASSUME NEW p \in Positions
               PROVE  /\ canal' = "on" \/ loop' # "off" => p <= cursor'
                      /\ \A m \in DOMAIN syncCh' : p < syncCh'[m].at
                      /\ p \in {master, file}' \/ loop' = "save" => \A n \in DOMAIN reqs' : p < reqs'[n].at
    BY <1>7, Zenon DEF PositionsBehind
  <2>5. \A n \in DOMAIN reqs' : p < reqs'[n].at
    BY <2>1, <2>3, <2>4, Zenon DEF PositionsBehind
  <2>6. \A m \in DOMAIN syncCh' : p < syncCh'[m].at
    BY <1>2, Zenon DEF PositionsBehind
  <2>7. p <= cursor
    BY <1>1 DEF PositionsBehind
  <2> QED
    BY <1>1, <2>5, <2>6, <2>7
<1>9. LoopKeepsPos' /\ Within'
  BY <1>1, <1>7 DEF LoopKeepsPos, Within
<1> QED
  BY <1>6, <1>8, <1>9

(* A position that is taken up lies behind what is still in the channel.   *)
LEMMA TakePosKeepsOrder ==
  ASSUME Inv, TakePos
  PROVE  InOrder' /\ PositionsBehind' /\ LoopKeepsPos' /\ Within'
<1> USE DEF Inv
<1> DEFINE head == syncCh[1]
<1>1. /\ cursor' = cursor /\ canal' = canal /\ log' = log /\ loop = "select"
      /\ master' = master /\ file' = file /\ reqs' = reqs
      /\ syncCh # <<>> /\ syncCh' = Tail(syncCh)
  BY DEF TakePos, LoopFrame, logVars, saveVars
<1>2. /\ head \in Messages /\ 1 \in DOMAIN syncCh /\ head = Head(syncCh)
      /\ \A m \in DOMAIN syncCh' : m \in Nat /\ m + 1 \in DOMAIN syncCh /\ 1 < m + 1 /\ syncCh'[m] = syncCh[m + 1]
  BY <1>1, HeadTaken DEF Typed
<1>3. \/ loop' = "flush" /\ savePos' = head.at
      \/ loop' = "select" /\ savePos' = savePos
  BY <1>2 DEF TakePos
<1> HIDE DEF head
<1>4. /\ \A m \in DOMAIN syncCh : 1 < m => head.at < syncCh[m].at
      /\ head.at <= cursor
  BY <1>2, Zenon DEF InOrder, head
<1>5. InOrder'
  <2>1. \A m, k \in DOMAIN syncCh' : m < k => m + 1 < k + 1
    BY <1>2
  <2>2. \A n \in DOMAIN reqs' : reqs'[n].at <= cursor'
    BY <1>1, Zenon DEF InOrder
  <2> SUFFICES ASSUME NEW m \in DOMAIN syncCh'
               PROVE  /\ syncCh'[m].at <= cursor'
                      /\ \A k \in DOMAIN syncCh' : m < k => syncCh'[m].at < syncCh'[k].at
                      /\ \A n \in DOMAIN reqs' : reqs'[n].at < syncCh'[m].at
                      /\ syncCh'[m].kind = "reqs" =>
                           \A n \in DOMAIN syncCh'[m].reqs : syncCh'[m].reqs[n].at = syncCh'[m].at
    BY <2>2, Zenon DEF InOrder
  <2> QED
    <3>1. m + 1 \in DOMAIN syncCh /\ syncCh'[m] = syncCh[m + 1]
      BY <1>2
    <3>2. ASSUME NEW k \in DOMAIN syncCh', m < k
          PROVE  syncCh'[m].at < syncCh'[k].at
      <4>1. k + 1 \in DOMAIN syncCh /\ syncCh'[k] = syncCh[k + 1] /\ m + 1 < k + 1
        BY <1>2, <2>1, <3>2
      <4> QED
        BY <3>1, <4>1, Zenon DEF InOrder
    <3>3. \A n \in DOMAIN reqs : reqs[n].at < syncCh'[m].at
      BY <3>1, Zenon DEF InOrder
    <3>4. /\ syncCh[m + 1].at <= cursor
          /\ syncCh[m + 1].kind = "reqs" =>
               \A n \in DOMAIN syncCh[m + 1].reqs : syncCh[m + 1].reqs[n].at = syncCh[m + 1].at
      BY <3>1, Zenon DEF InOrder
    <3> QED
      BY <1>1, <3>1, <3>2, <3>3, <3>4
<1>6. head.at \in Nat /\ savePos = NoPos
  BY <1>1, <1>2 DEF Messages, LoopKeepsPos
<1>7. \A p \in Positions' : p \in Positions \/ p = head.at
  BY <1>1, <1>3, <1>6, Zenon DEF Positions
<1>13. \A p \in Positions' : p \in {master, file} => p \in Positions
  BY <1>1, Zenon DEF Positions
<1>8. \A p \in Positions' :
        /\ p <= cursor
        /\ \A m \in DOMAIN syncCh' : p < syncCh'[m].at
  <2> SUFFICES ASSUME NEW p \in Positions'
               PROVE  p <= cursor /\ \A m \in DOMAIN syncCh' : p < syncCh'[m].at
    OBVIOUS
  <2>1. CASE p = head.at
    BY <1>2, <1>4, <2>1
  <2>2. CASE p \in Positions
    <3>1. p <= cursor /\ \A m \in DOMAIN syncCh : p < syncCh[m].at
      BY <1>1, <2>2 DEF PositionsBehind
    <3> QED
      BY <1>2, <3>1, Zenon
  <2> QED
    BY <1>7, <2>1, <2>2
<1>9. \A p \in Positions' : p \in {master, file}' \/ loop' = "save" => \A n \in DOMAIN reqs' : p < reqs'[n].at
  <2> SUFFICES ASSUME NEW p \in Positions', p \in {master, file}
               PROVE  \A n \in DOMAIN reqs : p < reqs[n].at
    BY <1>1, <1>3
  <2>1. p \in Positions
    BY <1>13
  <2> QED
    BY <2>1, Zenon DEF PositionsBehind
<1>10. PositionsBehind'
  BY <1>1, <1>8, <1>9, Zenon DEF PositionsBehind
<1>11. LoopKeepsPos'
  BY <1>3, <1>6 DEF LoopKeepsPos
<1>12. Within'
  <2>1. Positions \subseteq Nat /\ cursor \in Nat /\ Len(log) \in Nat
    BY DEF Typed, Positions
  <2>2. Positions' \subseteq Nat /\ cursor <= Len(log)
    BY <1>6, <1>7, <2>1 DEF Within
  <2> QED
    BY <1>1, <1>8, <2>1, <2>2 DEF Within
<1> QED
  BY <1>5, <1>10, <1>11, <1>12

(* The rest of syncLoop: a position is saved after the flush of what was   *)
(* collected before it. *)
LEMMA LoopKeepsOrder ==
  ASSUME Inv, \/ Tick \/ Done \/ DoBulk \/ DoBulkFails
              \/ SaveThrottled \/ Save \/ SaveFails \/ SaveTears
  PROVE  InOrder' /\ PositionsBehind' /\ LoopKeepsPos' /\ Within'
<1> USE DEF Inv, LoopFrame, logVars, saveVars
<1>1. syncCh' = syncCh /\ cursor' = cursor /\ canal' = canal /\ log' = log
  BY DEF Tick, Done, DoBulk, DoBulkFails, Flushed, SaveThrottled, Save, SaveFails, SaveTears
<1>2. Len(log) \in Nat /\ cursor \in Nat /\ Positions \subseteq Nat
  BY DEF Typed, Positions
<1>3. /\ loop # "off"
      /\ reqs' = reqs \/ reqs' = <<>>
      /\ LoopKeepsPos'
  BY DEF Tick, Done, DoBulk, DoBulkFails, Flushed, SaveThrottled, Save, SaveFails, SaveTears,
         SaveStep, LoopKeepsPos
<1>4. Positions' \subseteq Positions
  BY DEF Tick, Done, DoBulk, DoBulkFails, Flushed, SaveThrottled, Save, SaveFails, SaveTears,
         SaveStep, Positions
<1>5. \/ reqs' = <<>>
      \/ /\ reqs' = reqs
         /\ \A p \in Positions' : p \in {master, file}' \/ loop' = "save"
                                  => p \in {master, file} \/ loop = "save"
  BY DEF Tick, Done, DoBulk, DoBulkFails, Flushed, SaveThrottled, Save, SaveFails, SaveTears,
         SaveStep
<1>6. InOrder'
  BY <1>1, <1>3, OrderKept
<1>7. PositionsBehind' /\ Within'
  BY <1>1, <1>2, <1>3, <1>4, <1>5, PositionsKept
<1> QED
  BY <1>3, <1>6, <1>7

-----------------------------------------------------------------------------

LEMMA NextInv == Inv /\ [Next]_riverVars => Inv'
<1> SUFFICES ASSUME Inv, [Next]_riverVars PROVE Inv'
  OBVIOUS
<1>1. Typed'
  BY NextTyped DEF Inv
<1>2. InOrder' /\ PositionsBehind' /\ LoopKeepsPos' /\ Within'
  BY OthersKeepOrder, StartKeepsOrder, CrashKeepsOrder, HandleKeepsOrder,
     TakeReqsKeepsOrder, TakePosKeepsOrder, LoopKeepsOrder DEF Next, River
<1> QED
  BY <1>1, <1>2 DEF Inv

(* A position in memory, in master.yaml or about to be written lies behind *)
(* every request that has been collected or is in the channel: the next    *)
(* start reads all of them again, whatever the order of row events, DDL,   *)
(* ticks, throttled and failed writes, lost connections and crashes. *)
THEOREM ResumeSkipsNothing == Spec => []SavedIsFlushed
<1>1. Inv => SavedIsFlushed
  <2> SUFFICES ASSUME Inv, NEW p \in Saved
               PROVE  /\ canal = "on" => p <= cursor
                      /\ \A n \in DOMAIN reqs : p < reqs[n].at
                      /\ \A n \in DOMAIN syncCh : syncCh[n].kind = "reqs" => p < syncCh[n].at
    BY DEF SavedIsFlushed
  <2>1. p \in Positions /\ (p \in {master, file} \/ loop = "save")
    BY DEF Saved, Positions
  <2> QED
    BY <2>1, Zenon DEF Inv, PositionsBehind
<1> QED
  BY InitInv, NextInv, <1>1, PTL DEF Spec

(* The types, and that no position lies beyond the end of the binlog. *)
THEOREM PositionsInLog == Spec => [](Typed /\ Within)
<1>1. Inv => Typed /\ Within
  BY DEF Inv
<1> QED
  BY InitInv, NextInv, <1>1, PTL DEF Spec

-----------------------------------------------------------------------------
(* That the index follows the table.  First, what a bulk request does: it  *)
(* is a fold, so that this goes by induction over its items.               *)

(* Induction for a set of natural numbers: if there were numbers outside,  *)
(* one of the intervals up to them would be minimal. *)
LEMMA Induct ==
  ASSUME NEW A, 0 \in A, \A n \in Nat : n \in A => n + 1 \in A
  PROVE  Nat \subseteq A
<1> SUFFICES ASSUME NEW m \in Nat, m \notin A PROVE FALSE
  OBVIOUS
<1> DEFINE T == {1 .. n : n \in Nat \ A}
<1>1. T \subseteq FiniteSubsetsOf(Nat) /\ T # {}
  <2>1. \A n \in Nat : 1 .. n \subseteq Nat /\ IsFiniteSet(1 .. n)
    BY FS_Interval
  <2> QED
    BY <2>1 DEF FiniteSubsetsOf
<1>2. IsWellFoundedOn(StrictSubsetOrdering(Nat), FiniteSubsetsOf(Nat))
  BY FS_StrictSubsetOrderingWellFounded
<1>3. PICK x \in T : \A y \in T : ~ (<<y, x>> \in StrictSubsetOrdering(Nat))
  <2> HIDE DEF T
  <2> QED
    BY <1>1, <1>2, WFMin
<1>4. PICK n \in Nat \ A : x = 1 .. n
  BY <1>3
<1>5. n # 0 /\ n - 1 \in Nat /\ n - 1 \notin A
  <2>1. n # 0
    BY <1>4
  <2>2. n - 1 \in Nat /\ (n - 1) + 1 = n
    BY <2>1
  <2> QED
    BY <2>1, <2>2, <1>4
<1>6. 1 .. (n - 1) \in T
  BY <1>5
<1>7. <<1 .. (n - 1), 1 .. n>> \in StrictSubsetOrdering(Nat)
  <2>1. 1 .. (n - 1) \subseteq 1 .. n /\ n \in 1 .. n /\ n \notin 1 .. (n - 1)
    BY <1>5
  <2> QED
    BY <2>1, <1>5 DEF StrictSubsetOrdering
<1> QED
  BY <1>3, <1>4, <1>6, <1>7

(* A set of positions that is not empty has a last one. *)
LEMMA LastPosition ==
  ASSUME NEW k \in Nat, NEW s \in SUBSET (1 .. k), s # {}
  PROVE  Max(s) \in s /\ \A y \in s : Max(s) >= y
<1> DEFINE A == {n \in Nat : \A t \in SUBSET (1 .. n) : t # {} => \E x \in t : \A y \in t : x >= y}
<1>1. 0 \in A
  <2>1. 1 .. 0 = {}
    OBVIOUS
  <2> QED
    BY <2>1
<1>2. ASSUME NEW n \in Nat, n \in A PROVE n + 1 \in A
  <2> SUFFICES ASSUME NEW t \in SUBSET (1 .. n + 1), t # {}
               PROVE  \E x \in t : \A y \in t : x >= y
    OBVIOUS
  <2>1. CASE n + 1 \in t
    BY <2>1
  <2>2. CASE n + 1 \notin t
    <3>1. t \in SUBSET (1 .. n)
      BY <2>2
    <3> QED
      BY <1>2, <3>1
  <2> QED
    BY <2>1, <2>2
<1>3. k \in A
  <2> HIDE DEF A
  <2> QED
    BY <1>1, <1>2, Induct
<1> QED
  BY <1>3 DEF Max

(* One item of a bulk request, told to the index. *)
Told(es, items, n, refused) ==
  IF n \in refused THEN Refuse(es, items[n]) ELSE Accept(es, items[n])

(* The recursion of a bulk's fold, over its first k items. *)
Solves(it, es, items, refused, k) ==
  it = [s \in SUBSET (1 .. k) |->
         IF s = {} THEN es ELSE Told(it[s \ {Max(s)}], items, Max(s), refused)]

(* That recursion has a solution, by induction over the length. *)
LEMMA FoldExists ==
  ASSUME NEW es, NEW items, NEW refused, NEW k \in Nat
  PROVE  \E it : Solves(it, es, items, refused, k)
<1> DEFINE Next1(f, s) == IF s = {} THEN es ELSE Told(f[s \ {Max(s)}], items, Max(s), refused)
           Sol(f, n) == f = [s \in SUBSET (1 .. n) |-> Next1(f, s)]
           A == {n \in Nat : \E f : Sol(f, n)}
<1>1. 0 \in A
  <2> DEFINE f == [s \in SUBSET (1 .. 0) |-> es]
  <2>1. \A s \in SUBSET (1 .. 0) : s = {}
    OBVIOUS
  <2>2. Sol(f, 0)
    BY <2>1
  <2> QED
    BY <2>2
<1>2. ASSUME NEW n \in Nat, n \in A PROVE n + 1 \in A
  <2>1. PICK f : Sol(f, n)
    BY <1>2
  <2> DEFINE g == [s \in SUBSET (1 .. n + 1) |-> Next1(f, s)]
  <2>2. \A s \in SUBSET (1 .. n) : g[s] = f[s]
    <3>1. SUBSET (1 .. n) \subseteq SUBSET (1 .. n + 1)
      OBVIOUS
    <3>2. ASSUME NEW s \in SUBSET (1 .. n) PROVE g[s] = Next1(f, s)
      BY <3>1
    <3>3. ASSUME NEW s \in SUBSET (1 .. n) PROVE f[s] = Next1(f, s)
      <4> HIDE DEF Next1, g
      <4> QED
        BY <2>1
    <3> HIDE DEF g, Next1
    <3> QED
      BY <3>2, <3>3
  <2>3. \A s \in SUBSET (1 .. n + 1) : s # {} => s \ {Max(s)} \in SUBSET (1 .. n)
    <3> SUFFICES ASSUME NEW s \in SUBSET (1 .. n + 1), s # {}
                 PROVE  s \ {Max(s)} \subseteq 1 .. n
      OBVIOUS
    <3>1. n + 1 \in Nat
      OBVIOUS
    <3>2. Max(s) \in s /\ \A y \in s : Max(s) >= y
      BY <3>1, LastPosition
    <3>3. Max(s) \in 1 .. n + 1 /\ \A y \in s : y \in 1 .. n + 1
      BY <3>2
    <3> SUFFICES ASSUME NEW y \in s, y # Max(s) PROVE y \in 1 .. n
      OBVIOUS
    <3>4. y <= Max(s)
      BY <3>2
    <3> QED
      BY <3>3, <3>4
  <2>4. \A s \in SUBSET (1 .. n + 1) : Next1(f, s) = Next1(g, s)
    <3> HIDE DEF g
    <3> QED
      BY <2>2, <2>3
  <2>5. Sol(g, n + 1)
    <3> HIDE DEF Next1
    <3>1. g = [s \in SUBSET (1 .. n + 1) |-> Next1(f, s)]
      OBVIOUS
    <3> HIDE DEF g
    <3> QED
      BY <3>1, <2>4
  <2> HIDE DEF g, Sol
  <2> QED
    BY <2>5
<1>3. k \in A
  <2> HIDE DEF A
  <2> QED
    BY <1>1, <1>2, Induct
<1>4. PICK f : Sol(f, k)
  BY <1>3
<1> QED
  BY <1>4 DEF Solves

(* A bulk request is its items, told one after the other. *)
LEMMA BulkSteps ==
  ASSUME NEW items, Len(items) \in Nat, DOMAIN items = 1 .. Len(items), NEW es, NEW refused
  PROVE  \E f : /\ f[0] = es
                /\ \A n \in DOMAIN items : f[n] = Told(f[n - 1], items, n, refused)
                /\ Bulk(es, items, refused) = f[Len(items)]
<1> DEFINE k == Len(items)
           Eq(it) == Solves(it, es, items, refused, k)
           iter == CHOOSE it : Eq(it)
           dom == [i \in DOMAIN items |-> i]
<1>0. k \in Nat /\ DOMAIN items = 1 .. k
  OBVIOUS
<1>1. Eq(iter)
  <2> HIDE DEF k
  <2>1. \E it : Eq(it)
    BY <1>0, FoldExists
  <2> HIDE DEF Eq
  <2> QED
    BY <2>1
<1>2. Bulk(es, items, refused) =
        (CHOOSE it : it = [s \in SUBSET DOMAIN dom |->
                            IF s = {} THEN es
                            ELSE LET x == Max(s) IN Told(it[s \ {x}], items, dom[x], refused)])[DOMAIN dom]
  BY DEF Bulk, FoldLeftDomain, FoldLeft, MapThenFoldSet, Told
<1>3. \A s \in SUBSET (1 .. k) : s # {} => dom[Max(s)] = Max(s)
  BY <1>0, LastPosition
<1>4. DOMAIN dom = 1 .. k
  BY <1>0
<1> HIDE DEF dom
<1>5. Bulk(es, items, refused) = iter[1 .. k]
  <2> DEFINE Eq2(it) == it = [s \in SUBSET (1 .. k) |->
                            IF s = {} THEN es
                            ELSE Told(it[s \ {Max(s)}], items, dom[Max(s)], refused)]
  <2>1. Bulk(es, items, refused) = (CHOOSE it : Eq2(it))[1 .. k]
    BY <1>2, <1>4
  <2>2. ASSUME NEW it PROVE Eq2(it) <=> Eq(it)
    BY <1>3 DEF Solves
  <2> HIDE DEF Eq, Eq2
  <2>3. (CHOOSE it : Eq2(it)) = CHOOSE it : Eq(it)
    BY <2>2
  <2> QED
    BY <2>1, <2>3
<1> DEFINE f == [n \in 0 .. k |-> iter[1 .. n]]
<1> HIDE DEF iter
<1>6. ASSUME NEW n \in 1 .. k PROVE f[n] = Told(f[n - 1], items, n, refused)
  <2>0. n \in Nat /\ 1 <= n /\ n <= k
    BY <1>0
  <2>1. 1 .. n \in SUBSET (1 .. k) /\ 1 .. n # {} /\ n \in 1 .. n
    <3>1. ASSUME NEW y \in 1 .. n PROVE y \in 1 .. k
      <4>1. y \in Nat /\ 1 <= y /\ y <= n
        BY <2>0
      <4> HIDE DEF k
      <4> QED
        BY <1>0, <2>0, <4>1
    <3>2. n \in 1 .. n
      BY <2>0
    <3>3. 1 .. n \subseteq 1 .. k
      <4> HIDE DEF k
      <4> QED
        BY <3>1
    <3> HIDE DEF k
    <3> QED
      BY <3>2, <3>3, Zenon
  <2>2. Max(1 .. n) = n
    <3>1. Max(1 .. n) \in 1 .. n /\ \A y \in 1 .. n : Max(1 .. n) >= y
      BY <1>0, <2>1, LastPosition
    <3> QED
      BY <2>1, <3>1
  <2>3. (1 .. n) \ {n} = 1 .. n - 1
    BY <1>0
  <2>4. iter[1 .. n] = Told(iter[(1 .. n) \ {Max(1 .. n)}], items, Max(1 .. n), refused)
    BY <1>1, <2>1 DEF Solves
  <2>5. n \in 0 .. k /\ n - 1 \in 0 .. k
    BY <1>0
  <2>6. f[n] = iter[1 .. n] /\ f[n - 1] = iter[1 .. n - 1]
    BY <2>5
  <2> HIDE DEF f
  <2> QED
    BY <2>2, <2>3, <2>4, <2>6
<1>7. f[0] = es
  <2>1. 1 .. 0 = {} /\ {} \in SUBSET (1 .. k)
    OBVIOUS
  <2>2. iter[{}] = es
    BY <1>1, <2>1 DEF Solves
  <2>4. 0 \in 0 .. k
    BY <1>0
  <2>3. f[0] = iter[1 .. 0]
    BY <2>4
  <2> HIDE DEF f
  <2> QED
    BY <2>1, <2>2, <2>3
<1>8. f[k] = iter[1 .. k]
  BY <1>0
<1> HIDE DEF f
<1> QED
  BY <1>0, <1>5, <1>6, <1>7, <1>8

-----------------------------------------------------------------------------
(* The requests of an event of the binlog, of all of it, and of what of it *)
(* lies behind a position.                                                 *)
ItemsOf(e, at) == IF e.kind = "row" THEN Range(ReqsOf(e, at)) ELSE {}
LogItems == UNION {ItemsOf(log[n], n) : n \in DOMAIN log}
After(k) == {r \in LogItems : k < r.at}

(* The requests in the River's memory, and those that the index has yet to *)
(* be told: also those of events that the canal has still to read.         *)
InFlight == Range(reqs) \cup UNION {IF m.kind = "reqs" THEN Range(m.reqs) ELSE {} : m \in Range(syncCh)}
Pending == InFlight \cup After(cursor)

(* A request that replaces a document, and one that decides a column of it. *)
Whole(r, i) == r.id = i /\ r.op # "update"
Touches(r, i, c) == r.id = i /\ (r.op # "update" \/ c \in DOMAIN r.doc)

(* Of a set of requests, those that come last tell the table: the last     *)
(* replacement of a document whether there is a row, and the last request  *)
(* on a column what the row holds there.                                   *)
Tells(tab, cols, P) ==
  \A r \in P :
    /\ Whole(r, r.id) /\ (\A q \in P : Whole(q, r.id) => q.at <= r.at)
         => (r.op = "index" <=> tab[r.id] # None)
    /\ \A c \in cols :
         /\ Touches(r, r.id, c) /\ \A q \in P : Touches(q, r.id, c) => q.at <= r.at
         /\ r.op # "delete" /\ tab[r.id] # None
         => r.doc[c] = tab[r.id][c]

(* Where no request of a set has a say, the document is already the row's. *)
Leads(tab, cols, docs, i, P) ==
  /\ (\A r \in P : ~Whole(r, i)) => (docs[i] = None <=> tab[i] = None)
  /\ \A c \in cols :
       tab[i] # None /\ (\A r \in P : ~Touches(r, i, c)) => docs[i][c] = tab[i][c]

Sound(tab, cols, docs, wrong, P) == \A i \in Ids \ wrong : Leads(tab, cols, docs, i, P)

(* The documents an index can hold, and the requests a rule can make.      *)
Documents(cols) == [Ids -> [cols -> Vals] \cup {None}]
Items(cols) == {r \in Requests : r.op = "index" => r.doc \in [cols -> Vals]}

(* One item leaves documents that are typed; those of other ids stay. *)
LEMMA AppliedTyped ==
  ASSUME NEW cols \in SUBSET Cols, NEW docs \in Documents(cols), NEW r \in Items(cols)
  PROVE  /\ Applied(docs, r) \in Documents(cols)
         /\ \A i \in Ids \ {r.id} : Applied(docs, r)[i] = docs[i]
         /\ r.op = "index" => Applied(docs, r)[r.id] = r.doc /\ r.doc # None
         /\ r.op = "delete" => Applied(docs, r)[r.id] = None
         /\ r.op = "update" /\ docs[r.id] = None => Applied(docs, r)[r.id] = None
         /\ r.op = "update" /\ docs[r.id] # None =>
              /\ Applied(docs, r)[r.id] # None
              /\ \A c \in cols : Applied(docs, r)[r.id][c] = IF c \in DOMAIN r.doc THEN r.doc[c] ELSE docs[r.id][c]
<1>1. r.id \in Ids /\ r.op \in {"index", "update", "delete"} /\ r.doc \in Docs
  BY DEF Items, Requests
<1>2. None \notin [cols -> Vals]
  OBVIOUS
<1>3. CASE r.op = "index"
  <2>1. r.doc \in [cols -> Vals]
    BY <1>3 DEF Items
  <2>2. Applied(docs, r) = [docs EXCEPT ![r.id] = r.doc]
    BY <1>3 DEF Applied
  <2> QED
    BY <1>1, <1>2, <1>3, <2>1, <2>2 DEF Documents
<1>4. CASE r.op = "delete"
  <2>1. Applied(docs, r) = [docs EXCEPT ![r.id] = None]
    BY <1>4 DEF Applied
  <2> QED
    BY <1>1, <1>4, <2>1 DEF Documents
<1>5. CASE r.op = "update" /\ docs[r.id] = None
  BY <1>1, <1>5 DEF Applied, Documents
<1>6. CASE r.op = "update" /\ docs[r.id] # None
  <2> DEFINE old == docs[r.id]
             new == [c \in DOMAIN old |-> IF c \in DOMAIN r.doc THEN r.doc[c] ELSE old[c]]
  <2>1. Applied(docs, r) = [docs EXCEPT ![r.id] = new]
    BY <1>6 DEF Applied
  <2>2. old \in [cols -> Vals]
    BY <1>1, <1>6 DEF Documents
  <2>3. \A c \in DOMAIN r.doc : r.doc[c] \in Vals
    <3>1. CASE r.doc = <<>>
      BY <3>1
    <3>2. CASE \E some \in SUBSET Cols : r.doc \in [some -> Vals]
      BY <3>2
    <3> QED
      BY <1>1, <3>1, <3>2 DEF Docs
  <2> HIDE DEF old
  <2>4. new \in [cols -> Vals] /\ \A c \in cols : new[c] = IF c \in DOMAIN r.doc THEN r.doc[c] ELSE old[c]
    BY <2>2, <2>3
  <2> HIDE DEF new
  <2>5. new # None
    BY <1>2, <2>4
  <2>6. Applied(docs, r) \in Documents(cols) /\ Applied(docs, r)[r.id] = new
        /\ \A i \in Ids \ {r.id} : Applied(docs, r)[i] = docs[i]
    BY <1>1, <2>1, <2>4 DEF Documents
  <2> QED
    BY <1>6, <2>4, <2>5, <2>6 DEF old
<1> QED
  BY <1>1, <1>3, <1>4, <1>5, <1>6

(* An accepted item, the first one pending on its id. *)
LEMMA FirstApplied ==
  ASSUME NEW tab, NEW cols \in SUBSET Cols, NEW docs \in Documents(cols), NEW wrong,
         NEW r \in Items(cols), NEW P, NEW Q, r \in P, Q \subseteq P, P \subseteq Q \cup {r},
         \A p \in P : p.at \in Nat, \A q \in Q : q.id = r.id => r.at < q.at,
         Tells(tab, cols, P), Sound(tab, cols, docs, wrong, P)
  PROVE  Sound(tab, cols, Applied(docs, r), IF r.op = "update" THEN wrong ELSE wrong \ {r.id}, Q)
<1> DEFINE new == Applied(docs, r)
<1>0. r.id \in Ids /\ r.op \in {"index", "update", "delete"}
  BY DEF Items, Requests
<1>1. SUFFICES ASSUME NEW i \in Ids, (i = r.id /\ r.op # "update") \/ i \notin wrong
               PROVE  Leads(tab, cols, new, i, Q)
  BY DEF Sound
<1>2. CASE i # r.id
  <2>1. new[i] = docs[i]
    BY <1>2, AppliedTyped
  <2>2. \A p \in P : p.id = i => p \in Q
    BY <1>2
  <2>3. Leads(tab, cols, docs, i, P)
    BY <1>1, <1>2 DEF Sound
  <2> HIDE DEF new
  <2> QED
    BY <2>1, <2>2, <2>3 DEF Leads, Whole, Touches
<1>3. CASE i = r.id
  <2>1. ASSUME \A q \in Q : ~Whole(q, i)
        PROVE  new[i] = None <=> tab[i] = None
    <3>1. CASE r.op = "update"
      <4>1. \A p \in P : ~Whole(p, i)
        BY <2>1, <3>1 DEF Whole
      <4>2. docs[i] = None <=> tab[i] = None
        BY <1>1, <3>1, <4>1 DEF Sound, Leads
      <4> QED
        BY <1>3, <3>1, <4>2, AppliedTyped
    <3>2. CASE r.op # "update"
      <4>1. Whole(r, r.id) /\ \A p \in P : Whole(p, r.id) => p.at <= r.at
        BY <1>3, <2>1, <3>2 DEF Whole
      <4>2. r.op = "index" <=> tab[r.id] # None
        BY <4>1 DEF Tells
      <4> QED
        BY <1>0, <1>3, <3>2, <4>2, AppliedTyped
    <3> QED
      BY <3>1, <3>2
  <2>2. ASSUME NEW c \in cols, tab[i] # None, \A q \in Q : ~Touches(q, i, c)
        PROVE  new[i][c] = tab[i][c]
    <3>0. \A q \in Q : ~Whole(q, i)
      BY <2>2 DEF Whole, Touches
    <3>1. new[i] # None
      BY <2>1, <2>2, <3>0
    <3>2. CASE r.op = "update" /\ c \notin DOMAIN r.doc
      <4>1. \A p \in P : ~Touches(p, i, c)
        BY <2>2, <3>2 DEF Touches
      <4>2. docs[i][c] = tab[i][c]
        BY <1>1, <2>2, <3>2, <4>1 DEF Sound, Leads
      <4> QED
        BY <1>3, <3>1, <3>2, <4>2, AppliedTyped
    <3>3. CASE r.op # "update" \/ c \in DOMAIN r.doc
      <4>1. Touches(r, r.id, c) /\ \A p \in P : Touches(p, r.id, c) => p.at <= r.at
        BY <1>3, <2>2, <3>3 DEF Touches
      <4>2. r.op # "delete"
        BY <1>3, <3>1, AppliedTyped
      <4>3. r.doc[c] = tab[i][c]
        BY <1>3, <2>2, <4>1, <4>2 DEF Tells
      <4> QED
        BY <1>0, <1>3, <3>1, <3>3, <4>2, <4>3, AppliedTyped
    <3> QED
      BY <3>2, <3>3
  <2> QED
    BY <2>1, <2>2 DEF Leads
<1> QED
  BY <1>2, <1>3

(* An item that stays pending hides what it changes. *)
LEMMA WithinApplied ==
  ASSUME NEW tab, NEW cols \in SUBSET Cols, NEW docs \in Documents(cols), NEW wrong,
         NEW r \in Items(cols), NEW Q, r \in Q, Sound(tab, cols, docs, wrong, Q)
  PROVE  Sound(tab, cols, Applied(docs, r), IF r.op = "update" THEN wrong ELSE wrong \ {r.id}, Q)
<1> DEFINE new == Applied(docs, r)
<1>0. r.id \in Ids /\ r.op \in {"index", "update", "delete"}
  BY DEF Items, Requests
<1>1. SUFFICES ASSUME NEW i \in Ids, (i = r.id /\ r.op # "update") \/ i \notin wrong
               PROVE  Leads(tab, cols, new, i, Q)
  BY DEF Sound
<1>2. CASE i # r.id
  <2>1. new[i] = docs[i] /\ Leads(tab, cols, docs, i, Q)
    BY <1>1, <1>2, AppliedTyped DEF Sound
  <2> HIDE DEF new
  <2> QED
    BY <2>1 DEF Leads
<1>3. CASE i = r.id /\ r.op # "update"
  BY <1>3 DEF Leads, Whole, Touches
<1>4. CASE i = r.id /\ r.op = "update"
  <2>1. Leads(tab, cols, docs, i, Q)
    BY <1>1, <1>4 DEF Sound
  <2>2. new[i] = None <=> docs[i] = None
    BY <1>4, AppliedTyped
  <2>3. ASSUME NEW c \in cols, tab[i] # None, \A q \in Q : ~Touches(q, i, c)
        PROVE  new[i][c] = tab[i][c]
    <3>1. c \notin DOMAIN r.doc /\ \A q \in Q : ~Whole(q, i)
      BY <1>4, <2>3 DEF Touches, Whole
    <3>2. docs[i] # None /\ docs[i][c] = tab[i][c]
      BY <2>1, <2>3, <3>1 DEF Leads
    <3> QED
      BY <1>4, <3>1, <3>2, AppliedTyped
  <2> HIDE DEF new
  <2> QED
    BY <2>1, <2>2, <2>3 DEF Leads
<1> QED
  BY <1>2, <1>3, <1>4

(* What tells the table also does so from any point on. *)
LEMMA StillTells ==
  ASSUME NEW tab, NEW cols, NEW P, NEW Q, Q \subseteq P, \A p \in P : p.at \in Nat,
         \A p \in P \ Q, q \in Q : p.id = q.id => p.at < q.at,
         Tells(tab, cols, P)
  PROVE  Tells(tab, cols, Q)
<1> SUFFICES ASSUME NEW r \in Q
             PROVE  /\ Whole(r, r.id) /\ (\A q \in Q : Whole(q, r.id) => q.at <= r.at)
                         => (r.op = "index" <=> tab[r.id] # None)
                    /\ \A c \in cols :
                         /\ Touches(r, r.id, c) /\ \A q \in Q : Touches(q, r.id, c) => q.at <= r.at
                         /\ r.op # "delete" /\ tab[r.id] # None
                         => r.doc[c] = tab[r.id][c]
  BY DEF Tells
<1>1. \A p \in P : p.id = r.id => p \in Q \/ p.at <= r.at
  OBVIOUS
<1>2. ASSUME Whole(r, r.id), \A q \in Q : Whole(q, r.id) => q.at <= r.at
      PROVE  r.op = "index" <=> tab[r.id] # None
  <2>1. \A q \in P : Whole(q, r.id) => q.at <= r.at
    BY <1>1, <1>2 DEF Whole
  <2> QED
    BY <1>2, <2>1 DEF Tells
<1>3. ASSUME NEW c \in cols, Touches(r, r.id, c), \A q \in Q : Touches(q, r.id, c) => q.at <= r.at,
             r.op # "delete", tab[r.id] # None
      PROVE  r.doc[c] = tab[r.id][c]
  <2>1. \A q \in P : Touches(q, r.id, c) => q.at <= r.at
    BY <1>1, <1>3 DEF Touches
  <2> QED
    BY <1>3, <2>1 DEF Tells
<1> QED
  BY <1>2, <1>3

(* With more requests pending, less is asked of the documents. *)
LEMMA Widened ==
  ASSUME NEW tab, NEW cols, NEW docs, NEW wrong, NEW P, NEW Q, P \subseteq Q, Sound(tab, cols, docs, wrong, P)
  PROVE  Sound(tab, cols, docs, wrong, Q)
BY DEF Sound, Leads

(* Requests on one id are in the order of the binlog. *)
Sorted(s) == \A n, m \in DOMAIN s : n < m /\ s[n].id = s[m].id => s[n].at < s[m].at

(* What a bulk request works on. *)
States(cols) == [docs : Documents(cols), damaged : SUBSET Ids]

(* One item of a bulk, accepted or refused. *)
LEMMA ItemTyped ==
  ASSUME NEW cols \in SUBSET Cols, NEW es \in States(cols), NEW r \in Items(cols)
  PROVE  Accept(es, r) \in States(cols) /\ Refuse(es, r) \in States(cols)
<1>0. es.docs \in Documents(cols) /\ es.damaged \in SUBSET Ids /\ r.id \in Ids
  BY DEF States, Items, Requests
<1>1. Refuse(es, r) \in States(cols)
  BY <1>0 DEF Refuse, States
<1>2. Accept(es, r) \in States(cols)
  BY <1>0, AppliedTyped DEF Accept, States
<1> QED
  BY <1>1, <1>2

(* An item that is told, the first one pending on its id: accepted or not. *)
LEMMA FirstItem ==
  ASSUME NEW tab, NEW cols \in SUBSET Cols, NEW es \in States(cols),
         NEW r \in Items(cols), NEW P, NEW Q, r \in P, Q \subseteq P, P \subseteq Q \cup {r},
         \A p \in P : p.at \in Nat, \A q \in Q : q.id = r.id => r.at < q.at,
         Tells(tab, cols, P), Sound(tab, cols, es.docs, es.damaged, P)
  PROVE  /\ Sound(tab, cols, Refuse(es, r).docs, Refuse(es, r).damaged, Q)
         /\ Sound(tab, cols, Accept(es, r).docs, Accept(es, r).damaged, Q)
<1>0. es.docs \in Documents(cols) /\ es.damaged \in SUBSET Ids
  BY DEF States
<1>1. Sound(tab, cols, Refuse(es, r).docs, Refuse(es, r).damaged, Q)
  <2>1. Refuse(es, r).docs = es.docs /\ Refuse(es, r).damaged = es.damaged \cup {r.id}
    BY DEF Refuse, States
  <2>2. ASSUME NEW i \in Ids \ (es.damaged \cup {r.id}) PROVE Leads(tab, cols, es.docs, i, Q)
    <3>1. Leads(tab, cols, es.docs, i, P) /\ \A p \in P : p.id = i => p \in Q
      BY <2>2 DEF Sound
    <3> QED
      BY <3>1 DEF Leads, Whole, Touches
  <2> QED
    BY <2>1, <2>2 DEF Sound
<1>2. Sound(tab, cols, Accept(es, r).docs, Accept(es, r).damaged, Q)
  <2>1. Sound(tab, cols, Applied(es.docs, r), IF r.op = "update" THEN es.damaged ELSE es.damaged \ {r.id}, Q)
    BY <1>0, FirstApplied
  <2> QED
    BY <2>1 DEF Accept
<1> QED
  BY <1>1, <1>2

(* An item that is told, and stays pending. *)
LEMMA ItemWithin ==
  ASSUME NEW tab, NEW cols \in SUBSET Cols, NEW es \in States(cols),
         NEW r \in Items(cols), NEW Q, r \in Q, Sound(tab, cols, es.docs, es.damaged, Q)
  PROVE  /\ Sound(tab, cols, Refuse(es, r).docs, Refuse(es, r).damaged, Q)
         /\ Sound(tab, cols, Accept(es, r).docs, Accept(es, r).damaged, Q)
<1>0. es.docs \in Documents(cols) /\ es.damaged \in SUBSET Ids
  BY DEF States
<1>1. Sound(tab, cols, Refuse(es, r).docs, Refuse(es, r).damaged, Q)
  <2>1. Refuse(es, r).docs = es.docs /\ Refuse(es, r).damaged = es.damaged \cup {r.id}
    BY DEF Refuse, States
  <2> QED
    BY <2>1 DEF Sound
<1>2. Sound(tab, cols, Accept(es, r).docs, Accept(es, r).damaged, Q)
  <2>1. Sound(tab, cols, Applied(es.docs, r), IF r.op = "update" THEN es.damaged ELSE es.damaged \ {r.id}, Q)
    BY <1>0, WithinApplied
  <2> QED
    BY <2>1 DEF Accept
<1> QED
  BY <1>1, <1>2

(* A bulk of everything that was collected: by induction over its items.   *)
LEMMA BulkTyped ==
  ASSUME NEW cols \in SUBSET Cols, NEW es \in States(cols), NEW items \in Seq(Items(cols)), NEW refused
  PROVE  Bulk(es, items, refused) \in States(cols)
<1>0. DOMAIN items = 1 .. Len(items) /\ Len(items) \in Nat
  OBVIOUS
<1>1. PICK f : /\ f[0] = es
               /\ \A n \in DOMAIN items : f[n] = Told(f[n - 1], items, n, refused)
               /\ Bulk(es, items, refused) = f[Len(items)]
  BY <1>0, BulkSteps
<1> DEFINE A == {n \in Nat : n <= Len(items) => f[n] \in States(cols)}
<1>2. 0 \in A
  BY <1>1
<1>3. ASSUME NEW n \in Nat, n \in A PROVE n + 1 \in A
  <2> SUFFICES ASSUME n + 1 <= Len(items) PROVE f[n + 1] \in States(cols)
    OBVIOUS
  <2>1. n + 1 \in DOMAIN items /\ (n + 1) - 1 = n /\ items[n + 1] \in Items(cols) /\ f[n] \in States(cols)
    BY <1>3
  <2>2. f[n + 1] = Told(f[n], items, n + 1, refused)
    BY <1>1, <2>1
  <2> QED
    BY <2>1, <2>2, ItemTyped DEF Told
<1>4. Len(items) \in A
  <2> HIDE DEF A
  <2> QED
    BY <1>2, <1>3, Induct
<1> QED
  BY <1>1, <1>4

(* After it, the index is right but for what is still pending behind it. *)
LEMMA BulkCatchesUp ==
  ASSUME NEW tab, NEW cols \in SUBSET Cols, NEW es \in States(cols), NEW items \in Seq(Items(cols)), NEW refused,
         Sorted(items), NEW Rest, \A q \in Rest : q.at \in Nat,
         \A n \in DOMAIN items, q \in Rest : items[n].id = q.id => items[n].at < q.at,
         Tells(tab, cols, Range(items) \cup Rest), Sound(tab, cols, es.docs, es.damaged, Range(items) \cup Rest)
  PROVE  Sound(tab, cols, Bulk(es, items, refused).docs, Bulk(es, items, refused).damaged, Rest)
<1>0. DOMAIN items = 1 .. Len(items) /\ Len(items) \in Nat
  OBVIOUS
<1>1. PICK f : /\ f[0] = es
               /\ \A n \in DOMAIN items : f[n] = Told(f[n - 1], items, n, refused)
               /\ Bulk(es, items, refused) = f[Len(items)]
  BY <1>0, BulkSteps
<1> DEFINE P(n) == {items[m] : m \in n + 1 .. Len(items)} \cup Rest
           A == {n \in Nat : n <= Len(items) => f[n] \in States(cols) /\ Sound(tab, cols, f[n].docs, f[n].damaged, P(n))}
<1>2. P(0) = Range(items) \cup Rest
  BY <1>0 DEF Range
<1>3. 0 \in A
  BY <1>1, <1>2
<1>4. \A n \in DOMAIN items : items[n] \in Items(cols) /\ items[n].at \in Nat
  BY DEF Items, Requests
<1>5. ASSUME NEW n \in Nat, n + 1 <= Len(items)
      PROVE  /\ Tells(tab, cols, P(n))
             /\ items[n + 1] \in P(n) /\ P(n + 1) \subseteq P(n) /\ P(n) \subseteq P(n + 1) \cup {items[n + 1]}
             /\ \A p \in P(n) : p.at \in Nat
             /\ \A q \in P(n + 1) : q.id = items[n + 1].id => items[n + 1].at < q.at
  <2>1. /\ items[n + 1] \in P(n) /\ P(n + 1) \subseteq P(n) /\ P(n) \subseteq P(n + 1) \cup {items[n + 1]}
        /\ P(n) \subseteq P(0)
    <3>1. /\ n + 1 \in n + 1 .. Len(items) /\ (n + 1) + 1 .. Len(items) \subseteq n + 1 .. Len(items)
          /\ n + 1 .. Len(items) \subseteq ((n + 1) + 1 .. Len(items)) \cup {n + 1}
          /\ n + 1 .. Len(items) \subseteq 0 + 1 .. Len(items)
      BY <1>0, <1>5
    <3> QED
      BY <3>1
  <2>2. \A p \in P(0) : p.at \in Nat
    BY <1>0, <1>4
  <2>3. \A q \in P(n + 1) : q.id = items[n + 1].id => items[n + 1].at < q.at
    <3> SUFFICES ASSUME NEW q \in P(n + 1), q.id = items[n + 1].id PROVE items[n + 1].at < q.at
      OBVIOUS
    <3>0. n + 1 \in DOMAIN items
      BY <1>0, <1>5
    <3>1. CASE q \in Rest
      BY <3>0, <3>1
    <3>2. CASE q \notin Rest
      <4>1. PICK m \in (n + 1) + 1 .. Len(items) : q = items[m]
        BY <3>2
      <4>2. m \in DOMAIN items /\ n + 1 < m
        BY <1>0, <4>1
      <4> QED
        BY <3>0, <4>1, <4>2 DEF Sorted
    <3> QED
      BY <3>1, <3>2
  <2>4. \A p \in P(0) \ P(n), q \in P(n) : p.id = q.id => p.at < q.at
    <3> SUFFICES ASSUME NEW p \in P(0) \ P(n), NEW q \in P(n), p.id = q.id PROVE p.at < q.at
      OBVIOUS
    <3>1. PICK m \in 1 .. Len(items) : p = items[m]
      BY <1>0
    <3>2. m \in DOMAIN items /\ m <= n
      BY <1>0, <3>1
    <3>3. CASE q \in Rest
      BY <3>1, <3>2, <3>3
    <3>4. CASE q \notin Rest
      <4>1. PICK k \in n + 1 .. Len(items) : q = items[k]
        BY <3>4
      <4>2. k \in DOMAIN items /\ m < k
        BY <1>0, <3>2, <4>1
      <4> QED
        BY <3>1, <3>2, <4>1, <4>2 DEF Sorted
    <3> QED
      BY <3>3, <3>4
  <2>5. Tells(tab, cols, P(n))
    <3>1. Tells(tab, cols, P(0))
      BY <1>2
    <3> HIDE DEF P
    <3> QED
      BY <2>1, <2>2, <2>4, <3>1, StillTells
  <2>6. \A p \in P(n) : p.at \in Nat
    BY <2>1, <2>2
  <2> HIDE DEF P
  <2> QED
    BY <2>1, <2>3, <2>5, <2>6
<1>6. ASSUME NEW n \in Nat, n \in A PROVE n + 1 \in A
  <2> SUFFICES ASSUME n + 1 <= Len(items)
               PROVE  f[n + 1] \in States(cols) /\ Sound(tab, cols, f[n + 1].docs, f[n + 1].damaged, P(n + 1))
    OBVIOUS
  <2>1. n + 1 \in DOMAIN items /\ (n + 1) - 1 = n /\ items[n + 1] \in Items(cols)
        /\ f[n] \in States(cols) /\ Sound(tab, cols, f[n].docs, f[n].damaged, P(n))
    BY <1>4, <1>6
  <2>2. f[n + 1] = Told(f[n], items, n + 1, refused)
    BY <1>1, <2>1
  <2>3. f[n + 1] \in States(cols)
    BY <2>1, <2>2, ItemTyped DEF Told
  <2>4. /\ Tells(tab, cols, P(n))
        /\ items[n + 1] \in P(n) /\ P(n + 1) \subseteq P(n) /\ P(n) \subseteq P(n + 1) \cup {items[n + 1]}
        /\ \A p \in P(n) : p.at \in Nat
        /\ \A q \in P(n + 1) : q.id = items[n + 1].id => items[n + 1].at < q.at
    BY <1>5
  <2> HIDE DEF P
  <2>5. Sound(tab, cols, f[n + 1].docs, f[n + 1].damaged, P(n + 1))
    BY <2>1, <2>2, <2>4, FirstItem DEF Told
  <2> QED
    BY <2>3, <2>5
<1>7. Len(items) \in A
  <2> HIDE DEF A
  <2> QED
    BY <1>0, <1>3, <1>6, Induct
<1>8. P(Len(items)) = Rest
  <2>1. Len(items) + 1 .. Len(items) = {}
    BY <1>0
  <2> QED
    BY <2>1
<1> HIDE DEF P
<1> QED
  BY <1>0, <1>1, <1>7, <1>8

(* The same requests may be told again later, when a restart reads them    *)
(* once more: telling them now does no harm to that.                       *)
LEMMA BulkStaysWithin ==
  ASSUME NEW tab, NEW cols \in SUBSET Cols, NEW es \in States(cols), NEW items \in Seq(Items(cols)), NEW refused,
         NEW Q, Range(items) \subseteq Q, Sound(tab, cols, es.docs, es.damaged, Q)
  PROVE  Sound(tab, cols, Bulk(es, items, refused).docs, Bulk(es, items, refused).damaged, Q)
<1>0. DOMAIN items = 1 .. Len(items) /\ Len(items) \in Nat
  OBVIOUS
<1>1. PICK f : /\ f[0] = es
               /\ \A n \in DOMAIN items : f[n] = Told(f[n - 1], items, n, refused)
               /\ Bulk(es, items, refused) = f[Len(items)]
  BY <1>0, BulkSteps
<1> DEFINE A == {n \in Nat : n <= Len(items) => f[n] \in States(cols) /\ Sound(tab, cols, f[n].docs, f[n].damaged, Q)}
<1>3. 0 \in A
  BY <1>1
<1>6. ASSUME NEW n \in Nat, n \in A PROVE n + 1 \in A
  <2> SUFFICES ASSUME n + 1 <= Len(items)
               PROVE  f[n + 1] \in States(cols) /\ Sound(tab, cols, f[n + 1].docs, f[n + 1].damaged, Q)
    OBVIOUS
  <2>1. n + 1 \in DOMAIN items /\ (n + 1) - 1 = n /\ items[n + 1] \in Items(cols) /\ items[n + 1] \in Q
        /\ f[n] \in States(cols) /\ Sound(tab, cols, f[n].docs, f[n].damaged, Q)
    BY <1>6 DEF Range
  <2>2. f[n + 1] = Told(f[n], items, n + 1, refused)
    BY <1>1, <2>1
  <2> QED
    <3>1. f[n + 1] \in States(cols)
      BY <2>1, <2>2, ItemTyped DEF Told
    <3>2. Sound(tab, cols, f[n + 1].docs, f[n + 1].damaged, Q)
      <4>1. /\ Sound(tab, cols, Refuse(f[n], items[n + 1]).docs, Refuse(f[n], items[n + 1]).damaged, Q)
            /\ Sound(tab, cols, Accept(f[n], items[n + 1]).docs, Accept(f[n], items[n + 1]).damaged, Q)
        BY <2>1, ItemWithin
      <4> QED
        BY <2>2, <4>1 DEF Told
    <3> QED
      BY <3>1, <3>2
<1>7. Len(items) \in A
  <2> HIDE DEF A
  <2> QED
    BY <1>3, <1>6, Induct
<1> QED
  BY <1>1, <1>7

(* What the requests of an event say of one id: nothing, what there is now, *)
(* or what has changed. *)
Follows(tab, after, cols, new, i) ==
  \/ after[i] = tab[i] /\ \A r \in new : r.id # i
  \/ \E r \in new :
       /\ r.id = i /\ \A q \in new : q.id = i => q = r
       /\ r.op \in {"index", "delete"} /\ (r.op = "index" <=> after[i] # None)
       /\ r.op = "index" => \A c \in cols : r.doc[c] = after[i][c]
  \/ \E r \in new :
       /\ r.id = i /\ \A q \in new : q.id = i => q = r
       /\ r.op = "update" /\ tab[i] # None /\ after[i] # None
       /\ \A c \in cols : IF c \in DOMAIN r.doc THEN r.doc[c] = after[i][c] ELSE after[i][c] = tab[i][c]

(* onRow makes such requests of every event that matches the table. *)
LEMMA EventFollows ==
  ASSUME rule \in [piped : BOOLEAN, filter : SUBSET Cols], NEW tab \in [Ids -> Rows \cup {None}],
         NEW e \in Entries, e.kind = "row", NEW at \in Nat,
         e.before = tab[e.id], e.id # e.to => tab[e.to] = None,
         NEW i \in Ids
  PROVE  Follows(tab, [tab EXCEPT ![e.id] = None, ![e.to] = e.after], rule.filter, Range(ReqsOf(e, at)), i)
<1> DEFINE after == [tab EXCEPT ![e.id] = None, ![e.to] = e.after]
           cols == rule.filter
<1>0. /\ e.id \in Ids /\ e.to \in Ids
      /\ e.before \in Rows \cup {None} /\ e.after \in Rows \cup {None}
      /\ e.before # None \/ e.after # None
      /\ e.id # e.to => e.before # None /\ e.after # None
      /\ cols \in SUBSET Cols
  BY DEF Entries
<1>1. /\ after[e.to] = e.after
      /\ e.id # e.to => after[e.id] = None
      /\ \A k \in Ids \ {e.id, e.to} : after[k] = tab[k]
  BY <1>0
<1> HIDE DEF after
<1>2. \A x : Range(<<x>>) = {x}
  BY DEF Range
<1>3. \A x, y : Range(<<x, y>>) = {x, y}
  BY DEF Range
<1>4. ASSUME NEW r \in Rows
      PROVE  /\ Index(at, e.to, r).id = e.to /\ Index(at, e.to, r).op = "index"
             /\ \A c \in cols : Index(at, e.to, r).doc[c] = r[c]
  BY DEF Index, Doc
<1>5. Delete(at, e.id).id = e.id /\ Delete(at, e.id).op = "delete"
  BY DEF Delete
<1>6. CASE e.before = None
  <2>1. e.id = e.to /\ e.after \in Rows /\ Range(ReqsOf(e, at)) = {Index(at, e.to, e.after)}
    BY <1>0, <1>2, <1>6 DEF ReqsOf
  <2> QED
    BY <1>0, <1>1, <1>4, <2>1 DEF Follows
<1>7. CASE e.before # None /\ e.after = None
  <2>1. e.id = e.to /\ Range(ReqsOf(e, at)) = {Delete(at, e.id)}
    BY <1>0, <1>2, <1>7 DEF ReqsOf
  <2> QED
    BY <1>0, <1>1, <1>5, <1>7, <2>1 DEF Follows
<1>8. CASE e.before # None /\ e.after # None /\ e.id # e.to
  <2>1. e.after \in Rows /\ Range(ReqsOf(e, at)) = {Delete(at, e.id), Index(at, e.to, e.after)}
    BY <1>0, <1>3, <1>8 DEF ReqsOf
  <2> DEFINE d == Delete(at, e.id)
             x == Index(at, e.to, e.after)
  <2>2. /\ d.id = e.id /\ d.op = "delete" /\ x.id = e.to /\ x.op = "index"
        /\ \A c \in cols : x.doc[c] = e.after[c]
    BY <1>4, <1>5, <2>1
  <2> HIDE DEF d, x
  <2>3. Range(ReqsOf(e, at)) = {d, x}
    BY <2>1 DEF d, x
  <2>4. CASE i = e.id
    BY <1>0, <1>1, <1>8, <2>2, <2>3, <2>4 DEF Follows
  <2>5. CASE i = e.to
    BY <1>0, <1>1, <1>8, <2>2, <2>3, <2>5 DEF Follows
  <2>6. CASE i # e.id /\ i # e.to
    BY <1>0, <1>1, <1>8, <2>2, <2>3, <2>6 DEF Follows
  <2> QED
    BY <2>4, <2>5, <2>6 DEF after, cols
<1>9. CASE e.before # None /\ e.after # None /\ e.id = e.to /\ rule.piped
  <2>1. e.after \in Rows /\ Range(ReqsOf(e, at)) = {Index(at, e.to, e.after)}
    BY <1>0, <1>2, <1>9 DEF ReqsOf
  <2> QED
    BY <1>0, <1>1, <1>4, <1>9, <2>1 DEF Follows
<1>10. CASE e.before # None /\ e.after # None /\ e.id = e.to /\ ~rule.piped
  <2> DEFINE u == [at |-> at, op |-> "update", id |-> e.id, doc |-> ReqData(e.before, e.after)]
  <2>1. e.after \in Rows /\ e.before \in Rows /\ Range(ReqsOf(e, at)) = {u}
    BY <1>0, <1>2, <1>10 DEF ReqsOf
  <2>2. u.id = e.id /\ u.op = "update"
    OBVIOUS
  <2>3. ASSUME NEW c \in cols
        PROVE  IF c \in DOMAIN u.doc THEN u.doc[c] = e.after[c] ELSE e.after[c] = e.before[c]
    BY DEF ReqData
  <2> HIDE DEF u
  <2>4. tab[e.id] = e.before /\ after[e.id] = e.after
    BY <1>1, <1>10
  <2> QED
    BY <1>0, <1>1, <1>10, <2>1, <2>2, <2>3, <2>4 DEF Follows
<1> QED
  BY <1>0, <1>6, <1>7, <1>8, <1>9, <1>10 DEF after

(* Requests of a new event, behind all others, tell the new table. *)
LEMMA NewsTell ==
  ASSUME NEW tab, NEW after, NEW cols, NEW P, NEW new, NEW at \in Nat,
         \A p \in P : p.id \in Ids /\ p.at \in Nat /\ p.at < at,
         \A r \in new : r.id \in Ids /\ r.at = at,
         \A i \in Ids : Follows(tab, after, cols, new, i),
         Tells(tab, cols, P)
  PROVE  Tells(after, cols, P \cup new)
<1> SUFFICES ASSUME NEW r \in P \cup new
             PROVE  /\ Whole(r, r.id) /\ (\A q \in P \cup new : Whole(q, r.id) => q.at <= r.at)
                         => (r.op = "index" <=> after[r.id] # None)
                    /\ \A c \in cols :
                         /\ Touches(r, r.id, c) /\ \A q \in P \cup new : Touches(q, r.id, c) => q.at <= r.at
                         /\ r.op # "delete" /\ after[r.id] # None
                         => r.doc[c] = after[r.id][c]
  BY DEF Tells
<1> DEFINE i == r.id
<1>0. i \in Ids
  OBVIOUS
<1> HIDE DEF i
<1>1. CASE after[i] = tab[i] /\ \A q \in new : q.id # i
  <2>1. r \in P
    BY <1>1 DEF i
  <2> QED
    BY <1>1, <2>1 DEF Tells, i
<1>2. ASSUME NEW n \in new,
             n.id = i, \A q \in new : q.id = i => q = n,
             n.op \in {"index", "delete"}, n.op = "index" <=> after[i] # None,
             n.op = "index" => \A c \in cols : n.doc[c] = after[i][c]
      PROVE  /\ Whole(r, r.id) /\ (\A q \in P \cup new : Whole(q, r.id) => q.at <= r.at)
                         => (r.op = "index" <=> after[r.id] # None)
             /\ \A c \in cols :
                         /\ Touches(r, r.id, c) /\ \A q \in P \cup new : Touches(q, r.id, c) => q.at <= r.at
                         /\ r.op # "delete" /\ after[r.id] # None
                         => r.doc[c] = after[r.id][c]
  <2>1. CASE r \in P
    <3>1. Whole(n, i) /\ (\A c \in cols : Touches(n, i, c)) /\ ~(n.at <= r.at)
      BY <1>2, <2>1 DEF Whole, Touches
    <3> QED
      BY <3>1 DEF i
  <2>2. CASE r \in new
    <3>1. r = n
      BY <1>2, <2>2 DEF i
    <3> QED
      BY <1>2, <3>1 DEF i
  <2> QED
    BY <2>1, <2>2
<1>3. ASSUME NEW n \in new,
             n.id = i, \A q \in new : q.id = i => q = n,
             n.op = "update", tab[i] # None, after[i] # None,
             \A c \in cols : IF c \in DOMAIN n.doc THEN n.doc[c] = after[i][c] ELSE after[i][c] = tab[i][c]
      PROVE  /\ Whole(r, r.id) /\ (\A q \in P \cup new : Whole(q, r.id) => q.at <= r.at)
                         => (r.op = "index" <=> after[r.id] # None)
             /\ \A c \in cols :
                         /\ Touches(r, r.id, c) /\ \A q \in P \cup new : Touches(q, r.id, c) => q.at <= r.at
                         /\ r.op # "delete" /\ after[r.id] # None
                         => r.doc[c] = after[r.id][c]
  <2>1. CASE r \in P
    <3>1. ASSUME Whole(r, r.id), \A q \in P \cup new : Whole(q, r.id) => q.at <= r.at
          PROVE  r.op = "index" <=> after[r.id] # None
      <4>1. r.op = "index" <=> tab[r.id] # None
        BY <2>1, <3>1 DEF Tells
      <4> QED
        BY <1>3, <4>1 DEF i
    <3>2. ASSUME NEW c \in cols, Touches(r, r.id, c), \A q \in P \cup new : Touches(q, r.id, c) => q.at <= r.at,
                 r.op # "delete"
          PROVE  r.doc[c] = after[r.id][c]
      <4>1. c \notin DOMAIN n.doc
        <5>1. ~(n.at <= r.at)
          BY <1>3, <2>1
        <5> QED
          BY <1>3, <3>2, <5>1 DEF Touches, i
      <4>2. r.doc[c] = tab[r.id][c]
        BY <1>3, <2>1, <3>2 DEF Tells, i
      <4> QED
        BY <1>3, <4>1, <4>2 DEF i
    <3> QED
      BY <3>1, <3>2
  <2>2. CASE r \in new
    <3>1. r = n
      BY <1>3, <2>2 DEF i
    <3> QED
      BY <1>3, <3>1 DEF i, Whole, Touches
  <2> QED
    BY <2>1, <2>2
<1>4. Follows(tab, after, cols, new, i)
  BY <1>0
<1> QED
  BY <1>1, <1>2, <1>3, <1>4 DEF Follows

(* The index leads to the new table with them. *)
LEMMA NewsLead ==
  ASSUME NEW tab, NEW after, NEW cols, NEW P, NEW new, NEW docs, NEW wrong,
         \A i \in Ids : Follows(tab, after, cols, new, i),
         Sound(tab, cols, docs, wrong, P)
  PROVE  Sound(after, cols, docs, wrong, P \cup new)
<1> SUFFICES ASSUME NEW i \in Ids \ wrong
             PROVE  Leads(after, cols, docs, i, P \cup new)
  BY DEF Sound
<1>0. Follows(tab, after, cols, new, i) /\ Leads(tab, cols, docs, i, P)
  BY DEF Sound
<1>1. CASE after[i] = tab[i]
  BY <1>0, <1>1 DEF Leads
<1>2. ASSUME NEW n \in new, n.id = i, n.op \in {"index", "delete"}
      PROVE  Leads(after, cols, docs, i, P \cup new)
  <2>1. Whole(n, i) /\ \A c \in cols : Touches(n, i, c)
    BY <1>2 DEF Whole, Touches
  <2> QED
    BY <2>1 DEF Leads
<1>3. ASSUME NEW n \in new, n.id = i, n.op = "update", tab[i] # None, after[i] # None,
             \A c \in cols : IF c \in DOMAIN n.doc THEN n.doc[c] = after[i][c] ELSE after[i][c] = tab[i][c]
      PROVE  Leads(after, cols, docs, i, P \cup new)
  <2>1. (\A r \in P \cup new : ~Whole(r, i)) => (docs[i] = None <=> after[i] = None)
    BY <1>0, <1>3 DEF Leads
  <2>2. ASSUME NEW c \in cols, \A r \in P \cup new : ~Touches(r, i, c)
        PROVE  docs[i][c] = after[i][c]
    <3>1. c \notin DOMAIN n.doc
      BY <1>3, <2>2 DEF Touches
    <3> QED
      BY <1>0, <1>3, <2>2, <3>1 DEF Leads
  <2> QED
    BY <2>1, <2>2 DEF Leads
<1> QED
  BY <1>0, <1>1, <1>2, <1>3 DEF Follows

(* The requests of one event are on different ids. *)
LEMMA EventItems ==
  ASSUME rule \in [piped : BOOLEAN, filter : SUBSET Cols],
         NEW e \in Entries, e.kind = "row", NEW at \in Nat
  PROVE  /\ ReqsOf(e, at) \in Seq(Items(rule.filter))
         /\ Sorted(ReqsOf(e, at))
         /\ \A r \in Range(ReqsOf(e, at)) : r \in Items(rule.filter) /\ r.at = at
<1>1. ReqsOf(e, at) \in Seq(Requests) /\ \A n \in DOMAIN ReqsOf(e, at) : ReqsOf(e, at)[n].at = at
  BY ReqsOfEvent
<1>2. /\ e.before \in Rows \cup {None} /\ e.after \in Rows \cup {None}
      /\ e.before # None \/ e.after # None
  BY DEF Entries
<1>3. ASSUME NEW r \in Rows PROVE Doc(r) \in [rule.filter -> Vals]
  BY DEF Doc
<1>4. /\ \A n \in DOMAIN ReqsOf(e, at) : ReqsOf(e, at)[n].op = "index" => ReqsOf(e, at)[n].doc \in [rule.filter -> Vals]
      /\ Sorted(ReqsOf(e, at))
  <2>1. CASE e.before = None
    <3>1. ReqsOf(e, at) = <<Index(at, e.to, e.after)>> /\ e.after \in Rows
      BY <1>2, <2>1 DEF ReqsOf
    <3> QED
      BY <1>3, <3>1 DEF Index, Sorted
  <2>2. CASE e.before # None /\ e.after = None
    <3>1. ReqsOf(e, at) = <<Delete(at, e.id)>>
      BY <1>2, <2>2 DEF ReqsOf
    <3> QED
      BY <3>1 DEF Delete, Sorted
  <2>3. CASE e.before # None /\ e.after # None /\ e.id # e.to
    <3> DEFINE d == Delete(at, e.id)
               x == Index(at, e.to, e.after)
    <3>1. ReqsOf(e, at) = <<d, x>> /\ e.after \in Rows
      BY <1>2, <2>3 DEF ReqsOf
    <3>2. d.op = "delete" /\ d.id = e.id /\ x.id = e.to /\ x.doc \in [rule.filter -> Vals]
      BY <1>3, <3>1 DEF Delete, Index
    <3> HIDE DEF d, x
    <3> QED
      BY <2>3, <3>1, <3>2 DEF Sorted
  <2>4. CASE e.before # None /\ e.after # None /\ e.id = e.to
    <3> DEFINE u == [at |-> at, op |-> "update", id |-> e.id, doc |-> ReqData(e.before, e.after)]
    <3>1. ReqsOf(e, at) = (IF rule.piped THEN <<Index(at, e.to, e.after)>> ELSE <<u>>) /\ e.after \in Rows
      BY <1>2, <2>4 DEF ReqsOf
    <3>2. u.op = "update"
      OBVIOUS
    <3> HIDE DEF u
    <3> QED
      BY <1>3, <3>1, <3>2 DEF Index, Sorted
  <2> QED
    BY <2>1, <2>2, <2>3, <2>4
<1>5. ReqsOf(e, at) \in Seq(Items(rule.filter))
  BY <1>1, <1>4 DEF Items
<1> QED
  BY <1>1, <1>4, <1>5 DEF Range

-----------------------------------------------------------------------------
(* What the index and the pending requests say of the table, and how the    *)
(* steps keep it. *)

(* The positions that are, or may come to be, where a start resumes. *)
Marks == ({master, file, savePos} \ {NoPos, Torn})
         \cup {syncCh[m].at : m \in {k \in DOMAIN syncCh : syncCh[k].kind = "pos"}}

(* The types that depend on the rule, and the order of what was collected. *)
Shaped ==
  /\ index \in Documents(rule.filter) /\ damaged \in SUBSET Ids
  /\ reqs \in Seq(Items(rule.filter)) /\ Sorted(reqs)
  /\ \A m \in DOMAIN syncCh :
       syncCh[m].kind = "reqs" => syncCh[m].reqs \in Seq(Items(rule.filter)) /\ Sorted(syncCh[m].reqs)

(* A request that is not of the binlog is of the dump, before any position. *)
DumpFirst == \A r \in InFlight : r \in LogItems \/ \A p \in Marks : r.at < p

(* While the River runs, the requests that are pending tell the table, and *)
(* the rest of the index is right.                                         *)
Running ==
  loop # "off" => /\ Tells(table, rule.filter, Pending)
                  /\ Sound(table, rule.filter, index, damaged, Pending)

(* And whatever happens to it, what lies behind the position in the file   *)
(* makes up for everything that is wrong.                                  *)
Resumable == file \in Nat => Sound(table, rule.filter, index, damaged, After(file))

(* The inductive invariant, beside that of the positions. *)
IndexInv ==
  /\ Shaped /\ DumpFirst /\ Running /\ Resumable
  /\ Tells(table, rule.filter, LogItems)

(* The requests of the binlog. *)
LEMMA LogItemsTyped ==
  ASSUME Typed
  PROVE  \A r \in LogItems : r \in Items(rule.filter) /\ r.id \in Ids /\ r.at \in Nat /\ r.at <= Len(log)
<1> SUFFICES ASSUME NEW r \in LogItems
             PROVE  r \in Items(rule.filter) /\ r.id \in Ids /\ r.at \in Nat /\ r.at <= Len(log)
  OBVIOUS
<1>1. PICK n \in DOMAIN log : r \in ItemsOf(log[n], n)
  BY DEF LogItems
<1>2. n \in Nat /\ n <= Len(log) /\ log[n] \in Entries
  BY DEF Typed
<1>3. log[n].kind = "row" /\ r \in Range(ReqsOf(log[n], n))
  BY <1>1 DEF ItemsOf
<1>0. rule \in [piped : BOOLEAN, filter : SUBSET Cols]
  BY DEF Typed
<1>4. r \in Items(rule.filter) /\ r.at = n
  BY <1>0, <1>2, <1>3, EventItems
<1> QED
  BY <1>2, <1>4 DEF Items, Requests

(* The requests in memory. *)
LEMMA InFlightTyped ==
  ASSUME Typed, InOrder, Shaped
  PROVE  /\ \A r \in InFlight : r \in Items(rule.filter) /\ r.id \in Ids /\ r.at \in Nat /\ r.at <= cursor
         /\ \A r \in InFlight : \/ r \in Range(reqs)
                               \/ \E m \in DOMAIN syncCh : syncCh[m].kind = "reqs" /\ r \in Range(syncCh[m].reqs) /\ r.at = syncCh[m].at
<1> SUFFICES ASSUME NEW r \in InFlight
             PROVE  /\ r \in Items(rule.filter) /\ r.id \in Ids /\ r.at \in Nat /\ r.at <= cursor
                    /\ \/ r \in Range(reqs)
                       \/ \E m \in DOMAIN syncCh : syncCh[m].kind = "reqs" /\ r \in Range(syncCh[m].reqs) /\ r.at = syncCh[m].at
  OBVIOUS
<1>1. \A q \in Items(rule.filter) : q.id \in Ids /\ q.at \in Nat
  BY DEF Items, Requests
<1>2. CASE r \in Range(reqs)
  <2>1. PICK n \in DOMAIN reqs : r = reqs[n]
    BY <1>2 DEF Range
  <2>2. r \in Items(rule.filter)
    BY <2>1 DEF Shaped
  <2>3. r.at <= cursor
    BY <2>1, Zenon DEF InOrder
  <2> QED
    BY <1>1, <1>2, <2>2, <2>3
<1>3. CASE r \notin Range(reqs)
  <2>1. PICK m \in DOMAIN syncCh : syncCh[m].kind = "reqs" /\ r \in Range(syncCh[m].reqs)
    BY <1>3 DEF InFlight, Range
  <2>2. PICK n \in DOMAIN syncCh[m].reqs : r = syncCh[m].reqs[n]
    BY <2>1 DEF Range
  <2>3. r \in Items(rule.filter)
    BY <2>1, <2>2 DEF Shaped
  <2>4. r.at = syncCh[m].at /\ syncCh[m].at <= cursor
    BY <2>1, <2>2, Zenon DEF InOrder
  <2> QED
    BY <1>1, <2>1, <2>3, <2>4
<1> QED
  BY <1>2, <1>3

(* An event that MySQL appends adds its requests. *)
LEMMA LogGrows ==
  ASSUME Typed, rule' = rule, NEW more \in Seq(Entries), log' = log \o more
  PROVE  /\ LogItems \subseteq LogItems'
         /\ \A r \in LogItems' : r \in LogItems \/ \E k \in DOMAIN more : r \in ItemsOf(more[k], Len(log) + k)
         /\ \A k \in DOMAIN more : ItemsOf(more[k], Len(log) + k) \subseteq LogItems'
<1>1. Len(log) \in Nat /\ DOMAIN log = 1 .. Len(log) /\ DOMAIN more = 1 .. Len(more) /\ Len(more) \in Nat
  BY DEF Typed
<1>2. /\ DOMAIN log' = 1 .. Len(log) + Len(more)
      /\ \A n \in 1 .. Len(log) : log'[n] = log[n]
      /\ \A n \in 1 .. Len(more) : log'[Len(log) + n] = more[n]
  BY <1>1, ConcatProperties DEF Typed
<1>3. ASSUME NEW e, NEW at PROVE ItemsOf(e, at)' = ItemsOf(e, at)
  BY DEF ItemsOf, ReqsOf, Index, Delete, Doc, ReqData
<1>4. \A r : r \in LogItems' <=> \E n \in DOMAIN log' : r \in ItemsOf(log'[n], n)
  BY <1>3, Zenon DEF LogItems
<1>5. \A r : r \in LogItems <=> \E n \in DOMAIN log : r \in ItemsOf(log[n], n)
  BY Zenon DEF LogItems
<1>6. ASSUME NEW n \in DOMAIN log'
      PROVE  \/ n \in DOMAIN log /\ log'[n] = log[n]
             \/ \E k \in DOMAIN more : n = Len(log) + k /\ log'[n] = more[k]
  <2>1. CASE n <= Len(log)
    BY <1>1, <1>2, <2>1
  <2>2. CASE n > Len(log)
    <3>1. n - Len(log) \in 1 .. Len(more) /\ n = Len(log) + (n - Len(log))
      BY <1>1, <1>2, <2>2
    <3> QED
      BY <1>1, <1>2, <3>1
  <2> QED
    BY <1>1, <1>2, <2>1, <2>2
<1>7. \A k \in DOMAIN more : Len(log) + k \in DOMAIN log' /\ log'[Len(log) + k] = more[k]
  BY <1>1, <1>2
<1>8. \A n \in DOMAIN log : n \in DOMAIN log' /\ log'[n] = log[n]
  BY <1>1, <1>2
<1>9. LogItems \subseteq LogItems'
  BY <1>4, <1>5, <1>8, Zenon
<1>10. \A r \in LogItems' : r \in LogItems \/ \E k \in DOMAIN more : r \in ItemsOf(more[k], Len(log) + k)
  <2> SUFFICES ASSUME NEW r \in LogItems'
               PROVE  r \in LogItems \/ \E k \in DOMAIN more : r \in ItemsOf(more[k], Len(log) + k)
    OBVIOUS
  <2>1. PICK n \in DOMAIN log' : r \in ItemsOf(log'[n], n)
    BY <1>4
  <2>2. CASE n \in DOMAIN log /\ log'[n] = log[n]
    BY <1>5, <2>1, <2>2, Zenon
  <2>3. CASE \E k \in DOMAIN more : n = Len(log) + k /\ log'[n] = more[k]
    BY <2>1, <2>3, Zenon
  <2> QED
    BY <1>6, <2>2, <2>3
<1>11. \A k \in DOMAIN more : ItemsOf(more[k], Len(log) + k) \subseteq LogItems'
  BY <1>4, <1>7, Zenon
<1> QED
  BY <1>9, <1>10, <1>11

(* A commit: its requests are behind all others. *)
LEMMA CommitKeepsIndex ==
  ASSUME Inv, IndexInv, NEW i \in Ids, NEW j \in Ids, NEW new \in Rows \cup {None}, Commit(i, j, new)
  PROVE  IndexInv'
<1> DEFINE e == [kind |-> "row", id |-> i, to |-> j, before |-> table[i], after |-> new]
           x == [kind |-> "xid"]
           at == Len(log) + 1
           f == rule.filter
<1>0. /\ table \in [Ids -> Rows \cup {None}] /\ Len(log) \in Nat /\ at \in Nat /\ cursor \in Nat
      /\ rule \in [piped : BOOLEAN, filter : SUBSET Cols] /\ cursor <= Len(log)
      /\ file \in {NoPos, Torn} \cup Nat
  BY DEF Inv, Typed, Within
<1>1. /\ table' = [table EXCEPT ![i] = None, ![j] = new] /\ log' = log \o <<e, x>>
      /\ UNCHANGED <<rule, cursor, syncCh, loop, reqs, savePos, master, file, index, damaged>>
  BY DEF Commit, loopVars, saveVars
<1>2. e \in Entries /\ x \in Entries /\ e.kind = "row" /\ e.before = table[e.id] /\ (e.id # e.to => table[e.to] = None)
      /\ table' = [table EXCEPT ![e.id] = None, ![e.to] = e.after]
  BY <1>0, <1>1 DEF Commit, Entries
<1>3. x.kind # "row"
  OBVIOUS
<1> HIDE DEF e, x
<1> DEFINE news == Range(ReqsOf(e, at))
<1>4. /\ <<e, x>> \in Seq(Entries) /\ DOMAIN <<e, x>> = {1, 2} /\ <<e, x>>[1] = e /\ <<e, x>>[2] = x
  BY <1>2
<1>5. /\ ItemsOf(e, at) = news /\ \A n : ItemsOf(x, n) = {}
  BY <1>2, <1>3 DEF ItemsOf
<1>6. LogItems' = LogItems \cup news
  <2>1. PICK more : more = <<e, x>>
    OBVIOUS
  <2>2. /\ LogItems \subseteq LogItems'
        /\ \A r \in LogItems' : r \in LogItems \/ \E k \in DOMAIN more : r \in ItemsOf(more[k], Len(log) + k)
        /\ \A k \in DOMAIN more : ItemsOf(more[k], Len(log) + k) \subseteq LogItems'
    BY <1>1, <1>4, <2>1, LogGrows DEF Inv
  <2> HIDE DEF news
  <2> QED
    BY <1>4, <1>5, <2>1, <2>2
<1>7. \A r \in news : r \in Items(f) /\ r.at = at /\ r.id \in Ids
  <2>1. \A r \in news : r \in Items(f) /\ r.at = at
    <3> HIDE DEF at
    <3> QED
      BY <1>0, <1>2, EventItems
  <2> HIDE DEF news
  <2> QED
    BY <2>1 DEF Items, Requests
<1>8. \A k \in Ids : Follows(table, table', f, news, k)
  BY <1>0, <1>2, EventFollows
<1>9. \A r \in LogItems : r.id \in Ids /\ r.at \in Nat /\ r.at < at
  BY <1>0, LogItemsTyped DEF Inv
<1>10. \A r \in InFlight : r.id \in Ids /\ r.at \in Nat /\ r.at < at
  BY <1>0, InFlightTyped DEF Inv, IndexInv
<1>11. InFlight' = InFlight
  BY <1>1 DEF InFlight
<1> HIDE DEF news, at
<1>12. \A k \in Nat : k <= Len(log) => After(k)' = After(k) \cup news
  <2> SUFFICES ASSUME NEW k \in Nat, k <= Len(log) PROVE After(k)' = After(k) \cup news
    OBVIOUS
  <2>1. \A r \in news : k < r.at
    BY <1>0, <1>7 DEF at
  <2> QED
    BY <1>6, <2>1 DEF After
<1>13. Tells(table', f, LogItems')
  <2>1. Tells(table, f, LogItems)
    BY DEF IndexInv
  <2> HIDE DEF f
  <2> QED
    BY <1>0, <1>6, <1>7, <1>8, <1>9, <2>1, NewsTell
<1>14. Running'
  <2> SUFFICES ASSUME loop # "off"
               PROVE  Tells(table', f, Pending') /\ Sound(table', f, index, damaged, Pending')
    BY <1>1 DEF Running
  <2>1. Tells(table, f, Pending) /\ Sound(table, f, index, damaged, Pending)
    BY DEF IndexInv, Running
  <2>2. Pending' = Pending \cup news
    <3>1. After(cursor)' = After(cursor) \cup news
      BY <1>0, <1>1, <1>12 DEF After
    <3> QED
      BY <1>11, <3>1 DEF Pending
  <2>3. \A r \in Pending : r.id \in Ids /\ r.at \in Nat /\ r.at < at
    BY <1>9, <1>10 DEF Pending, After
  <2> HIDE DEF f
  <2> QED
    BY <1>0, <1>7, <1>8, <2>1, <2>2, <2>3, NewsTell, NewsLead
<1>15. Resumable'
  <2> SUFFICES ASSUME file \in Nat PROVE Sound(table', f, index, damaged, After(file)')
    BY <1>1 DEF Resumable
  <2>1. Sound(table, f, index, damaged, After(file))
    BY DEF IndexInv, Resumable
  <2>2. file <= Len(log)
    <3>1. file \in Positions
      BY DEF Positions
    <3> QED
      BY <3>1, Zenon DEF Inv, Within
  <2>3. After(file)' = After(file) \cup news
    BY <1>1, <1>12, <2>2 DEF After
  <2>4. Sound(table', f, index, damaged, After(file) \cup news)
    <3> HIDE DEF f
    <3> QED
      BY <1>8, <2>1, NewsLead
  <2> QED
    BY <2>3, <2>4
<1>16. Shaped'
  BY <1>1 DEF IndexInv, Shaped
<1>17. DumpFirst'
  BY <1>1, <1>6, <1>11 DEF IndexInv, DumpFirst, Marks
<1> QED
  BY <1>1, <1>13, <1>14, <1>15, <1>16, <1>17 DEF IndexInv

(* A step that neither adds requests nor applies any. *)
LEMMA IndexKept ==
  ASSUME Typed, IndexInv, UNCHANGED <<rule, table, index, damaged>>, LogItems' = LogItems,
         reqs' = reqs \/ reqs' = <<>>,
         \A m \in DOMAIN syncCh' : \E k \in DOMAIN syncCh : syncCh'[m] = syncCh[k],
         Marks' \subseteq Marks,
         loop' # "off" => loop # "off" /\ Pending' = Pending,
         file' = file \/ (file' \in Nat => Sound(table, rule.filter, index, damaged, After(file)'))
  PROVE  IndexInv'
<1>1. Shaped'
  <2>1. reqs' \in Seq(Items(rule.filter)) /\ Sorted(reqs')
    <3>1. CASE reqs' = reqs
      BY <3>1 DEF IndexInv, Shaped
    <3>2. CASE reqs' = <<>>
      BY <3>2 DEF Sorted
    <3> QED
      BY <3>1, <3>2
  <2>2. ASSUME NEW m \in DOMAIN syncCh', syncCh'[m].kind = "reqs"
        PROVE  syncCh'[m].reqs \in Seq(Items(rule.filter)) /\ Sorted(syncCh'[m].reqs)
    <3>1. PICK k \in DOMAIN syncCh : syncCh'[m] = syncCh[k]
      OBVIOUS
    <3> QED
      BY <2>2, <3>1, Zenon DEF IndexInv, Shaped
  <2> QED
    BY <2>1, <2>2, Zenon DEF IndexInv, Shaped
<1>2. InFlight' \subseteq InFlight
  <2> SUFFICES ASSUME NEW r \in InFlight' PROVE r \in InFlight
    OBVIOUS
  <2>1. CASE r \in Range(reqs')
    BY <2>1 DEF InFlight, Range
  <2>2. CASE r \notin Range(reqs')
    <3>1. PICK m \in DOMAIN syncCh' : syncCh'[m].kind = "reqs" /\ r \in Range(syncCh'[m].reqs)
      BY <2>2 DEF InFlight, Range
    <3>2. PICK k \in DOMAIN syncCh : syncCh'[m] = syncCh[k]
      OBVIOUS
    <3>3. syncCh[k].kind = "reqs" /\ r \in Range(syncCh[k].reqs) /\ syncCh[k] \in Range(syncCh)
      BY <3>1, <3>2 DEF Range
    <3> QED
      BY <3>3 DEF InFlight
  <2> QED
    BY <2>1, <2>2
<1>3. DumpFirst'
  BY <1>2 DEF IndexInv, DumpFirst
<1>4. Running'
  BY DEF IndexInv, Running
<1>5. Resumable'
  <2>1. CASE file' = file
    <3>1. After(file)' = After(file)
      BY <2>1 DEF After
    <3> QED
      BY <2>1, <3>1 DEF IndexInv, Resumable
  <2>2. CASE file' \in Nat => Sound(table, rule.filter, index, damaged, After(file)')
    BY <2>2 DEF Resumable
  <2> QED
    BY <2>1, <2>2
<1>6. Tells(table', rule.filter, LogItems')
  BY DEF IndexInv
<1> QED
  BY <1>1, <1>3, <1>4, <1>5, <1>6 DEF IndexInv

(* A statement that is not a row change makes no requests. *)
LEMMA AlterKeepsLog == ASSUME Typed, Alter PROVE LogItems' = LogItems
<1> DEFINE d == [kind |-> "ddl"]
<1>1. d \in Entries /\ log' = Append(log, d) /\ rule' = rule /\ d.kind # "row"
  BY DEF Alter, Entries
<1> HIDE DEF d
<1>2. PICK more : more = <<d>>
  OBVIOUS
<1>3. more \in Seq(Entries) /\ log' = log \o more /\ DOMAIN more = {1} /\ more[1] = d
  BY <1>1, <1>2 DEF Typed
<1>4. \A n : ItemsOf(d, n) = {}
  BY <1>1 DEF ItemsOf
<1>5. /\ LogItems \subseteq LogItems'
      /\ \A r \in LogItems' : r \in LogItems \/ \E k \in DOMAIN more : r \in ItemsOf(more[k], Len(log) + k)
  BY <1>1, <1>3, LogGrows
<1> QED
  BY <1>3, <1>4, <1>5

(* The requests of the binlog are those of its events. *)
LEMMA LogStays == ASSUME UNCHANGED <<rule, log>> PROVE LogItems' = LogItems
<1>1. ASSUME NEW e, NEW at PROVE ItemsOf(e, at)' = ItemsOf(e, at)
  BY DEF ItemsOf, ReqsOf, Index, Delete, Doc, ReqData
<1>2. \A r : r \in LogItems' <=> \E n \in DOMAIN log : r \in ItemsOf(log[n], n)
  BY <1>1, Zenon DEF LogItems
<1>3. \A r : r \in LogItems <=> \E n \in DOMAIN log : r \in ItemsOf(log[n], n)
  BY Zenon DEF LogItems
<1> QED
  BY <1>2, <1>3

(* MySQL's own steps, a canal that stops, the clock, and the ticker. *)
LEMMA OthersKeepIndex ==
  ASSUME Inv, IndexInv, Alter \/ OnRowFails \/ RunFails \/ Later \/ Tick \/ UNCHANGED riverVars
  PROVE  IndexInv'
<1>1. /\ UNCHANGED <<rule, table, index, damaged, cursor, syncCh, reqs, savePos, master, file>>
      /\ Alter \/ log' = log
      /\ loop' # "off" => loop # "off"
  BY DEF Alter, OnRowFails, RunFails, Later, Tick, LoopFrame, riverVars, logVars, loopVars, saveVars
<1>2. LogItems' = LogItems
  BY <1>1, AlterKeepsLog, LogStays DEF Inv
<1>3. Marks' = Marks
  BY <1>1 DEF Marks
<1>4. Pending' = Pending
  BY <1>1, <1>2 DEF Pending, InFlight, After
<1> QED
  BY <1>1, <1>2, <1>3, <1>4, IndexKept DEF Inv

(* A crash: what was in memory is lost, the file stays. *)
LEMMA CrashKeepsIndex ==
  ASSUME Inv, IndexInv, Crash
  PROVE  IndexInv'
<1>1. /\ UNCHANGED <<rule, table, index, damaged, log, file>>
      /\ syncCh' = <<>> /\ reqs' = <<>> /\ savePos' = NoPos /\ master' = NoPos /\ loop' = "off"
  BY DEF Crash, logVars
<1>2. LogItems' = LogItems
  BY <1>1, LogStays
<1>3. Marks' \subseteq Marks
  BY <1>1 DEF Marks
<1> QED
  BY <1>1, <1>2, <1>3, IndexKept DEF Inv

(* syncLoop takes a position from the channel. *)
LEMMA TakePosKeepsIndex ==
  ASSUME Inv, IndexInv, TakePos
  PROVE  IndexInv'
<1>1. /\ UNCHANGED <<rule, table, index, damaged, log, cursor, reqs, master, file>>
      /\ syncCh # <<>> /\ syncCh' = Tail(syncCh) /\ loop # "off"
      /\ Head(syncCh).kind = "pos" /\ savePos' \in {savePos, Head(syncCh).at}
  BY DEF TakePos, LoopFrame, logVars, saveVars
<1>2. /\ 1 \in DOMAIN syncCh /\ syncCh[1].kind = "pos" /\ savePos' \in {savePos, syncCh[1].at}
      /\ \A m \in DOMAIN syncCh' : m + 1 \in DOMAIN syncCh /\ syncCh'[m] = syncCh[m + 1]
  BY <1>1, HeadTaken DEF Inv
<1>3. \A m \in DOMAIN syncCh : m # 1 => \E k \in DOMAIN syncCh' : syncCh'[k] = syncCh[m]
  <2> SUFFICES ASSUME NEW m \in DOMAIN syncCh, m # 1 PROVE \E k \in DOMAIN syncCh' : syncCh'[k] = syncCh[m]
    OBVIOUS
  <2>1. syncCh \in Seq(Messages)
    BY DEF Inv, Typed
  <2>2. m - 1 \in 1 .. Len(syncCh) - 1
    BY <2>1
  <2>3. Len(syncCh') = Len(syncCh) - 1 /\ DOMAIN syncCh' = 1 .. Len(syncCh')
    BY <1>1, <2>1, HeadTailProperties
  <2>4. m - 1 \in DOMAIN syncCh' /\ (m - 1) + 1 = m
    BY <2>1, <2>2, <2>3
  <2> QED
    BY <1>2, <2>4
<1>4. LogItems' = LogItems
  BY <1>1, LogStays
<1>5. Marks' \subseteq Marks
  BY <1>1, <1>2 DEF Marks
<1>6. \A m : m \in Range(syncCh') => m \in Range(syncCh)
  BY <1>2 DEF Range
<1>7. \A m : m \in Range(syncCh) /\ m.kind = "reqs" => m \in Range(syncCh')
  BY <1>2, <1>3 DEF Range
<1>8. InFlight' = InFlight
  BY <1>1, <1>6, <1>7 DEF InFlight
<1>9. Pending' = Pending
  BY <1>1, <1>4, <1>8 DEF Pending, After
<1> QED
  BY <1>1, <1>2, <1>4, <1>5, <1>9, IndexKept DEF Inv

(* What is dropped, and what is saved.  Everything pending comes after a   *)
(* position that is saved. *)
LEMMA SavesKeepIndex ==
  ASSUME Inv, IndexInv, Done \/ SaveThrottled \/ Save \/ SaveFails \/ SaveTears
  PROVE  IndexInv'
<1>1. /\ UNCHANGED <<rule, table, index, damaged, log, cursor, syncCh>>
      /\ reqs' = reqs \/ reqs' = <<>>
      /\ loop' # "off" => loop # "off" /\ reqs' = reqs
      /\ Marks' \subseteq Marks
      /\ Save \/ file' = file \/ file' = Torn
  BY DEF Done, SaveThrottled, Save, SaveFails, SaveTears, SaveStep, LoopFrame, logVars, saveVars, Marks
<1>2. LogItems' = LogItems
  BY <1>1, LogStays
<1>3. loop' # "off" => Pending' = Pending
  BY <1>1, <1>2 DEF Pending, InFlight, After
<1>4. CASE Save
  <2>1. file' = savePos /\ loop = "save" /\ reqs = <<>> /\ savePos # NoPos
    BY <1>4 DEF Save, SaveStep, Inv, LoopKeepsPos
  <2>2. savePos \in Nat /\ savePos \in Positions /\ savePos \in Marks
    BY <2>1 DEF Inv, Typed, Positions, Marks
  <2>3. /\ savePos <= cursor /\ \A m \in DOMAIN syncCh : savePos < syncCh[m].at
        /\ cursor \in Nat
    BY <2>1, <2>2 DEF Inv, PositionsBehind, Typed
  <2>4. After(file)' = After(savePos)
    BY <1>2, <2>1 DEF After
  <2>5. Pending \subseteq After(savePos)
    <3> SUFFICES ASSUME NEW r \in Pending PROVE r \in After(savePos)
      OBVIOUS
    <3>1. CASE r \in InFlight
      <4>1. r \notin Range(reqs)
        BY <2>1 DEF Range
      <4>2. PICK m \in DOMAIN syncCh : r.at = syncCh[m].at
        BY <3>1, <4>1, InFlightTyped DEF Inv, IndexInv
      <4>3. r.at \in Nat /\ savePos < r.at
        BY <2>3, <3>1, <4>2, InFlightTyped DEF Inv, IndexInv
      <4>4. ~(r.at < savePos)
        BY <2>2, <4>3
      <4>5. r \in LogItems
        BY <2>2, <3>1, <4>4 DEF IndexInv, DumpFirst
      <4> QED
        BY <4>3, <4>5 DEF After
    <3>2. CASE r \in After(cursor)
      <4>1. r \in LogItems /\ cursor < r.at /\ r.at \in Nat
        BY <3>2, LogItemsTyped DEF Inv, After
      <4> QED
        BY <2>2, <2>3, <4>1 DEF After
    <3> QED
      BY <3>1, <3>2 DEF Pending
  <2>6. Sound(table, rule.filter, index, damaged, Pending)
    BY <2>1 DEF IndexInv, Running
  <2>7. Sound(table, rule.filter, index, damaged, After(savePos))
    BY <2>5, <2>6, Widened
  <2> QED
    BY <1>1, <1>2, <1>3, <2>4, <2>7, IndexKept DEF Inv
<1>5. CASE file' = file
  BY <1>1, <1>2, <1>3, <1>5, IndexKept DEF Inv
<1>6. CASE file' = Torn
  BY <1>1, <1>2, <1>3, <1>6, IndexKept DEF Inv
<1> QED
  BY <1>1, <1>4, <1>5, <1>6

(* The dump lists every row once. *)
LEMMA AllRowsDumped ==
  ASSUME NEW order \in SetToSeqs(Present)
  PROVE  /\ order \in Seq(Present) /\ DOMAIN order = 1 .. Len(order) /\ Len(order) \in Nat
         /\ \A n, m \in DOMAIN order : order[n] = order[m] => n = m
         /\ \A i \in Present : \E n \in DOMAIN order : order[n] = i
<1>1. IsFiniteSet(Present)
  BY FS_Subset DEF Present
<1>2. PICK len : len = Cardinality(Present)
  OBVIOUS
<1>3. len \in Nat
  BY <1>1, <1>2, FS_CardinalityType
<1>4. order \in [1 .. len -> Present] /\ \A i, j \in 1 .. len : i # j => order[i] # order[j]
  BY <1>2 DEF SetToSeqs
<1>5. order \in Injection(1 .. len, Present)
  BY <1>4 DEF Injection, IsInjective
<1>6. Cardinality(1 .. len) = len
  BY <1>3, FS_Interval
<1>7. order \in Surjection(1 .. len, Present)
  BY <1>1, <1>2, <1>5, <1>6, FS_Injection
<1>8. \A i \in Present : \E n \in 1 .. len : order[n] = i
  BY <1>7 DEF Surjection
<1> QED
  BY <1>3, <1>4, <1>8

(* A first start: the dump tells the whole table, and the documents of     *)
(* rows that are gone are left behind. *)
LEMMA DumpStarts ==
  ASSUME Inv, IndexInv, Start, file = NoPos
  PROVE  IndexInv'
<1> DEFINE f == rule.filter
<1>0. /\ table \in [Ids -> Rows \cup {None}] /\ Len(log) \in Nat
      /\ rule \in [piped : BOOLEAN, filter : SUBSET Cols] /\ index \in Documents(f)
  BY DEF Inv, Typed, IndexInv, Shaped
<1>1. /\ UNCHANGED <<rule, table, index, log, file>>
      /\ cursor' = Len(log) /\ reqs' = <<>> /\ savePos' = NoPos /\ master' = NoPos /\ loop' = "select"
      /\ damaged' = {i \in Ids : table[i] = None /\ index[i] # None}
  BY DEF Start, logVars
<1>2. PICK order \in SetToSeqs(Present) : syncCh' = Dump(order)
  BY DEF Start
<1>3. /\ order \in Seq(Present) /\ DOMAIN order = 1 .. Len(order) /\ Len(order) \in Nat
      /\ \A n, m \in DOMAIN order : order[n] = order[m] => n = m
      /\ \A i \in Present : \E n \in DOMAIN order : order[n] = i
  BY AllRowsDumped
<1> DEFINE items == [n \in DOMAIN order |-> Index(Len(log), order[n], table[order[n]])]
           msg == [kind |-> "reqs", at |-> Len(log), reqs |-> items]
<1>4. ASSUME NEW n \in DOMAIN order
      PROVE  /\ items[n].id = order[n] /\ items[n].at = Len(log) /\ items[n].op = "index"
             /\ items[n].doc = Doc(table[order[n]]) /\ items[n].doc \in [f -> Vals]
             /\ items[n] \in Items(f) /\ order[n] \in Ids /\ table[order[n]] # None
             /\ \A c \in f : items[n].doc[c] = table[order[n]][c]
  <2>1. order[n] \in Ids /\ table[order[n]] # None /\ table[order[n]] \in Rows
    BY <1>0, <1>3 DEF Present
  <2>2. items[n] = Index(Len(log), order[n], table[order[n]])
    OBVIOUS
  <2>3. items[n] \in Requests
    BY <1>0, <2>1, <2>2, IndexTyped
  <2>4. Doc(table[order[n]]) \in [f -> Vals] /\ \A c \in f : Doc(table[order[n]])[c] = table[order[n]][c]
    BY <1>0, <2>1 DEF Doc
  <2> HIDE DEF items
  <2> QED
    BY <2>1, <2>2, <2>3, <2>4 DEF Index, Items
<1>5. DOMAIN items = DOMAIN order /\ items \in Seq(Items(f))
  <2>1. items = [n \in 1 .. Len(order) |-> items[n]]
    BY <1>3
  <2> HIDE DEF items
  <2>2. \A n \in 1 .. Len(order) : items[n] \in Items(f)
    BY <1>3, <1>4
  <2>3. items \in [1 .. Len(order) -> Items(f)]
    BY <2>1, <2>2
  <2> QED
    BY <1>3, <2>3
<1>6. syncCh' = IF Present = {} THEN <<>> ELSE <<msg>>
  BY <1>2 DEF Dump
<1>7. Present = {} => items = <<>>
  <2> SUFFICES ASSUME Present = {} PROVE DOMAIN items = {}
    BY <1>5
  <2> QED
    BY <1>3, <1>5
<1>8. msg.kind = "reqs" /\ msg.reqs = items
  OBVIOUS
<1> HIDE DEF msg
<1>9. InFlight' = Range(items)
  <2>1. CASE Present = {}
    BY <1>1, <1>6, <1>7, <2>1 DEF InFlight, Range
  <2>2. CASE Present # {}
    <3>1. Range(syncCh') = {msg} /\ Range(reqs') = {}
      BY <1>1, <1>6, <2>2 DEF Range
    <3> QED
      BY <1>8, <3>1 DEF InFlight
  <2> QED
    BY <2>1, <2>2
<1>10. \A r : r \in Range(items) <=> \E n \in DOMAIN order : r = items[n]
  BY <1>5 DEF Range
<1>11. Sorted(items)
  <2> HIDE DEF items
  <2> QED
    BY <1>3, <1>4, <1>5 DEF Sorted
<1>12. Shaped'
  <2>1. \A m \in DOMAIN syncCh' : syncCh'[m] = msg
    BY <1>6
  <2>2. damaged' \in SUBSET Ids
    BY <1>1
  <2>3. reqs' \in Seq(Items(f)) /\ Sorted(reqs')
    BY <1>1 DEF Sorted
  <2> HIDE DEF items
  <2> QED
    BY <1>0, <1>1, <1>5, <1>8, <1>11, <2>1, <2>2, <2>3 DEF Shaped
<1>13. Marks' = {}
  <2>1. \A m \in DOMAIN syncCh' : syncCh'[m].kind = "reqs"
    BY <1>6, <1>8
  <2> QED
    BY <1>1, <2>1 DEF Marks
<1>14. LogItems' = LogItems
  BY <1>1, LogStays
<1>15. After(cursor)' = {}
  <2>1. \A r \in LogItems : ~(Len(log) < r.at)
    BY <1>0, LogItemsTyped DEF Inv
  <2> QED
    BY <1>1, <1>14, <2>1 DEF After
<1>16. Pending' = Range(items)
  BY <1>9, <1>15 DEF Pending
<1> HIDE DEF items
<1>17. Tells(table, f, Range(items))
  BY <1>4, <1>10 DEF Tells
<1>18. Sound(table, f, index, damaged', Range(items))
  <2> SUFFICES ASSUME NEW i \in Ids, ~(table[i] = None /\ index[i] # None)
               PROVE  Leads(table, f, index, i, Range(items))
    BY <1>1 DEF Sound
  <2>1. CASE table[i] = None
    BY <2>1 DEF Leads
  <2>2. CASE table[i] # None
    <3>1. PICK n \in DOMAIN order : order[n] = i
      BY <1>3, <2>2 DEF Present
    <3>2. Whole(items[n], i) /\ (\A c \in f : Touches(items[n], i, c)) /\ items[n] \in Range(items)
      BY <1>4, <1>10, <3>1 DEF Whole, Touches
    <3> QED
      BY <3>2 DEF Leads
  <2> QED
    BY <2>1, <2>2
<1>19. Running'
  <2>1. PICK P : P = Range(items)
    OBVIOUS
  <2>2. Tells(table', rule'.filter, Pending') /\ Sound(table', rule'.filter, index', damaged', Pending')
    BY <1>1, <1>16, <1>17, <1>18
  <2> QED
    BY <2>2 DEF Running
<1>20. Resumable'
  BY <1>1 DEF Resumable
<1>21. DumpFirst'
  BY <1>13 DEF DumpFirst
<1>22. Tells(table', rule'.filter, LogItems')
  BY <1>1, <1>14 DEF IndexInv
<1> QED
  BY <1>12, <1>19, <1>20, <1>21, <1>22 DEF IndexInv

(* A start that resumes: all requests after the position are to come. *)
LEMMA ResumeStarts ==
  ASSUME Inv, IndexInv, Start, file # NoPos
  PROVE  IndexInv'
<1> DEFINE f == rule.filter
<1>1. /\ UNCHANGED <<rule, table, index, damaged, log, file>> /\ file # Torn
      /\ cursor' = file /\ reqs' = <<>> /\ savePos' = NoPos /\ master' = file /\ syncCh' = <<>>
  BY DEF Start, logVars
<1>2. file \in Nat
  BY <1>1 DEF Inv, Typed
<1>3. LogItems' = LogItems
  BY <1>1, LogStays
<1>4. InFlight' = {}
  BY <1>1 DEF InFlight, Range
<1>5. Pending' = After(file) /\ After(file)' = After(file)
  BY <1>1, <1>3, <1>4 DEF Pending, After
<1>6. Tells(table, f, LogItems) /\ Sound(table, f, index, damaged, After(file))
  BY <1>2 DEF IndexInv, Resumable
<1>7. Tells(table, f, After(file))
  <2>1. \A p \in LogItems : p.at \in Nat
    BY LogItemsTyped DEF Inv
  <2>2. \A p \in LogItems \ After(file), q \in After(file) : p.at < q.at
    BY <1>2, <2>1 DEF After
  <2>3. After(file) \subseteq LogItems
    BY DEF After
  <2> QED
    BY <1>6, <2>1, <2>2, <2>3, StillTells
<1>8. Shaped'
  BY <1>1 DEF IndexInv, Shaped, Sorted
<1>9. DumpFirst'
  BY <1>4 DEF DumpFirst
<1>10. Running' /\ Resumable'
  BY <1>1, <1>5, <1>6, <1>7 DEF Running, Resumable
<1>11. Tells(table', rule'.filter, LogItems')
  BY <1>1, <1>3, <1>6
<1> QED
  BY <1>8, <1>9, <1>10, <1>11 DEF IndexInv

(* The canal hands an event on: its requests were pending already. *)
LEMMA HandleKeepsIndex ==
  ASSUME Inv, IndexInv, Handle
  PROVE  IndexInv'
<1> DEFINE at == cursor + 1
           e == log[at]
           msg == Message(e, at)
           last == Len(syncCh) + 1
<1>1. /\ UNCHANGED <<rule, table, index, damaged, log, file, loop, reqs, savePos, master>>
      /\ cursor' = at /\ syncCh' = Append(syncCh, msg) /\ cursor < Len(log)
  BY DEF Handle, loopVars, saveVars, logVars
<1>2. /\ cursor \in Nat /\ at \in Nat /\ Len(log) \in Nat /\ at \in DOMAIN log /\ e \in Entries
      /\ rule \in [piped : BOOLEAN, filter : SUBSET Cols]
  BY <1>1 DEF Inv, Typed
<1>3. /\ msg.at = at
      /\ e.kind = "row" => msg.kind = "reqs" /\ msg.reqs = ReqsOf(e, at)
      /\ e.kind # "row" => msg.kind = "pos"
  BY DEF Message
<1>4. ItemsOf(e, at) = {r \in LogItems : r.at = at}
  <2>1. ASSUME NEW n \in DOMAIN log, NEW r \in ItemsOf(log[n], n) PROVE r.at = n
    <3>1. log[n] \in Entries /\ n \in Nat
      BY DEF Inv, Typed
    <3>2. log[n].kind = "row" /\ r \in Range(ReqsOf(log[n], n))
      BY <2>1 DEF ItemsOf
    <3> QED
      BY <1>2, <3>1, <3>2, EventItems
  <2>2. ASSUME NEW r \in ItemsOf(e, at) PROVE r \in LogItems /\ r.at = at
    BY <1>2, <2>1, <2>2 DEF LogItems
  <2>3. ASSUME NEW r \in LogItems, r.at = at PROVE r \in ItemsOf(e, at)
    <3>1. PICK n \in DOMAIN log : r \in ItemsOf(log[n], n)
      BY DEF LogItems
    <3> QED
      BY <2>1, <2>3, <3>1
  <2> QED
    BY <2>2, <2>3
<1> HIDE DEF msg, e
<1>5. LogItems' = LogItems
  BY <1>1, LogStays
<1>6. After(cursor) = After(at) \cup ItemsOf(e, at)
  <2>1. \A r \in LogItems : r.at \in Nat
    BY LogItemsTyped DEF Inv
  <2>2. \A r \in LogItems : cursor < r.at <=> at < r.at \/ r.at = at
    BY <1>2, <2>1
  <2> QED
    BY <1>4, <2>2 DEF After
<1>7. /\ DOMAIN syncCh' = (DOMAIN syncCh) \cup {last} /\ syncCh'[last] = msg /\ last \notin DOMAIN syncCh
      /\ \A m \in DOMAIN syncCh : syncCh'[m] = syncCh[m]
  BY <1>1, AppendProperties DEF Inv, Typed
<1>8. Range(syncCh') = Range(syncCh) \cup {msg}
  BY <1>7 DEF Range
<1>9. InFlight' = InFlight \cup ItemsOf(e, at)
  <2>1. (IF msg.kind = "reqs" THEN Range(msg.reqs) ELSE {}) = ItemsOf(e, at)
    BY <1>3 DEF ItemsOf
  <2>2. ASSUME NEW x PROVE x \in InFlight' <=> x \in InFlight \/ x \in ItemsOf(e, at)
    BY <1>1, <1>8, <2>1 DEF InFlight
  <2> QED
    BY <2>2
<1>10. Pending' = Pending
  <2>1. After(cursor)' = After(at)
    BY <1>1, <1>5 DEF After
  <2> QED
    BY <1>6, <1>9, <2>1 DEF Pending
<1>11. Marks' \subseteq Marks \cup {at}
  BY <1>1, <1>3, <1>7 DEF Marks
<1>12. DumpFirst'
  <2> SUFFICES ASSUME NEW r \in InFlight', r \notin LogItems', NEW p \in Marks' PROVE r.at < p
    BY DEF DumpFirst
  <2>1. r \in InFlight /\ r \notin LogItems
    BY <1>4, <1>5, <1>9
  <2>2. CASE p \in Marks
    BY <2>1, <2>2 DEF IndexInv, DumpFirst
  <2>3. CASE p = at
    <3>1. r.at \in Nat /\ r.at <= cursor
      BY <2>1, InFlightTyped DEF Inv, IndexInv
    <3> QED
      BY <1>2, <2>3, <3>1
  <2> QED
    BY <1>11, <2>2, <2>3
<1>13. Shaped'
  <2>1. ASSUME NEW m \in DOMAIN syncCh', syncCh'[m].kind = "reqs"
        PROVE  syncCh'[m].reqs \in Seq(Items(rule.filter)) /\ Sorted(syncCh'[m].reqs)
    <3>1. CASE m \in DOMAIN syncCh
      BY <1>7, <2>1, <3>1, Zenon DEF IndexInv, Shaped
    <3>2. CASE m = last
      <4>1. syncCh'[m] = msg /\ e.kind = "row" /\ msg.reqs = ReqsOf(e, at)
        BY <1>3, <1>7, <2>1, <3>2
      <4>2. ReqsOf(e, at) \in Seq(Items(rule.filter)) /\ Sorted(ReqsOf(e, at))
        BY <1>2, <4>1, EventItems
      <4> QED
        BY <4>1, <4>2
    <3> QED
      BY <1>7, <3>1, <3>2
  <2> QED
    BY <1>1, <2>1, Zenon DEF IndexInv, Shaped
<1>14. Running'
  BY <1>1, <1>10 DEF IndexInv, Running
<1>15. Resumable'
  BY <1>1, <1>5 DEF IndexInv, Resumable, After
<1>16. Tells(table', rule'.filter, LogItems')
  BY <1>1, <1>5 DEF IndexInv
<1> QED
  BY <1>12, <1>13, <1>14, <1>15, <1>16 DEF IndexInv

(* syncLoop collects the head of the channel. *)
LEMMA TakeReqsKeepsIndex ==
  ASSUME Inv, IndexInv, TakeReqs
  PROVE  IndexInv'
<1> DEFINE head == syncCh[1]
           f == rule.filter
<1>1. /\ UNCHANGED <<rule, table, index, damaged, log, cursor, file, savePos, master>>
      /\ syncCh # <<>> /\ syncCh' = Tail(syncCh) /\ loop # "off"
      /\ Head(syncCh).kind = "reqs" /\ reqs' = reqs \o Head(syncCh).reqs
  BY DEF TakeReqs, LoopFrame, logVars, saveVars
<1>2. /\ head = Head(syncCh) /\ 1 \in DOMAIN syncCh
      /\ \A m \in DOMAIN syncCh' : m + 1 \in DOMAIN syncCh /\ syncCh'[m] = syncCh[m + 1]
  BY <1>1, HeadTaken DEF Inv
<1>3. \A m \in DOMAIN syncCh : m # 1 => \E k \in DOMAIN syncCh' : syncCh'[k] = syncCh[m]
  <2> SUFFICES ASSUME NEW m \in DOMAIN syncCh, m # 1 PROVE \E k \in DOMAIN syncCh' : syncCh'[k] = syncCh[m]
    OBVIOUS
  <2>1. syncCh \in Seq(Messages)
    BY DEF Inv, Typed
  <2>2. m - 1 \in 1 .. Len(syncCh) - 1
    BY <2>1
  <2>3. Len(syncCh') = Len(syncCh) - 1 /\ DOMAIN syncCh' = 1 .. Len(syncCh')
    BY <1>1, <2>1, HeadTailProperties
  <2>4. m - 1 \in DOMAIN syncCh' /\ (m - 1) + 1 = m
    BY <2>1, <2>2, <2>3
  <2> QED
    BY <1>2, <2>4
<1>4. head.kind = "reqs" /\ reqs' = reqs \o head.reqs
  BY <1>1, <1>2
<1>5. /\ head.reqs \in Seq(Items(f)) /\ Sorted(head.reqs)
      /\ reqs \in Seq(Items(f)) /\ Sorted(reqs)
  BY <1>2, <1>4, Zenon DEF IndexInv, Shaped
<1>6. /\ \A n \in DOMAIN reqs : reqs[n].at < head.at
      /\ \A n \in DOMAIN head.reqs : head.reqs[n].at = head.at
  BY <1>2, <1>4, Zenon DEF Inv, InOrder
<1> HIDE DEF head
<1> DEFINE k == Len(reqs)
<1>7. /\ k \in Nat /\ DOMAIN reqs = 1 .. k /\ DOMAIN head.reqs = 1 .. Len(head.reqs) /\ Len(head.reqs) \in Nat
      /\ reqs' \in Seq(Items(f)) /\ DOMAIN reqs' = 1 .. k + Len(head.reqs)
      /\ \A n \in 1 .. k : reqs'[n] = reqs[n]
      /\ \A n \in 1 .. Len(head.reqs) : reqs'[k + n] = head.reqs[n]
  BY <1>4, <1>5, ConcatProperties
<1> HIDE DEF k
<1>8. ASSUME NEW n \in DOMAIN reqs'
      PROVE  \/ n \in DOMAIN reqs /\ reqs'[n] = reqs[n]
             \/ n - k \in DOMAIN head.reqs /\ reqs'[n] = head.reqs[n - k] /\ ~(n <= k)
  <2>1. CASE n <= k
    BY <1>7, <2>1
  <2>2. CASE ~(n <= k)
    <3>1. n - k \in 1 .. Len(head.reqs) /\ k + (n - k) = n
      BY <1>7, <2>2
    <3> QED
      BY <1>7, <2>2, <3>1
  <2> QED
    BY <2>1, <2>2
<1>9. Sorted(reqs')
  <2> SUFFICES ASSUME NEW n \in DOMAIN reqs', NEW m \in DOMAIN reqs', n < m, reqs'[n].id = reqs'[m].id
               PROVE  reqs'[n].at < reqs'[m].at
    BY DEF Sorted
  <2>1. CASE n \in DOMAIN reqs /\ m \in DOMAIN reqs
    <3>1. reqs'[n] = reqs[n] /\ reqs'[m] = reqs[m]
      BY <1>7, <2>1
    <3> QED
      BY <1>5, <2>1, <3>1 DEF Sorted
  <2>2. CASE n \in DOMAIN reqs /\ m \notin DOMAIN reqs
    <3>1. reqs'[n] = reqs[n] /\ m - k \in DOMAIN head.reqs /\ reqs'[m] = head.reqs[m - k]
      BY <1>7, <1>8, <2>2
    <3> QED
      BY <1>6, <2>2, <3>1
  <2>3. CASE n \notin DOMAIN reqs
    <3>1. n - k \in DOMAIN head.reqs /\ reqs'[n] = head.reqs[n - k] /\ ~(n <= k)
      BY <1>8, <2>3
    <3>2. m \notin DOMAIN reqs
      BY <1>7, <3>1
    <3>3. m - k \in DOMAIN head.reqs /\ reqs'[m] = head.reqs[m - k] /\ n - k < m - k
      BY <1>7, <1>8, <3>2
    <3> QED
      BY <1>5, <3>1, <3>3 DEF Sorted
  <2> QED
    BY <2>1, <2>2, <2>3
<1>10. Range(reqs') = Range(reqs) \cup Range(head.reqs)
  <2>1. ASSUME NEW n \in DOMAIN head.reqs PROVE k + n \in DOMAIN reqs' /\ reqs'[k + n] = head.reqs[n]
    BY <1>7
  <2>2. \A n \in DOMAIN reqs : n \in DOMAIN reqs' /\ reqs'[n] = reqs[n]
    BY <1>7
  <2>3. Range(reqs) \cup Range(head.reqs) \subseteq Range(reqs')
    BY <2>1, <2>2 DEF Range
  <2>4. Range(reqs') \subseteq Range(reqs) \cup Range(head.reqs)
    BY <1>8 DEF Range
  <2> QED
    BY <2>3, <2>4
<1>11. Range(syncCh) = Range(syncCh') \cup {head}
  <2>1. \A m \in Range(syncCh) : m \in Range(syncCh') \/ m = head
    BY <1>3 DEF Range, head
  <2>2. \A m \in Range(syncCh') : m \in Range(syncCh)
    BY <1>2 DEF Range
  <2>3. head \in Range(syncCh)
    BY <1>2 DEF Range, head
  <2> QED
    BY <2>1, <2>2, <2>3
<1>12. InFlight' = InFlight
  <2>1. ASSUME NEW x PROVE x \in InFlight' <=> x \in InFlight
    BY <1>4, <1>10, <1>11 DEF InFlight
  <2> QED
    BY <2>1
<1>13. LogItems' = LogItems
  BY <1>1, LogStays
<1>14. Pending' = Pending /\ After(file)' = After(file)
  BY <1>1, <1>12, <1>13 DEF Pending, After
<1>15. Marks' \subseteq Marks
  BY <1>1, <1>2 DEF Marks
<1>16. Shaped'
  <2>1. ASSUME NEW m \in DOMAIN syncCh', syncCh'[m].kind = "reqs"
        PROVE  syncCh'[m].reqs \in Seq(Items(f)) /\ Sorted(syncCh'[m].reqs)
    <3>1. m + 1 \in DOMAIN syncCh /\ syncCh'[m] = syncCh[m + 1]
      BY <1>2
    <3> QED
      BY <2>1, <3>1, Zenon DEF IndexInv, Shaped
  <2> QED
    BY <1>1, <1>7, <1>9, <2>1, Zenon DEF IndexInv, Shaped
<1>17. DumpFirst' /\ Running' /\ Resumable' /\ Tells(table', rule'.filter, LogItems')
  BY <1>1, <1>12, <1>13, <1>14, <1>15 DEF IndexInv, DumpFirst, Running, Resumable
<1> QED
  BY <1>16, <1>17 DEF IndexInv

(* A flush: the requests that were collected are applied or refused. *)
LEMMA FlushKeepsIndex ==
  ASSUME Inv, IndexInv, NEW refused, Flushed(refused)
  PROVE  IndexInv'
<1> DEFINE f == rule.filter
           es == [docs |-> index, damaged |-> damaged]
           Rest == {r \in Pending : r \notin Range(reqs)}
<1>0. /\ f \in SUBSET Cols /\ es \in States(f) /\ reqs \in Seq(Items(f)) /\ Sorted(reqs)
      /\ cursor \in Nat /\ Len(log) \in Nat
  BY DEF Inv, Typed, IndexInv, Shaped, States
<1>1. /\ UNCHANGED <<rule, table, log, cursor, syncCh, savePos, master, file>>
      /\ loop # "off" /\ reqs' = <<>>
      /\ index' = Bulk(es, reqs, refused).docs /\ damaged' = Bulk(es, reqs, refused).damaged
  BY DEF Flushed, LoopFrame, logVars, saveVars
<1>2. es.docs = index /\ es.damaged = damaged
  OBVIOUS
<1> HIDE DEF es
<1>3. index' \in Documents(f) /\ damaged' \in SUBSET Ids
  <2>1. Bulk(es, reqs, refused) \in States(f)
    <3> HIDE DEF f
    <3> QED
      BY <1>0, BulkTyped
  <2> QED
    BY <1>1, <2>1 DEF States
<1>4. LogItems' = LogItems
  BY <1>1, LogStays
<1>5. InFlight' \subseteq InFlight
  <2>1. Range(reqs') = {}
    BY <1>1 DEF Range
  <2> QED
    BY <1>1, <2>1 DEF InFlight
<1>6. /\ \A r \in LogItems : r.id \in Ids /\ r.at \in Nat
      /\ \A r \in InFlight : r.id \in Ids /\ r.at \in Nat /\ r.at <= cursor
  BY LogItemsTyped, InFlightTyped DEF Inv, IndexInv
<1>7. \A n \in DOMAIN reqs : reqs[n] \in InFlight /\ reqs[n].at \in Nat /\ reqs[n].at <= cursor
  <2>1. \A n \in DOMAIN reqs : reqs[n] \in InFlight
    BY DEF InFlight, Range
  <2> QED
    BY <1>6, <2>1
<1>8. ASSUME NEW q \in Pending'
      PROVE  q.at \in Nat /\ q \in Pending /\ \A n \in DOMAIN reqs : reqs[n].at < q.at
  <2>1. CASE q \in InFlight'
    <3>1. q \in InFlight /\ q.at \in Nat
      BY <1>5, <1>6, <2>1
    <3>2. PICK m \in Range(syncCh) : m.kind = "reqs" /\ q \in Range(m.reqs)
      <4>1. Range(reqs') = {}
        BY <1>1 DEF Range
      <4> QED
        BY <1>1, <2>1, <4>1 DEF InFlight
    <3>3. PICK k \in DOMAIN syncCh : m = syncCh[k]
      BY DEF Range
    <3>4. PICK j \in DOMAIN m.reqs : q = m.reqs[j]
      BY <3>2 DEF Range
    <3>5. q.at = m.at
      BY <3>2, <3>3, <3>4, Zenon DEF Inv, InOrder
    <3>6. \A n \in DOMAIN reqs : reqs[n].at < m.at
      BY <3>3, Zenon DEF Inv, InOrder
    <3> QED
      BY <3>1, <3>5, <3>6 DEF Pending
  <2>2. CASE q \in After(cursor)'
    <3>1. q \in After(cursor) /\ q.at \in Nat /\ cursor < q.at
      BY <1>1, <1>4, <1>6, <2>2 DEF After
    <3> QED
      BY <1>0, <1>7, <3>1 DEF Pending
  <2> QED
    BY <2>1, <2>2 DEF Pending
<1>9. Pending = Range(reqs) \cup Pending'
  <2>1. After(cursor)' = After(cursor)
    BY <1>1, <1>4 DEF After
  <2>2. InFlight = Range(reqs) \cup InFlight'
    <3>1. Range(reqs') = {}
      BY <1>1 DEF Range
    <3>2. ASSUME NEW x PROVE x \in InFlight <=> x \in Range(reqs) \/ x \in InFlight'
      BY <1>1, <3>1 DEF InFlight
    <3> QED
      BY <3>2
  <2> QED
    BY <2>1, <2>2 DEF Pending
<1>10. PICK rest : rest = Pending'
  OBVIOUS
<1>11. Tells(table, f, Range(reqs) \cup rest) /\ Sound(table, f, index, damaged, Range(reqs) \cup rest)
  BY <1>1, <1>9, <1>10 DEF IndexInv, Running
<1>12. Sound(table, f, index', damaged', rest)
  <2>1. /\ \A q \in rest : q.at \in Nat
        /\ \A n \in DOMAIN reqs, q \in rest : reqs[n].id = q.id => reqs[n].at < q.at
    BY <1>8, <1>10
  <2> HIDE DEF f
  <2>2. Sound(table, f, Bulk(es, reqs, refused).docs, Bulk(es, reqs, refused).damaged, rest)
    BY <1>0, <1>2, <1>11, <2>1, BulkCatchesUp
  <2> QED
    BY <1>1, <2>2
<1>13. Tells(table, f, rest)
  <2>0. /\ \A q \in rest : q.at \in Nat
        /\ \A n \in DOMAIN reqs, q \in rest : reqs[n].at < q.at
    BY <1>8, <1>10
  <2>1. \A p \in Range(reqs) \cup rest : p.at \in Nat
    BY <1>7, <2>0 DEF Range
  <2>2. \A p \in (Range(reqs) \cup rest) \ rest, q \in rest : p.at < q.at
    BY <2>0 DEF Range
  <2> HIDE DEF f
  <2> QED
    BY <1>11, <2>1, <2>2, StillTells
<1>14. Running'
  BY <1>1, <1>10, <1>12, <1>13 DEF Running
<1>15. Resumable'
  <2> SUFFICES ASSUME file \in Nat PROVE Sound(table, f, index', damaged', After(file)')
    BY <1>1 DEF Resumable
  <2>1. After(file)' = After(file) /\ Sound(table, f, index, damaged, After(file))
    BY <1>1, <1>4 DEF After, IndexInv, Resumable
  <2>2. Range(reqs) \subseteq After(file)
    <3> SUFFICES ASSUME NEW n \in DOMAIN reqs PROVE reqs[n] \in After(file)
      BY DEF Range
    <3>1. file \in Positions /\ file \in Marks
      BY DEF Positions, Marks
    <3>2. file < reqs[n].at
      BY <3>1, Zenon DEF Inv, PositionsBehind
    <3>3. ~(reqs[n].at < file)
      BY <1>7, <3>2
    <3>4. reqs[n] \in LogItems
      BY <1>7, <3>1, <3>3 DEF IndexInv, DumpFirst
    <3> QED
      BY <3>2, <3>4 DEF After
  <2>3. Sound(table, f, Bulk(es, reqs, refused).docs, Bulk(es, reqs, refused).damaged, After(file))
    <3> HIDE DEF f
    <3> QED
      BY <1>0, <1>2, <2>1, <2>2, BulkStaysWithin
  <2> QED
    BY <1>1, <2>1, <2>3
<1>16. Shaped'
  <2>1. reqs' \in Seq(Items(f)) /\ Sorted(reqs')
    BY <1>1 DEF Sorted
  <2> QED
    BY <1>1, <1>3, <2>1, Zenon DEF IndexInv, Shaped
<1>17. Marks' = Marks
  BY <1>1 DEF Marks
<1>18. DumpFirst'
  BY <1>4, <1>5, <1>17 DEF IndexInv, DumpFirst
<1>19. Tells(table', rule'.filter, LogItems')
  BY <1>1, <1>4 DEF IndexInv
<1> QED
  BY <1>14, <1>15, <1>16, <1>18, <1>19 DEF IndexInv

(* The process starts with no file and no index, or with both as they were left. *)
LEMMA InitIndex == Init => IndexInv
<1> SUFFICES ASSUME Init PROVE IndexInv
  OBVIOUS
<1> DEFINE f == rule.filter
<1>0. Typed
  BY InitTyped
<1>1. /\ table \in [Ids -> Rows \cup {None}] /\ f \in SUBSET Cols
      /\ log = <<>> /\ syncCh = <<>> /\ reqs = <<>> /\ damaged = {} /\ loop = "off"
  BY <1>0 DEF Init, Typed
<1>2. \/ file = NoPos /\ index = [i \in Ids |-> None]
      \/ file = 0 /\ index = IndexOf(table)
  BY DEF Init
<1>3. ASSUME NEW r \in Rows PROVE Doc(r) \in [f -> Vals] /\ \A c \in f : Doc(r)[c] = r[c]
  BY <1>1, <1>3 DEF Doc
<1>4. index \in Documents(f)
  <2>1. CASE index = [i \in Ids |-> None]
    BY <2>1 DEF Documents
  <2>2. CASE index = IndexOf(table)
    <3>1. \A i \in Ids : (IF table[i] = None THEN None ELSE Doc(table[i])) \in [f -> Vals] \cup {None}
      BY <1>1, <1>3
    <3> QED
      BY <2>2, <3>1 DEF Documents, IndexOf
  <2> QED
    BY <1>2, <2>1, <2>2
<1>5. LogItems = {}
  BY <1>1 DEF LogItems
<1>6. InFlight = {}
  BY <1>1 DEF InFlight, Range
<1>7. Resumable
  <2> SUFFICES ASSUME file \in Nat, NEW i \in Ids PROVE Leads(table, f, index, i, After(file))
    BY DEF Resumable, Sound
  <2>1. index[i] = IF table[i] = None THEN None ELSE Doc(table[i])
    BY <1>2 DEF IndexOf
  <2>2. table[i] # None => Doc(table[i]) # None /\ \A c \in f : Doc(table[i])[c] = table[i][c]
    BY <1>1, <1>3
  <2> QED
    BY <2>1, <2>2 DEF Leads
<1>8. Shaped
  BY <1>1, <1>4 DEF Shaped, Sorted
<1> QED
  BY <1>1, <1>5, <1>6, <1>7, <1>8 DEF IndexInv, DumpFirst, Running, Tells

(* Every step preserves it. *)
LEMMA NextIndex ==
  ASSUME Inv, IndexInv, [Next]_riverVars
  PROVE  IndexInv'
<1>1. ASSUME NEW i \in Ids, NEW j \in Ids, NEW new \in Rows \cup {None}, Commit(i, j, new) PROVE IndexInv'
  BY <1>1, CommitKeepsIndex
<1>2. CASE Alter \/ OnRowFails \/ RunFails \/ Later \/ Tick \/ UNCHANGED riverVars
  BY <1>2, OthersKeepIndex
<1>3. CASE Start
  BY <1>3, DumpStarts, ResumeStarts
<1>4. CASE Crash \/ Handle \/ TakeReqs \/ TakePos
  BY <1>4, CrashKeepsIndex, HandleKeepsIndex, TakeReqsKeepsIndex, TakePosKeepsIndex
<1>5. CASE Done \/ SaveThrottled \/ Save \/ SaveFails \/ SaveTears
  BY <1>5, SavesKeepIndex
<1>6. CASE DoBulk \/ DoBulkFails
  BY <1>6, FlushKeepsIndex DEF DoBulk, DoBulkFails
<1> QED
  BY <1>1, <1>2, <1>3, <1>4, <1>5, <1>6 DEF Next, River

(* Whenever the River has caught up nothing is pending, and the documents  *)
(* that were not damaged are those of the rows. *)
LEMMA CaughtUp == ASSUME Inv, IndexInv PROVE IndexIsTable
<1> DEFINE f == rule.filter
<1> SUFFICES ASSUME Caught, NEW i \in Ids \ damaged
             PROVE  index[i] = IF table[i] = None THEN None ELSE Doc(table[i])
  BY DEF IndexIsTable, IndexOf
<1>1. /\ loop # "off" /\ cursor = Len(log) /\ syncCh = <<>> /\ reqs = <<>>
  BY DEF Caught
<1>2. Pending = {}
  <2>1. InFlight = {}
    BY <1>1 DEF InFlight, Range
  <2>2. \A r \in LogItems : r.at \in Nat /\ r.at <= Len(log)
    BY LogItemsTyped DEF Inv
  <2>3. Len(log) \in Nat
    BY DEF Inv, Typed
  <2>4. After(cursor) = {}
    BY <1>1, <2>2, <2>3 DEF After
  <2> QED
    BY <2>1, <2>4 DEF Pending
<1>3. Leads(table, f, index, i, {})
  BY <1>1, <1>2 DEF IndexInv, Running, Sound
<1>4. index[i] = None <=> table[i] = None
  BY <1>3 DEF Leads
<1>5. CASE table[i] # None
  <2>1. index[i] \in [f -> Vals]
    BY <1>4, <1>5 DEF IndexInv, Shaped, Documents
  <2>2. \A c \in f : index[i][c] = table[i][c]
    BY <1>3, <1>5 DEF Leads
  <2>3. index[i] = [c \in f |-> table[i][c]]
    BY <2>1, <2>2
  <2> QED
    BY <1>5, <2>3 DEF Doc
<1> QED
  BY <1>4, <1>5

(* sync.go, the whole way from MySQL to Elasticsearch: for any tables,     *)
(* rules, commits and faults, once the River has nothing left to do the    *)
(* index holds the table, but for the ids of failed items and of rows that *)
(* went while nobody listened.  No crash, replay of requests, throttled or *)
(* failed write of the position loses a row or leaves a column behind. *)
THEOREM IndexFollowsTable == Spec => []IndexIsTable
<1>1. Init => Inv /\ IndexInv
  BY InitInv, InitIndex
<1>2. Inv /\ IndexInv /\ [Next]_riverVars => Inv' /\ IndexInv'
  BY NextInv, NextIndex
<1>3. Inv /\ IndexInv => IndexIsTable
  BY CaughtUp
<1> QED
  BY <1>1, <1>2, <1>3, PTL DEF Spec

-----------------------------------------------------------------------------
(* The types of both copies.  The channel has room for what is sent, and   *)
(* position 0 is never sent: it stands before the first event.             *)
Channel ==
  /\ Len(syncCh) <= ChanCap /\ savePos # 0
  /\ \A m \in DOMAIN syncCh : syncCh[m].kind = "pos" => syncCh[m].at # 0

(* A channel that lost its head, or all it held. *)
LEMMA ChannelDrained ==
  ASSUME Typed, Channel, syncCh # <<>>, syncCh' = Tail(syncCh)
  PROVE  /\ Len(syncCh') <= ChanCap
         /\ \A m \in DOMAIN syncCh' : syncCh'[m].kind = "pos" => syncCh'[m].at # 0
<1>1. Len(syncCh') = Len(syncCh) - 1 /\ Len(syncCh) \in Nat
  BY HeadTailProperties DEF Typed
<1>2. Len(syncCh') <= ChanCap
  BY <1>1 DEF Channel
<1>3. \A m \in DOMAIN syncCh' : m + 1 \in DOMAIN syncCh /\ syncCh'[m] = syncCh[m + 1]
  BY HeadTaken
<1> QED
  BY <1>2, <1>3 DEF Channel

LEMMA HandleKeepsChannel == ASSUME Typed, Channel, Handle PROVE Channel'
<1> DEFINE m == Message(log[cursor + 1], cursor + 1)
<1>1. /\ syncCh' = Append(syncCh, m) /\ Len(syncCh) < ChanCap /\ savePos' = savePos
      /\ cursor < Len(log)
  BY DEF Handle, loopVars
<1>2. log[cursor + 1] \in Entries /\ cursor + 1 \in Nat /\ cursor + 1 # 0 /\ Len(log) \in Nat
  BY <1>1 DEF Typed
<1>3. m \in Messages /\ m.at # 0
  BY <1>2, MessageOfEntry DEF Typed
<1> HIDE DEF m
<1>4. /\ Len(syncCh') = Len(syncCh) + 1 /\ Len(syncCh) \in Nat /\ DOMAIN syncCh = 1 .. Len(syncCh)
      /\ DOMAIN syncCh' = 1 .. Len(syncCh) + 1
      /\ \A n \in 1 .. Len(syncCh) : syncCh'[n] = syncCh[n]
      /\ syncCh'[Len(syncCh) + 1] = m
  BY <1>1, <1>3, AppendProperties DEF Typed
<1>5. Len(syncCh') <= ChanCap
  BY <1>1, <1>4
<1>6. ASSUME NEW n \in DOMAIN syncCh', syncCh'[n].kind = "pos" PROVE syncCh'[n].at # 0
  <2>1. CASE n = Len(syncCh) + 1
    BY <1>3, <1>4, <2>1
  <2>2. CASE n # Len(syncCh) + 1
    <3>1. n \in DOMAIN syncCh
      BY <1>4, <2>2
    <3>2. syncCh'[n] = syncCh[n]
      BY <1>4, <3>1
    <3> QED
      BY <1>6, <3>1, <3>2 DEF Channel
  <2> QED
    BY <2>1, <2>2
<1> QED
  BY <1>1, <1>5, <1>6 DEF Channel

LEMMA NextChannel == ASSUME Typed, Channel, [Next]_riverVars PROVE Channel'
<1>0. NoPos # 0
  OBVIOUS
<1>1. CASE Start
  <2>1. /\ savePos' = NoPos
        /\ syncCh' = <<>> \/ \E order \in SetToSeqs(Present) : syncCh' = Dump(order)
    BY <1>1 DEF Start
  <2>2. Len(syncCh') <= ChanCap /\ \A m \in DOMAIN syncCh' : syncCh'[m].kind # "pos"
    <3>1. CASE syncCh' = <<>>
      BY <3>1
    <3>2. CASE \E order \in SetToSeqs(Present) : syncCh' = Dump(order)
      <4>1. PICK order \in SetToSeqs(Present) : syncCh' = Dump(order)
        BY <3>2
      <4>2. CASE Present = {}
        BY <3>1, <4>1, <4>2 DEF Dump
      <4>3. CASE Present # {}
        <5>1. PICK m : m = [kind |-> "reqs", at |-> Len(log),
                            reqs |-> [n \in DOMAIN order |-> Index(Len(log), order[n], table[order[n]])]]
          OBVIOUS
        <5>2. syncCh' = <<m>> /\ m.kind = "reqs"
          BY <4>1, <4>3, <5>1 DEF Dump
        <5> QED
          BY <5>2
      <4> QED
        BY <4>2, <4>3
    <3> QED
      BY <2>1, <3>1, <3>2
  <2> QED
    BY <1>0, <2>1, <2>2 DEF Channel
<1>2. CASE Crash
  BY <1>0, <1>2 DEF Crash, Channel
<1>3. CASE Handle
  BY <1>3, HandleKeepsChannel
<1>4. CASE TakeReqs \/ TakePos
  <2>1. syncCh # <<>> /\ syncCh' = Tail(syncCh)
    BY <1>4 DEF TakeReqs, TakePos
  <2>2. savePos' # 0
    <3>1. CASE savePos' = savePos
      BY <3>1 DEF Channel
    <3>2. CASE savePos' = Head(syncCh).at /\ Head(syncCh).kind = "pos"
      BY <2>1, <3>2, HeadTaken DEF Channel
    <3> QED
      BY <1>4, <3>1, <3>2 DEF TakeReqs, TakePos
  <2> QED
    BY <2>1, <2>2, ChannelDrained DEF Channel
<1>5. CASE syncCh' = syncCh /\ savePos' \in {savePos, NoPos}
  BY <1>0, <1>5 DEF Channel
<1>6. ASSUME NEW i \in Ids, NEW j \in Ids, NEW new \in Rows \cup {None}, Commit(i, j, new)
      PROVE  syncCh' = syncCh /\ savePos' = savePos
  BY <1>6 DEF Commit, loopVars
<1>7. CASE Alter \/ OnRowFails \/ RunFails \/ Later \/ Tick \/ Done \/ UNCHANGED riverVars
  BY <1>5, <1>7 DEF Alter, OnRowFails, RunFails, Later, Tick, Done, riverVars, loopVars
<1>8. CASE DoBulk \/ DoBulkFails
  BY <1>5, <1>8 DEF DoBulk, DoBulkFails, Flushed
<1>9. CASE SaveThrottled \/ Save \/ SaveFails \/ SaveTears
  BY <1>5, <1>9 DEF SaveThrottled, Save, SaveFails, SaveTears, SaveStep
<1> QED
  BY <1>1, <1>2, <1>3, <1>4, <1>5, <1>6, <1>7, <1>8, <1>9 DEF Next, River

(* TypeOK is what the invariants have in common. *)
LEMMA RiverTyped == ASSUME Inv, IndexInv, Channel PROVE TypeOK
<1>1. /\ cursor \in Nat /\ Len(log) \in Nat /\ savePos \in {NoPos} \cup Nat /\ master \in {NoPos} \cup Nat
      /\ file \in {NoPos, Torn} \cup Nat
  BY DEF Inv, Typed
<1>2. cursor \in 0 .. Len(log)
  BY <1>1 DEF Inv, Within
<1>3. savePos \in {NoPos} \cup 1 .. Len(log)
  <2>1. savePos # NoPos => savePos <= Len(log)
    BY <1>1 DEF Inv, Within, Positions
  <2> QED
    BY <1>1, <2>1 DEF Channel
<1>4. master \in {NoPos} \cup 0 .. Len(log)
  <2>1. master # NoPos => master <= Len(log)
    BY <1>1 DEF Inv, Within, Positions
  <2> QED
    BY <1>1, <2>1
<1>5. file \in {NoPos, Torn} \cup 0 .. Len(log)
  <2>1. file \notin {NoPos, Torn} => file <= Len(log)
    BY <1>1 DEF Inv, Within, Positions
  <2> QED
    BY <1>1, <2>1
<1>6. index \in [Ids -> [rule.filter -> Vals] \cup {None}] /\ damaged \subseteq Ids
  BY DEF IndexInv, Shaped, Documents
<1> QED
  BY <1>2, <1>3, <1>4, <1>5, <1>6 DEF TypeOK, Inv, Typed, Channel

-----------------------------------------------------------------------------
(* The query cache.  What a SELECT carries was read from the table.        *)

LEMMA Reads ==
  ASSUME Cache!TypeOK, Cache!CachedWasCommitted, NEW r \in Readers, NEW v \in Nat, v <= row,
         reader' = [reader EXCEPT ![r].pc = "store", ![r].value = v], UNCHANGED <<row, entry, writer>>
  PROVE  Cache!TypeOK' /\ Cache!CachedWasCommitted'
<1>1. PICK old : old = reader[r]
  OBVIOUS
<1>2. old = [pc |-> old.pc, value |-> old.value]
  BY <1>1 DEF Cache!TypeOK
<1>3. PICK rest : rest = [old EXCEPT !.pc = "store"]
  OBVIOUS
<1>4. rest = [pc |-> "store", value |-> old.value]
  BY <1>2, <1>3
<1>5. PICK new : new = [rest EXCEPT !.value = v]
  OBVIOUS
<1>6. new = [pc |-> "store", value |-> v]
  BY <1>4, <1>5
<1>7. reader' = [reader EXCEPT ![r] = new]
  BY <1>1, <1>3, <1>5
<1>8. /\ new \in [pc : {"idle", "miss", "store", "done"}, value : Nat] /\ new.value <= row
  BY <1>6
<1>9. reader \in [Readers -> [pc : {"idle", "miss", "store", "done"}, value : Nat]]
  BY DEF Cache!TypeOK, Cache!Versions
<1>10. /\ reader' \in [Readers -> [pc : {"idle", "miss", "store", "done"}, value : Nat]]
       /\ reader'[r] = new /\ \A q \in Readers \ {r} : reader'[q] = reader[q]
  <2>1. PICK all : all = [pc : {"idle", "miss", "store", "done"}, value : Nat]
    OBVIOUS
  <2>2. reader \in [Readers -> all] /\ new \in all
    BY <1>8, <1>9, <2>1
  <2> QED
    BY <1>7, <2>1, <2>2
<1>11. Cache!TypeOK'
  BY <1>10 DEF Cache!TypeOK, Cache!Versions
<1>12. Cache!CachedWasCommitted'
  BY <1>8, <1>10 DEF Cache!CachedWasCommitted
<1> QED
  BY <1>11, <1>12

LEMMA VersionsGrow ==
  ASSUME Cache!TypeOK, Cache!CachedWasCommitted, Cache!Next
  PROVE  Cache!TypeOK' /\ Cache!CachedWasCommitted'
<1> USE DEF Cache!TypeOK, Cache!CachedWasCommitted, Cache!Versions
<1>1. ASSUME NEW r \in Readers, Cache!Get(r) PROVE Cache!TypeOK' /\ Cache!CachedWasCommitted'
  BY <1>1 DEF Cache!Get
<1>2. ASSUME NEW r \in Readers, Cache!Select(r) PROVE Cache!TypeOK' /\ Cache!CachedWasCommitted'
  <2>1. /\ reader' = [reader EXCEPT ![r].pc = "store", ![r].value = row]
        /\ UNCHANGED <<row, entry, writer>>
    BY <1>2 DEF Cache!Select
  <2>2. row \in Nat /\ row <= row
    OBVIOUS
  <2> QED
    BY <2>1, <2>2, Reads
<1>3. ASSUME NEW r \in Readers, Cache!Ease(r) PROVE Cache!TypeOK' /\ Cache!CachedWasCommitted'
  <2>1. PICK q \in Readers :
          /\ reader' = [reader EXCEPT ![r].pc = "store", ![r].value = reader[q].value]
          /\ UNCHANGED <<row, entry, writer>>
    BY <1>3 DEF Cache!Ease
  <2> QED
    BY <2>1, Reads
<1>4. ASSUME NEW r \in Readers, Cache!Store(r) PROVE Cache!TypeOK' /\ Cache!CachedWasCommitted'
  BY <1>4 DEF Cache!Store
<1>5. ASSUME NEW w \in Writers, Cache!Invalidate(w) \/ Cache!Commit(w)
      PROVE  Cache!TypeOK' /\ Cache!CachedWasCommitted'
  BY <1>5 DEF Cache!Invalidate, Cache!Commit
<1>6. CASE Cache!Expire
  BY <1>6 DEF Cache!Expire
<1> QED
  BY <1>1, <1>2, <1>3, <1>4, <1>5, <1>6 DEF Cache!Next, Cache!ReadStep, Cache!WriteStep

(* redisCacher.Get, Store and Invalidate: for any SELECTs and writes, what   *)
(* is cached or about to be stored was committed, although Invalidate runs  *)
(* before the commit and SELECTs share results.                            *)
THEOREM CachedRowsWereCommitted == CopiesSpec => [](Cache!TypeOK /\ Cache!CachedWasCommitted)
<1>1. CopiesInit => Cache!TypeOK /\ Cache!CachedWasCommitted
  BY DEF CopiesInit, Cache!Init, Cache!TypeOK, Cache!CachedWasCommitted, Cache!Versions
<1>2. Cache!TypeOK /\ Cache!CachedWasCommitted /\ [CopiesNext]_allVars
      => Cache!TypeOK' /\ Cache!CachedWasCommitted'
  <2> SUFFICES ASSUME Cache!TypeOK, Cache!CachedWasCommitted, [CopiesNext]_allVars
               PROVE  Cache!TypeOK' /\ Cache!CachedWasCommitted'
    OBVIOUS
  <2>1. Cache!Next \/ UNCHANGED cacheVars
    BY DEF CopiesNext, InRiver, InCache, allVars
  <2>2. CASE UNCHANGED cacheVars
    BY <2>2 DEF cacheVars, Cache!TypeOK, Cache!CachedWasCommitted
  <2> QED
    BY <2>1, <2>2, VersionsGrow
<1> QED
  BY <1>1, <1>2, PTL DEF CopiesSpec

(* Both copies side by side have their types, and nothing is cached that   *)
(* was not committed: no message is sent to a full channel, no position    *)
(* lies outside the binlog, and every document is one of the rule's.       *)
THEOREM CopiesTyped == CopiesSpec => []TypesOK
<1> DEFINE All == /\ part \in {"river", "cache"} /\ Inv /\ IndexInv /\ Channel
                  /\ Cache!TypeOK /\ Cache!CachedWasCommitted
<1>1. CopiesInit => All
  <2> SUFFICES ASSUME CopiesInit PROVE All
    OBVIOUS
  <2>1. Init /\ part \in {"river", "cache"}
    BY DEF CopiesInit
  <2>2. Channel
    BY <2>1 DEF Init, Channel
  <2>3. Cache!TypeOK /\ Cache!CachedWasCommitted
    BY DEF CopiesInit, Cache!Init, Cache!TypeOK, Cache!CachedWasCommitted, Cache!Versions
  <2> QED
    BY <2>1, <2>2, <2>3, InitInv, InitIndex
<1>2. All /\ [CopiesNext]_allVars => All'
  <2> SUFFICES ASSUME All, [CopiesNext]_allVars PROVE All'
    OBVIOUS
  <2>1. [Next]_riverVars /\ (Cache!Next \/ UNCHANGED cacheVars) /\ part' = part
    BY DEF CopiesNext, InRiver, InCache, allVars
  <2>2. Inv' /\ IndexInv' /\ Channel'
    BY <2>1, NextInv, NextIndex, NextChannel DEF Inv
  <2>3. Cache!TypeOK' /\ Cache!CachedWasCommitted'
    BY <2>1, VersionsGrow DEF cacheVars, Cache!TypeOK, Cache!CachedWasCommitted
  <2> QED
    BY <2>1, <2>2, <2>3
<1>3. All => TypesOK
  BY RiverTyped DEF TypesOK
<1> QED
  BY <1>1, <1>2, <1>3, PTL DEF CopiesSpec
=============================================================================
