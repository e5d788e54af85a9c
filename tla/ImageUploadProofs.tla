-------------------------- MODULE ImageUploadProofs --------------------------
(***************************************************************************)
(* Proofs about ImageUpload: a ready task stays ready, the row, its object *)
(* and the tasks agree, and a verdict is not dropped.  Of ImageRefs, as     *)
(* MCImages sets it beside: the references are those of the rows.          *)
(***************************************************************************)
EXTENDS MCImages, FiniteSetTheorems, TLAPS

USE ImageAssumption DEF ImageAssumption

AtTask == {"read", "verify", "fail", "find", "insert"}
AtRow  == {"save", "consume", "delete"}
Active == AtTask \cup AtRow \cup {"update"}

Stored == {"pending", "ready", "failed"}

(* A task that is found, by its key or by a confirmation, was stored, and  *)
(* has its object key. *)
Known ==
  /\ \A t \in Tasks : task[t] # "none" => keyOf[t] # None
  /\ \A k \in Keys : index[k] # None => task[index[k]] \in Stored
  /\ \A c \in Confirms : conf[c].pc \in Active => task[conf[c].task] \in Stored

-----------------------------------------------------------------------------
(* Typing. *)

(* What the record of a confirmation has at each point. *)
LEMMA ConfFields ==
  ASSUME TypeOK, NEW c \in Confirms
  PROVE  /\ conf[c].pc \in {"idle", "done", "refused"} \cup Active
         /\ conf[c].pc \in AtTask => conf[c] \in [pc : AtTask, task : Tasks, locked : BOOLEAN]
         /\ conf[c].pc \in AtRow => conf[c] \in [pc : AtRow, task : Tasks, found : Images]
         /\ conf[c].pc = "update" =>
              conf[c] \in [pc : {"update"}, task : Tasks, found : Images, verdict : Verdicts]
         /\ conf[c].pc \in Active => conf[c].task \in Tasks
<1>1. conf[c] \in ConfirmStates
  BY DEF TypeOK
<1> QED
  BY <1>1 DEF ConfirmStates, AtTask, AtRow, Active

LEMMA AuditFields ==
  ASSUME TypeOK, NEW a \in Audits
  PROVE  /\ audit[a].pc \in {"idle", "done", "park", "update"}
         /\ audit[a].pc = "park" => audit[a] \in [pc : {"park"}, key : Keys, verdict : Verdicts]
         /\ audit[a].pc = "update" =>
              audit[a] \in [pc : {"update"}, key : Keys, verdict : Verdicts, id : Confirms]
<1>1. audit[a] \in AuditStates
  BY DEF TypeOK
<1> QED
  BY <1>1 DEF AuditStates

LEMMA RemoveFields ==
  ASSUME TypeOK, NEW d \in Removers
  PROVE  /\ remove[d].pc \in {"idle", "done", "object", "row"}
         /\ remove[d].pc \in {"object", "row"} => remove[d] \in [pc : {"object", "row"}, found : Images]
<1>1. remove[d] \in RemoveStates
  BY DEF TypeOK
<1> QED
  BY <1>1 DEF RemoveStates

LEMMA InitTyped == Init => TypeOK
<1> SUFFICES ASSUME Init PROVE TypeOK
  OBVIOUS
<1>1. [pc |-> "idle"] \in ConfirmStates /\ [pc |-> "idle"] \in AuditStates /\ [pc |-> "idle"] \in RemoveStates
  BY DEF ConfirmStates, AuditStates, RemoveStates
<1> QED
  BY <1>1 DEF Init, TypeOK

(* A step of a confirmation writes its own record, and keeps the types. *)
LEMMA Continuing ==
  ASSUME TypeOK, NEW c \in Confirms, NEW next \in ConfirmStates, Continue(c, next)
  PROVE  /\ conf' \in [Confirms -> ConfirmStates]
         /\ conf'[c] = next
         /\ \A b \in Confirms \ {c} : conf'[b] = conf[b]
BY DEF TypeOK, Continue

LEMMA SettingStatus ==
  ASSUME TypeOK, NEW id, NEW v \in Verdicts, SetStatus(id, v)
  PROVE  /\ image' \in Images \cup {None}
         /\ image = None <=> image' = None
         /\ image # None => /\ image'.id = image.id /\ image'.key = image.key
                            /\ image'.status = IF image.id = id THEN v ELSE image.status
<1>1. image # None => image \in Images
  BY DEF TypeOK
<1>2. ASSUME image # None
      PROVE  /\ [image EXCEPT !.status = v] \in Images
             /\ [image EXCEPT !.status = v].id = image.id
             /\ [image EXCEPT !.status = v].key = image.key
             /\ [image EXCEPT !.status = v].status = v
  BY <1>1, <1>2 DEF Images
<1>3. None \notin Images
  BY DEF Images
<1> QED
  BY <1>1, <1>2, <1>3, Zenon DEF SetStatus, TypeOK

LEMMA NewKey ==
  ASSUME TypeOK, Known, NEW c \in Confirms, conf[c].pc \in Active
  PROVE  conf[c].task \in Tasks /\ keyOf[conf[c].task] \in Keys
<1>1. conf[c].task \in Tasks
  BY ConfFields
<1>2. task[conf[c].task] # "none"
  BY DEF Known, Stored
<1> QED
  BY <1>1, <1>2 DEF Known, TypeOK

(* What the record of a confirmation becomes in each of its steps. *)
LEMMA ConfTyped ==
  ASSUME TypeOK, Known, NEW c \in Confirms, ConfirmStep(c)
  PROVE  \E next \in ConfirmStates : Continue(c, next)
<1> USE ConfFields
<1> USE DEF ConfirmStates, AtTask, AtRow
<1>1. ASSUME NEW t \in Tasks, LockUploadTask(c, t)
      PROVE  \E next \in ConfirmStates : Continue(c, next)
  BY <1>1 DEF LockUploadTask
<1>2. CASE ConfirmUploadTaskByUser(c)
  BY <1>1, <1>2, Zenon DEF ConfirmUploadTaskByUser
<1>3. CASE ConfirmUploadTaskByCallback(c)
  <2>1. PICK k \in objects : index[k] # None /\ LockUploadTask(c, index[k])
    BY <1>3 DEF ConfirmUploadTaskByCallback
  <2>2. index[k] \in Tasks
    BY <2>1 DEF TypeOK
  <2> QED
    BY <1>1, <2>1, <2>2, Zenon
<1>4. CASE ReadTask(c)
  <2>1. conf[c].pc = "read" /\ [conf[c] EXCEPT !.pc = "verify"] \in ConfirmStates
    BY <1>4 DEF ReadTask
  <2>2. [pc |-> "done"] \in ConfirmStates /\ [pc |-> "refused"] \in ConfirmStates
    OBVIOUS
  <2> HIDE DEF ConfirmStates
  <2> QED
    BY <1>4, <2>1, <2>2 DEF ReadTask, Leave
<1>5. CASE VerifyUploadedObject(c)
  <2>1. [conf[c] EXCEPT !.pc = "find"] \in ConfirmStates /\ [conf[c] EXCEPT !.pc = "fail"] \in ConfirmStates
    BY <1>5 DEF VerifyUploadedObject
  <2> HIDE DEF ConfirmStates
  <2> QED
    BY <1>5, <2>1 DEF VerifyUploadedObject
<1>6. CASE SaveFailedTask(c)
  BY <1>6 DEF SaveFailedTask, Leave
<1>7. CASE FindImage(c)
  <2>1. /\ [conf[c] EXCEPT !.pc = "insert"] \in ConfirmStates
        /\ image # None => [pc |-> "save", task |-> conf[c].task, found |-> image] \in ConfirmStates
    BY <1>7 DEF FindImage, TypeOK
  <2> HIDE DEF ConfirmStates
  <2> QED
    BY <1>7, <2>1, Zenon DEF FindImage, Found
<1>8. CASE InsertImage(c)
  <2> DEFINE new == [id |-> c, key |-> keyOf[conf[c].task], status |-> Pass]
  <2>1. image # None => [pc |-> "save", task |-> conf[c].task, found |-> image] \in ConfirmStates
    BY <1>8 DEF InsertImage, TypeOK
  <2>2. [pc |-> "refused"] \in ConfirmStates
    OBVIOUS
  <2>3. [pc |-> "save", task |-> conf[c].task, found |-> new] \in ConfirmStates
    <3>1. keyOf[conf[c].task] \in Keys
      BY <1>8, NewKey DEF InsertImage, Active
    <3> QED
      BY <1>8, <3>1 DEF InsertImage, Images
  <2> HIDE DEF ConfirmStates, new
  <2> QED
    BY <1>8, <2>1, <2>2, <2>3, Zenon DEF InsertImage, Found, Leave, new
<1>9. CASE SaveReadyTask(c)
  <2>1. [conf[c] EXCEPT !.pc = "consume"] \in ConfirmStates
    BY <1>9 DEF SaveReadyTask
  <2> HIDE DEF ConfirmStates
  <2> QED
    BY <1>9, <2>1 DEF SaveReadyTask
<1>10. CASE ConsumeAuditStatus(c)
  <2> DEFINE v == parked[conf[c].found.key]
             row == conf[c].found
  <2>1. row \in Images /\ row.key \in Keys
    BY <1>10 DEF ConsumeAuditStatus, Images
  <2>2. v # None => [pc |-> "update", task |-> conf[c].task, found |-> row, verdict |-> v] \in ConfirmStates
    BY <1>10, <2>1 DEF ConsumeAuditStatus, TypeOK
  <2>3. [pc |-> "delete", task |-> conf[c].task, found |-> row] \in ConfirmStates
    BY <1>10, <2>1 DEF ConsumeAuditStatus
  <2> HIDE DEF ConfirmStates
  <2> QED
    BY <1>10, <2>2, <2>3, Zenon DEF ConsumeAuditStatus
<1>11. CASE ApplyAuditStatus(c)
  BY <1>11 DEF ApplyAuditStatus
<1>12. CASE DeleteDuplicate(c) \/ StatementFails(c)
  BY <1>12 DEF DeleteDuplicate, StatementFails, Leave
<1> QED
  BY <1>2, <1>3, <1>4, <1>5, <1>6, <1>7, <1>8, <1>9, <1>10, <1>11, <1>12, Zenon DEF ConfirmStep

(* A confirmation keeps its task until it has answered. *)
LEMMA Stays ==
  ASSUME TypeOK, Known, NEW c \in Confirms, ConfirmStep(c)
  PROVE  \/ ConfirmUploadTaskByUser(c) \/ ConfirmUploadTaskByCallback(c)
         \/ conf'[c].pc \notin Active
         \/ conf[c].pc \in Active /\ conf'[c].task = conf[c].task
<1> USE ConfFields DEF Active, AtTask, AtRow, Continue
<1>0. conf \in [Confirms -> ConfirmStates]
  BY DEF TypeOK
<1>1. CASE ReadTask(c)
  BY <1>0, <1>1 DEF ReadTask, Leave
<1>2. CASE VerifyUploadedObject(c)
  BY <1>0, <1>2 DEF VerifyUploadedObject
<1>3. CASE FindImage(c)
  BY <1>0, <1>3 DEF FindImage, Found
<1>4. CASE InsertImage(c)
  BY <1>0, <1>4 DEF InsertImage, Found, Leave
<1>5. CASE SaveReadyTask(c)
  BY <1>0, <1>5 DEF SaveReadyTask
<1>6. CASE ConsumeAuditStatus(c)
  <2>1. conf[c].pc \in Active /\ \E next : Continue(c, next) /\ next.task = conf[c].task
    BY <1>6 DEF ConsumeAuditStatus
  <2> QED
    BY <1>0, <2>1
<1>7. CASE ApplyAuditStatus(c)
  BY <1>0, <1>7 DEF ApplyAuditStatus
<1>8. CASE DeleteDuplicate(c) \/ SaveFailedTask(c) \/ StatementFails(c)
  BY <1>0, <1>8 DEF DeleteDuplicate, SaveFailedTask, StatementFails, Leave
<1> QED
  BY <1>1, <1>2, <1>3, <1>4, <1>5, <1>6, <1>7, <1>8 DEF ConfirmStep

(* What a confirmation does to the tasks: nothing, or it writes its own. *)
LEMMA TaskWritten ==
  ASSUME TypeOK, Known, NEW c \in Confirms, ConfirmStep(c)
  PROVE  /\ keyOf' = keyOf
         /\ \/ UNCHANGED <<task, index>>
            \/ conf[c].pc = "fail" /\ SaveUploadTask(conf[c].task, "failed")
            \/ conf[c].pc = "save" /\ SaveUploadTask(conf[c].task, "ready")
BY DEF ConfirmStep, ConfirmUploadTaskByUser, ConfirmUploadTaskByCallback, LockUploadTask, ReadTask,
       VerifyUploadedObject, SaveFailedTask, FindImage, InsertImage, StatementFails, SaveReadyTask,
       ConsumeAuditStatus, ApplyAuditStatus, DeleteDuplicate, SaveUploadTask, taskVars

LEMMA SavingTask ==
  ASSUME TypeOK, NEW t \in Tasks, keyOf[t] \in Keys, NEW status \in Stored,
         SaveUploadTask(t, status)
  PROVE  /\ task' \in [Tasks -> {"none", "issued", "pending", "ready", "failed", "skipped"}]
         /\ index' \in [Keys -> Tasks \cup {None}]
         /\ task'[t] = status /\ \A u \in Tasks \ {t} : task'[u] = task[u]
         /\ \A k \in Keys : index'[k] \in {t, index[k]}
BY DEF TypeOK, SaveUploadTask, Stored

LEMMA ConfirmTyped ==
  ASSUME TypeOK, Known, NEW c \in Confirms, ConfirmStep(c)
  PROVE  TypeOK' /\ Known'
<1>1. PICK next \in ConfirmStates : Continue(c, next)
  BY ConfTyped
<1>2. /\ conf' \in [Confirms -> ConfirmStates]
      /\ conf'[c] = next
      /\ \A b \in Confirms \ {c} : conf'[b] = conf[b]
  BY <1>1, Continuing
<1>3. lock' \in [Tasks -> Confirms \cup {None}]
  <2>1. ASSUME NEW t \in Tasks, LockUploadTask(c, t)
        PROVE  lock' \in [Tasks -> Confirms \cup {None}]
    BY <2>1 DEF LockUploadTask, TypeOK
  <2>2. lock' = lock \/ (\E o : Leave(c, o)) \/ \E t \in Tasks \cup {index[k] : k \in {j \in objects : index[j] # None}} : LockUploadTask(c, t)
    BY DEF ConfirmStep, ConfirmUploadTaskByUser, ConfirmUploadTaskByCallback, ReadTask,
           VerifyUploadedObject, SaveFailedTask, FindImage, InsertImage, StatementFails, SaveReadyTask,
           ConsumeAuditStatus, ApplyAuditStatus, DeleteDuplicate, taskVars
  <2>3. \A k \in objects : index[k] # None => index[k] \in Tasks
    BY DEF TypeOK
  <2>4. ASSUME NEW o, Leave(c, o)
        PROVE  lock' \in [Tasks -> Confirms \cup {None}]
    BY <2>4 DEF Leave, TypeOK
  <2> QED
    BY <2>1, <2>2, <2>3, <2>4 DEF TypeOK
<1>4. /\ task' \in [Tasks -> {"none", "issued", "pending", "ready", "failed", "skipped"}]
      /\ index' \in [Keys -> Tasks \cup {None}]
      /\ keyOf' = keyOf
      /\ \A t \in Tasks : task'[t] = task[t] \/ (task'[t] \in Stored /\ task[t] \in Stored)
      /\ \A k \in Keys : index'[k] = index[k] \/ (index'[k] \in Tasks /\ task'[index'[k]] \in Stored)
  <2>1. CASE UNCHANGED <<task, index>>
    BY <2>1, TaskWritten DEF TypeOK
  <2>2. CASE \/ conf[c].pc = "fail" /\ SaveUploadTask(conf[c].task, "failed")
             \/ conf[c].pc = "save" /\ SaveUploadTask(conf[c].task, "ready")
    <3>1. PICK t \in Tasks, status \in Stored : SaveUploadTask(t, status) /\ keyOf[t] \in Keys /\ task[t] \in Stored
      BY <2>2, NewKey DEF Active, AtTask, AtRow, Stored, Known
    <3>2. /\ task' \in [Tasks -> {"none", "issued", "pending", "ready", "failed", "skipped"}]
          /\ index' \in [Keys -> Tasks \cup {None}]
          /\ task'[t] = status /\ \A u \in Tasks \ {t} : task'[u] = task[u]
          /\ \A k \in Keys : index'[k] \in {t, index[k]}
      BY <3>1, SavingTask
    <3> QED
      BY <3>1, <3>2, TaskWritten
  <2> QED
    BY <2>1, <2>2, TaskWritten
<1>5. objects' \subseteq Keys
  BY DEF ConfirmStep, ConfirmUploadTaskByUser, ConfirmUploadTaskByCallback, LockUploadTask, ReadTask,
       VerifyUploadedObject, SaveFailedTask, FindImage, InsertImage, StatementFails, SaveReadyTask,
       ConsumeAuditStatus, ApplyAuditStatus, DeleteDuplicate, TypeOK
<1>6. image' \in Images \cup {None}
  <2>1. CASE InsertImage(c)
    <3>1. keyOf[conf[c].task] \in Keys
      BY <2>1, NewKey DEF InsertImage, Active, AtTask
    <3> QED
      BY <2>1, <3>1 DEF InsertImage, Images, TypeOK
  <2>2. CASE ApplyAuditStatus(c)
    <3>1. conf[c].verdict \in Verdicts
      BY <2>2, ConfFields DEF ApplyAuditStatus
    <3>2. SetStatus(conf[c].found.id, conf[c].verdict) \/ image' = image
      BY <2>2 DEF ApplyAuditStatus
    <3> QED
      BY <3>1, <3>2, SettingStatus DEF TypeOK
  <2>3. CASE image' = image
    BY <2>3 DEF TypeOK
  <2> QED
    BY <2>1, <2>2, <2>3 DEF ConfirmStep, ConfirmUploadTaskByUser, ConfirmUploadTaskByCallback,
       LockUploadTask, ReadTask, VerifyUploadedObject, SaveFailedTask, FindImage, StatementFails, SaveReadyTask,
       ConsumeAuditStatus, DeleteDuplicate
<1>7. parked' \in [Keys -> Verdicts \cup {None}]
  BY DEF ConfirmStep, ConfirmUploadTaskByUser, ConfirmUploadTaskByCallback, LockUploadTask, ReadTask,
       VerifyUploadedObject, SaveFailedTask, FindImage, InsertImage, StatementFails, SaveReadyTask,
       ConsumeAuditStatus, ApplyAuditStatus, DeleteDuplicate, TypeOK
<1>8. UNCHANGED <<audit, remove, verdict>>
  BY DEF ConfirmStep, ConfirmUploadTaskByUser, ConfirmUploadTaskByCallback, LockUploadTask, ReadTask,
       VerifyUploadedObject, SaveFailedTask, FindImage, InsertImage, StatementFails, SaveReadyTask,
       ConsumeAuditStatus, ApplyAuditStatus, DeleteDuplicate
<1>12. dropped' \subseteq Keys /\ unread' \subseteq Keys
  <2>1. conf[c].pc \in {"consume", "update"} => conf[c].found.key \in Keys
    BY ConfFields DEF AtRow, Images
  <2> QED
    BY <2>1 DEF ConfirmStep, ConfirmUploadTaskByUser, ConfirmUploadTaskByCallback, LockUploadTask, ReadTask,
       VerifyUploadedObject, SaveFailedTask, FindImage, InsertImage, StatementFails, SaveReadyTask,
       ConsumeAuditStatus, ApplyAuditStatus, DeleteDuplicate, Drop, lostVars, TypeOK
<1>9. TypeOK'
  BY <1>2, <1>3, <1>4, <1>5, <1>6, <1>7, <1>8, <1>12, Zenon DEF TypeOK
<1>10. conf'[c].pc \in Active => conf'[c].task \in Tasks /\ task'[conf'[c].task] \in Stored
  <2>1. CASE conf[c].pc \in Active /\ conf'[c].task = conf[c].task
    BY <1>4, <2>1, NewKey DEF Known
  <2>2. ASSUME NEW t \in Tasks, task[t] \in Stored, LockUploadTask(c, t)
        PROVE  conf'[c].task \in Tasks /\ task'[conf'[c].task] \in Stored
    BY <1>2, <1>4, <2>2 DEF LockUploadTask, TypeOK, Continue
  <2>3. CASE ConfirmUploadTaskByUser(c)
    BY <2>2, <2>3 DEF ConfirmUploadTaskByUser, TypeOK, Stored
  <2>4. CASE ConfirmUploadTaskByCallback(c)
    BY <2>2, <2>4 DEF ConfirmUploadTaskByCallback, TypeOK, Known
  <2>5. CASE conf'[c].pc \notin Active
    BY <2>5
  <2>6. \/ ConfirmUploadTaskByUser(c) \/ ConfirmUploadTaskByCallback(c)
        \/ conf'[c].pc \notin Active
        \/ conf[c].pc \in Active /\ conf'[c].task = conf[c].task
    BY Stays
  <2> QED
    BY <2>1, <2>3, <2>4, <2>5, <2>6
<1>11. Known'
  <2>1. \A t \in Tasks : task'[t] # "none" => keyOf'[t] # None
    BY <1>4 DEF Known, Stored
  <2>2. \A k \in Keys : index'[k] # None => task'[index'[k]] \in Stored
    BY <1>4 DEF Known, TypeOK
  <2>3. ASSUME NEW b \in Confirms, conf'[b].pc \in Active
        PROVE  task'[conf'[b].task] \in Stored
    <3>1. CASE b = c
      BY <1>10, <2>3, <3>1
    <3>2. CASE b # c
      <4>1. conf'[b] = conf[b] /\ conf[b].task \in Tasks /\ task[conf[b].task] \in Stored
        BY <1>2, <2>3, <3>2, ConfFields DEF Known
      <4> QED
        BY <1>4, <4>1
    <3> QED
      BY <3>1, <3>2
  <2> QED
    BY <2>1, <2>2, <2>3, Zenon DEF Known
<1> QED
  BY <1>9, <1>11

LEMMA NextTyped ==
  ASSUME TypeOK, Known, [Next]_vars
  PROVE  TypeOK' /\ Known'
<1>1. ASSUME NEW t \in Tasks, NEW k \in Keys, CreateUploadTask(t, k)
      PROVE  TypeOK' /\ Known'
  <2>1. /\ task' \in [Tasks -> {"none", "issued", "pending", "ready", "failed", "skipped"}]
        /\ keyOf' \in [Tasks -> Keys \cup {None}]
        /\ task[t] = "none" /\ keyOf'[t] = k
        /\ \A u \in Tasks \ {t} : task'[u] = task[u] /\ keyOf'[u] = keyOf[u]
    BY <1>1 DEF CreateUploadTask, TypeOK
  <2>2. UNCHANGED <<index, lock, objects, image, parked, conf, audit, remove, verdict, dropped, unread>>
    BY <1>1 DEF CreateUploadTask, lostVars
  <2>3. TypeOK'
    BY <2>1, <2>2 DEF TypeOK
  <2>4. \A u \in Tasks : task'[u] # "none" => keyOf'[u] # None
    BY <2>1 DEF Known
  <2>5. \A u \in Tasks : task[u] \in Stored => task'[u] \in Stored
    BY <2>1 DEF Stored
  <2> QED
    BY <2>2, <2>3, <2>4, <2>5, ConfFields DEF Known, TypeOK
<1>2. ASSUME NEW t \in Tasks, StoreUploadTask(t)
      PROVE  TypeOK' /\ Known'
  <2>1. SaveUploadTask(t, "pending") /\ "pending" \in Stored /\ keyOf[t] \in Keys
    BY <1>2 DEF StoreUploadTask, Known, TypeOK, Stored
  <2>2. /\ task' \in [Tasks -> {"none", "issued", "pending", "ready", "failed", "skipped"}]
        /\ index' \in [Keys -> Tasks \cup {None}]
        /\ task'[t] = "pending" /\ \A u \in Tasks \ {t} : task'[u] = task[u]
        /\ \A k \in Keys : index'[k] \in {t, index[k]}
    BY <2>1, SavingTask
  <2>3. UNCHANGED <<keyOf, lock, objects, image, parked, conf, audit, remove, verdict, dropped, unread>>
    BY <1>2 DEF StoreUploadTask, SaveUploadTask, lostVars
  <2>4. TypeOK'
    BY <2>2, <2>3 DEF TypeOK
  <2>5. \A u \in Tasks : task'[u] # "none" => keyOf'[u] # None
    BY <2>1, <2>2, <2>3 DEF Known
  <2>6. \A u \in Tasks : task[u] \in Stored => task'[u] \in Stored
    BY <2>1, <2>2
  <2>7. \A k \in Keys : index'[k] # None => task'[index'[k]] \in Stored
    BY <2>1, <2>2, <2>6 DEF Known, TypeOK
  <2> QED
    BY <2>3, <2>4, <2>5, <2>6, <2>7, ConfFields DEF Known
<1>3. ASSUME NEW t \in Tasks, Upload(t) \/ LockExpires(t)
      PROVE  TypeOK' /\ Known'
  <2>1. /\ UNCHANGED <<task, keyOf, index, image, parked, conf, audit, remove, verdict, dropped, unread>>
        /\ lock' \in [Tasks -> Confirms \cup {None}]
    BY <1>3 DEF Upload, LockExpires, TypeOK, taskVars, lostVars
  <2>2. objects' \subseteq Keys
    BY <1>3 DEF Upload, LockExpires, TypeOK, Known
  <2> QED
    BY <2>1, <2>2 DEF TypeOK, Known
<1>4. ASSUME NEW c \in Confirms, ConfirmStep(c)
      PROVE  TypeOK' /\ Known'
  BY <1>4, ConfirmTyped
<1>5. ASSUME NEW a \in Audits, AuditStep(a)
      PROVE  TypeOK' /\ Known'
  <2>1. /\ UNCHANGED <<taskVars, objects, conf, remove>>
        /\ verdict' \in [Keys -> Verdicts \cup {None}]
    BY <1>5 DEF AuditStep, AuditFind, AuditUpdate, StoreAuditStatus, TypeOK
  <2>5. dropped' \subseteq Keys /\ unread' \subseteq Keys
    <3>1. audit[a].pc \in {"park", "update"} => audit[a].key \in Keys
      BY AuditFields
    <3> QED
      BY <1>5, <3>1 DEF AuditStep, AuditFind, AuditUpdate, StoreAuditStatus, Drop, lostVars, TypeOK
  <2>2. image' \in Images \cup {None}
    BY <1>5, AuditFields, SettingStatus DEF AuditStep, AuditFind, AuditUpdate, StoreAuditStatus, TypeOK
  <2>3. parked' \in [Keys -> Verdicts \cup {None}]
    BY <1>5, AuditFields DEF AuditStep, AuditFind, AuditUpdate, StoreAuditStatus, TypeOK
  <2>4. audit' \in [Audits -> AuditStates]
    <3>1. [pc |-> "done"] \in AuditStates
      BY DEF AuditStates
    <3>2. ASSUME NEW k \in Keys, NEW v \in Verdicts, AuditFind(a, k, v)
          PROVE  audit' \in [Audits -> AuditStates]
      <4>1. /\ [pc |-> "park", key |-> k, verdict |-> v] \in AuditStates
            /\ image # None => [pc |-> "update", key |-> k, verdict |-> v, id |-> image.id] \in AuditStates
        BY DEF AuditStates, TypeOK, Images
      <4> QED
        BY <3>1, <3>2, <4>1 DEF AuditFind, TypeOK
    <3> QED
      BY <1>5, <3>1, <3>2 DEF AuditStep, AuditUpdate, StoreAuditStatus, TypeOK
  <2> QED
    BY <2>1, <2>2, <2>3, <2>4, <2>5, Zenon DEF TypeOK, Known, taskVars
<1>6. ASSUME NEW d \in Removers, RemoveStep(d)
      PROVE  TypeOK' /\ Known'
  <2>1. /\ UNCHANGED <<taskVars, conf, parked, audit, verdict, dropped, unread>>
        /\ objects' \subseteq Keys /\ image' \in Images \cup {None}
    BY <1>6 DEF RemoveStep, RemoveFind, RemoveObject, RemoveRow, lostVars, TypeOK
  <2>2. remove' \in [Removers -> RemoveStates]
    <3>1. CASE RemoveFind(d)
      <4>1. [pc |-> "object", found |-> image] \in RemoveStates
        BY <3>1 DEF RemoveFind, RemoveStates, TypeOK
      <4> QED
        BY <3>1, <4>1 DEF RemoveFind, TypeOK
    <3>2. CASE RemoveObject(d)
      <4>1. [remove[d] EXCEPT !.pc = "row"] \in RemoveStates
        BY <3>2, RemoveFields DEF RemoveObject, RemoveStates
      <4> QED
        BY <3>2, <4>1 DEF RemoveObject, TypeOK
    <3>3. CASE RemoveRow(d)
      <4>1. [pc |-> "done"] \in RemoveStates
        BY DEF RemoveStates
      <4> QED
        BY <3>3, <4>1 DEF RemoveRow, TypeOK
    <3> QED
      BY <1>6, <3>1, <3>2, <3>3 DEF RemoveStep
  <2> QED
    BY <2>1, <2>2, Zenon DEF TypeOK, Known, taskVars
<1>7. CASE UNCHANGED vars
  BY <1>7, Zenon DEF vars, taskVars, lostVars, TypeOK, Known
<1>8. ASSUME NEW k \in Keys, AuditStatusExpires(k)
      PROVE  TypeOK' /\ Known'
  <2>1. /\ UNCHANGED <<taskVars, objects, image, conf, audit, remove, verdict>>
        /\ parked' \in [Keys -> Verdicts \cup {None}]
        /\ dropped' \subseteq Keys /\ unread' \subseteq Keys
    BY <1>8 DEF AuditStatusExpires, Drop, TypeOK
  <2> QED
    BY <2>1, Zenon DEF TypeOK, Known, taskVars
<1> QED
  BY <1>1, <1>2, <1>3, <1>4, <1>5, <1>6, <1>7, <1>8 DEF Next

-----------------------------------------------------------------------------
(* A ready task stays ready. *)

Working == {"verify", "fail", "find", "insert", "save"}

(* A confirmation that got past the read of the task holds its lock, unless *)
(* that ran out, and the task is pending until it is saved. *)
LockHeld ==
  \A c \in Confirms :
    conf[c].pc \in Active /\ conf[c].task \notin LockExpiry =>
      /\ (conf[c].pc = "read" => conf[c].locked) => lock[conf[c].task] = c
      /\ conf[c].pc \in Working => task[conf[c].task] = "pending"

(* Each step of a confirmation keeps the locks of the others, and its own. *)
LEMMA ConfirmKeepsLock ==
  ASSUME TypeOK, Known, LockHeld, NEW c \in Confirms, ConfirmStep(c)
  PROVE  LockHeld'
<1>1. PICK next \in ConfirmStates : Continue(c, next)
  BY ConfTyped
<1>2. /\ conf'[c] = next
      /\ \A b \in Confirms \ {c} : conf'[b] = conf[b]
  BY <1>1, Continuing
<1>3. ASSUME NEW b \in Confirms \ {c}, conf[b].pc \in Active, conf[b].task \notin LockExpiry
      PROVE  /\ (conf[b].pc = "read" => conf[b].locked) => lock'[conf[b].task] = b
             /\ conf[b].pc \in Working => task'[conf[b].task] = "pending"
  <2>0. PICK u \in Tasks : u = conf[b].task
    BY <1>3, ConfFields
  <2>1. ASSUME lock[u] = b
        PROVE  lock'[u] = b
    <3>1. ASSUME NEW t, LockUploadTask(c, t)
          PROVE  lock'[u] = b
      BY <2>1, <3>1 DEF LockUploadTask, TypeOK
    <3>2. ASSUME NEW o, Leave(c, o)
          PROVE  lock'[u] = b
      BY <2>1, <3>2 DEF Leave, TypeOK
    <3> QED
      BY <2>1, <3>1, <3>2 DEF ConfirmStep, ConfirmUploadTaskByUser, ConfirmUploadTaskByCallback, ReadTask,
           VerifyUploadedObject, SaveFailedTask, FindImage, InsertImage, StatementFails, SaveReadyTask,
           ConsumeAuditStatus, ApplyAuditStatus, DeleteDuplicate, taskVars
  <2>2. (conf[b].pc = "read" => conf[b].locked) => lock[u] = b
    BY <1>3, <2>0 DEF LockHeld
  <2>3. ASSUME conf[b].pc \in Working
        PROVE  task'[u] = "pending"
    <3>1. task[u] = "pending" /\ lock[u] = b
      BY <1>3, <2>0, <2>2, <2>3 DEF LockHeld, Working
    <3>2. CASE task' = task
      BY <3>1, <3>2
    <3>3. CASE conf[c].pc \in {"fail", "save"} /\ \E status : SaveUploadTask(conf[c].task, status)
      <4>1. conf[c].task # u
        BY <1>3, <2>0, <3>1, <3>3 DEF LockHeld, Active, AtTask, AtRow
      <4> QED
        BY <3>1, <3>3, <4>1 DEF SaveUploadTask, TypeOK
    <3> QED
      BY <3>2, <3>3, TaskWritten
  <2> QED
    BY <2>0, <2>1, <2>2, <2>3
<1>4. ASSUME conf'[c].pc \in Active, conf'[c].task \notin LockExpiry
      PROVE  /\ (conf'[c].pc = "read" => conf'[c].locked) => lock'[conf'[c].task] = c
             /\ conf'[c].pc \in Working => task'[conf'[c].task] = "pending"
  <2>1. ASSUME NEW t \in Tasks, LockUploadTask(c, t)
        PROVE  /\ (conf'[c].pc = "read" => conf'[c].locked) => lock'[conf'[c].task] = c
               /\ conf'[c].pc \in Working => task'[conf'[c].task] = "pending"
    BY <2>1 DEF LockUploadTask, Continue, TypeOK, Working
  <2>2. CASE ConfirmUploadTaskByUser(c)
    BY <2>1, <2>2 DEF ConfirmUploadTaskByUser
  <2>3. CASE ConfirmUploadTaskByCallback(c)
    BY <2>1, <2>3 DEF ConfirmUploadTaskByCallback, TypeOK
  <2>4. ASSUME conf[c].pc \in Active, conf'[c].task = conf[c].task
        PROVE  /\ (conf'[c].pc = "read" => conf'[c].locked) => lock'[conf'[c].task] = c
               /\ conf'[c].pc \in Working => task'[conf'[c].task] = "pending"
    <3> USE DEF Active, AtTask, AtRow, Working, LockHeld, Continue
    <3>0. conf \in [Confirms -> ConfirmStates]
      BY DEF TypeOK
    <3>1. CASE ReadTask(c)
      BY <1>4, <2>4, <3>0, <3>1 DEF ReadTask, Leave
    <3>2. CASE VerifyUploadedObject(c)
      BY <1>4, <2>4, <3>0, <3>2 DEF VerifyUploadedObject, taskVars
    <3>3. CASE FindImage(c)
      BY <1>4, <2>4, <3>0, <3>3 DEF FindImage, Found, taskVars
    <3>4. CASE InsertImage(c)
      BY <1>4, <2>4, <3>0, <3>4 DEF InsertImage, Found, Leave
    <3>5. CASE SaveReadyTask(c)
      BY <1>4, <2>4, <3>0, <3>5 DEF SaveReadyTask
    <3>6. CASE ConsumeAuditStatus(c)
      <4>1. conf'[c].pc \in {"update", "delete"} /\ conf[c].pc = "consume" /\ lock' = lock /\ task' = task
        BY <3>0, <3>6, ConfFields DEF ConsumeAuditStatus, taskVars
      <4> QED
        BY <1>4, <2>4, <4>1
    <3>7. CASE ApplyAuditStatus(c)
      BY <1>4, <2>4, <3>0, <3>7 DEF ApplyAuditStatus, taskVars
    <3>8. CASE DeleteDuplicate(c) \/ SaveFailedTask(c) \/ StatementFails(c)
      BY <1>4, <3>0, <3>8 DEF DeleteDuplicate, SaveFailedTask, StatementFails, Leave
    <3> QED
      BY <2>2, <2>3, <3>1, <3>2, <3>3, <3>4, <3>5, <3>6, <3>7, <3>8 DEF ConfirmStep
  <2> QED
    BY <1>4, <2>2, <2>3, <2>4, Stays
<1> QED
  BY <1>2, <1>3, <1>4 DEF LockHeld

(* So does every other step. *)
LEMMA NextKeepsLock ==
  ASSUME TypeOK, Known, LockHeld, [Next]_vars
  PROVE  LockHeld'
<1>1. ASSUME NEW t \in Tasks, NEW k \in Keys, CreateUploadTask(t, k)
      PROVE  LockHeld'
  BY <1>1, ConfFields DEF CreateUploadTask, LockHeld, Known, TypeOK, Stored
<1>2. ASSUME NEW t \in Tasks, StoreUploadTask(t)
      PROVE  LockHeld'
  BY <1>2, ConfFields DEF StoreUploadTask, SaveUploadTask, LockHeld, Known, TypeOK, Stored
<1>3. ASSUME NEW t \in Tasks, LockExpires(t)
      PROVE  LockHeld'
  <2>1. /\ task' = task /\ conf' = conf
        /\ \A u \in Tasks \ {t} : lock'[u] = lock[u]
        /\ t \in LockExpiry \/ conf[lock[t]].pc \notin Active
    BY <1>3 DEF LockExpires, TypeOK, Active, AtTask, AtRow
  <2>2. \A c \in Confirms : conf[c].pc \in Active => conf[c].task \in Tasks
    BY ConfFields
  <2> QED
    BY <2>1, <2>2 DEF LockHeld
<1>4. ASSUME NEW c \in Confirms, ConfirmStep(c)
      PROVE  LockHeld'
  BY <1>4, ConfirmKeepsLock
<1>5. CASE UNCHANGED <<taskVars, conf>>
  BY <1>5 DEF LockHeld, taskVars
<1> QED
  BY <1>1, <1>2, <1>3, <1>4, <1>5 DEF Next, vars, Upload, AuditStep, AuditFind, AuditUpdate,
     StoreAuditStatus, AuditStatusExpires, RemoveStep, RemoveFind, RemoveObject, RemoveRow

LEMMA InitLocks == Init => Known /\ LockHeld
BY DEF Init, Known, LockHeld, Active, AtTask, AtRow

(* The status of a task after a confirmation's step. *)
LEMMA ReadyStays ==
  ASSUME TypeOK, Known, LockHeld, [Next]_vars,
         NEW t \in Tasks \ LockExpiry, task[t] = "ready"
  PROVE  task'[t] = "ready"
<1>1. ASSUME NEW c \in Confirms, ConfirmStep(c)
      PROVE  task'[t] = "ready"
  <2>1. CASE task' = task
    BY <2>1
  <2>2. CASE conf[c].pc = "fail" /\ SaveUploadTask(conf[c].task, "failed")
    <3>1. conf[c].task # t
      BY <2>2 DEF LockHeld, Active, AtTask, Working
    <3> QED
      BY <2>2, <3>1 DEF SaveUploadTask, TypeOK
  <2>3. CASE conf[c].pc = "save" /\ SaveUploadTask(conf[c].task, "ready")
    BY <2>3 DEF SaveUploadTask, TypeOK
  <2> QED
    BY <1>1, <2>1, <2>2, <2>3, TaskWritten
<1>2. ASSUME NEW u \in Tasks, NEW k \in Keys, CreateUploadTask(u, k) \/ StoreUploadTask(u)
      PROVE  task'[t] = "ready"
  BY <1>2 DEF CreateUploadTask, StoreUploadTask, SaveUploadTask, TypeOK
<1>3. ASSUME NEW u \in Tasks, StoreUploadTask(u)
      PROVE  task'[t] = "ready"
  BY <1>3 DEF StoreUploadTask, SaveUploadTask, TypeOK
<1> QED
  BY <1>1, <1>2, <1>3 DEF Next, vars, taskVars, Upload, LockExpires, AuditStep, AuditFind, AuditUpdate,
     StoreAuditStatus, AuditStatusExpires, RemoveStep, RemoveFind, RemoveObject, RemoveRow

THEOREM TypeCorrect == Spec => []TypeOK
<1>1. Init => TypeOK /\ Known
  BY InitTyped, InitLocks
<1>2. TypeOK /\ Known /\ [Next]_vars => (TypeOK /\ Known)'
  BY NextTyped
<1> QED
  BY <1>1, <1>2, PTL DEF Spec

(* A ready task is not failed by a slower confirmation of it: the lock of  *)
(* lockUploadTask, while it does not run out, lets one confirmation past   *)
(* the read of the status at a time. *)
THEOREM ReadyTasksStayReady == Spec => ReadyIsFinal
<1>1. Init => TypeOK /\ Known /\ LockHeld
  BY InitTyped, InitLocks
<1>2. TypeOK /\ Known /\ LockHeld /\ [Next]_vars => (TypeOK /\ Known /\ LockHeld)'
  BY NextTyped, NextKeepsLock
<1>3. TypeOK /\ Known /\ LockHeld /\ [Next]_vars
        => [\A t \in Tasks \ LockExpiry : task[t] = "ready" => task'[t] = "ready"]_vars
  BY ReadyStays
<1> QED
  BY <1>1, <1>2, <1>3, PTL DEF Spec, ReadyIsFinal

-----------------------------------------------------------------------------
(* The row, its object and the tasks, while nothing is removed. *)

HasRow(c) == conf[c].pc \in AtRow \cup {"update"}

RowWhole ==
  NothingRemoved =>
    /\ image # None => image.key \in objects
    /\ image = None =>
         \A c \in Confirms : conf[c].pc \in {"find", "insert"} => keyOf[conf[c].task] \in objects
    /\ (\E t \in Tasks : task[t] = "ready") => image # None
    /\ \A c \in Confirms : HasRow(c) => /\ image # None
                                        /\ image.id = conf[c].found.id
                                        /\ image.key = conf[c].found.key

LEMMA StillNothingRemoved ==
  ASSUME TypeOK, [Next]_vars, NothingRemoved'
  PROVE  NothingRemoved /\ ~\E d \in Removers : RemoveStep(d)
<1>1. ASSUME NEW d \in Removers, RemoveStep(d)
      PROVE  FALSE
  <2>1. remove'[d].pc # "idle"
    BY <1>1, RemoveFields DEF RemoveStep, RemoveFind, RemoveObject, RemoveRow, TypeOK
  <2> QED
    BY <2>1 DEF NothingRemoved
<1>2. remove' = remove
  BY <1>1 DEF Next, vars, CreateUploadTask, StoreUploadTask, Upload, LockExpires, ConfirmStep,
     ConfirmUploadTaskByUser, ConfirmUploadTaskByCallback, LockUploadTask, ReadTask,
     VerifyUploadedObject, SaveFailedTask, FindImage, InsertImage, StatementFails, SaveReadyTask,
     ConsumeAuditStatus, ApplyAuditStatus, DeleteDuplicate,
     AuditStep, AuditFind, AuditUpdate, StoreAuditStatus, AuditStatusExpires
<1> QED
  BY <1>1, <1>2 DEF NothingRemoved

(* A row that is found or inserted is the row; nobody replaces it. *)
LEMMA ConfirmKeepsRow ==
  ASSUME TypeOK, Known, RowWhole, NothingRemoved, NEW c \in Confirms, ConfirmStep(c)
  PROVE  RowWhole'
<1>0. /\ image # None => image.key \in objects /\ image \in Images
      /\ image = None =>
           \A b \in Confirms : conf[b].pc \in {"find", "insert"} => keyOf[conf[b].task] \in objects
      /\ (\E t \in Tasks : task[t] = "ready") => image # None
      /\ \A b \in Confirms : HasRow(b) => /\ image # None
                                          /\ image.id = conf[b].found.id
                                          /\ image.key = conf[b].found.key
      /\ conf \in [Confirms -> ConfirmStates]
  BY DEF RowWhole, TypeOK
<1>1. PICK next \in ConfirmStates : Continue(c, next)
  BY ConfTyped
<1>2. conf'[c] = next /\ \A b \in Confirms \ {c} : conf'[b] = conf[b]
  BY <1>1, Continuing
<1>3. keyOf' = keyOf
  BY TaskWritten
<1> DEFINE Quietly ==
      /\ UNCHANGED <<objects, image>>
      /\ \A t \in Tasks : task'[t] = "ready" => task[t] = "ready" \/ HasRow(c)
      /\ conf'[c].pc \in {"find", "insert"} =>
           /\ conf'[c].task = conf[c].task
           /\ conf[c].pc = "verify" => keyOf[conf[c].task] \in objects
           /\ conf[c].pc \in {"verify", "find"}
      /\ HasRow(c)' => \/ HasRow(c) /\ conf'[c].found = conf[c].found
                       \/ image # None /\ conf'[c].found = image
<1>4. CASE Quietly
  <2>1. \A b \in Confirms : HasRow(b)' => /\ image # None
                                          /\ image.id = conf'[b].found.id
                                          /\ image.key = conf'[b].found.key
    BY <1>0, <1>2, <1>4 DEF HasRow
  <2>2. image = None => \A b \in Confirms : conf'[b].pc \in {"find", "insert"} => keyOf[conf'[b].task] \in objects
    BY <1>0, <1>2, <1>4
  <2>3. (\E t \in Tasks : task'[t] = "ready") => image # None
    BY <1>0, <1>4
  <2> QED
    BY <1>0, <1>3, <1>4, <2>1, <2>2, <2>3, Zenon DEF RowWhole
<1>5. CASE InsertImage(c) /\ image = None
  <2> DEFINE new == [id |-> c, key |-> keyOf[conf[c].task], status |-> Pass]
  <2>1. image' = new /\ conf'[c].found = new /\ task' = task /\ objects' = objects
    BY <1>0, <1>5 DEF InsertImage, Found, Continue
  <2>2. new # None /\ new.key \in objects
    <3>1. keyOf[conf[c].task] \in Keys /\ keyOf[conf[c].task] \in objects
      BY <1>0, <1>5, NewKey DEF InsertImage, Active, AtTask
    <3> QED
      BY <3>1
  <2> HIDE DEF new
  <2>3. \A b \in Confirms : HasRow(b)' => b = c
    BY <1>0, <1>2, <1>5 DEF HasRow
  <2> QED
    BY <1>3, <2>1, <2>2, <2>3, Zenon DEF RowWhole
<1>6. CASE ApplyAuditStatus(c)
  <2>1. /\ image # None /\ image' # None /\ image'.id = image.id /\ image'.key = image.key
        /\ task' = task /\ objects' = objects
    <3>1. conf[c].pc = "update" /\ conf[c].verdict \in Verdicts /\ HasRow(c)
      BY <1>6, ConfFields DEF ApplyAuditStatus, HasRow
    <3>2. task' = task /\ objects' = objects
      BY <1>6 DEF ApplyAuditStatus, taskVars
    <3>3. SetStatus(conf[c].found.id, conf[c].verdict) \/ image' = image
      BY <1>6 DEF ApplyAuditStatus
    <3> QED
      BY <1>0, <3>1, <3>2, <3>3, SettingStatus
  <2>2. conf'[c].found = conf[c].found /\ HasRow(c)
    BY <1>0, <1>6 DEF ApplyAuditStatus, Continue, HasRow
  <2>3. \A b \in Confirms : HasRow(b)' => HasRow(b) /\ conf'[b].found = conf[b].found
    BY <1>2, <2>2 DEF HasRow
  <2> QED
    BY <1>0, <1>3, <2>1, <2>3, Zenon DEF RowWhole
<1>7. CASE DeleteDuplicate(c)
  <2>1. /\ HasRow(c) /\ image' = image /\ task' = task
        /\ \/ objects' = objects
           \/ objects' = objects \ {keyOf[conf[c].task]} /\ conf[c].found.key # keyOf[conf[c].task]
        /\ conf'[c].pc = "done"
    BY <1>0, <1>7 DEF DeleteDuplicate, Leave, Continue, HasRow, AtRow
  <2>2. image # None /\ image.key \in objects'
    BY <1>0, <2>1
  <2>3. \A b \in Confirms : HasRow(b)' => HasRow(b) /\ conf'[b].found = conf[b].found
    BY <1>2, <2>1 DEF HasRow, AtRow
  <2> QED
    BY <1>0, <1>3, <2>1, <2>2, <2>3, Zenon DEF RowWhole
<1>8. ASSUME \/ ConfirmUploadTaskByUser(c) \/ ConfirmUploadTaskByCallback(c)
             \/ ReadTask(c) \/ SaveFailedTask(c) \/ StatementFails(c)
      PROVE  Quietly
  <2>1. conf'[c].pc \notin {"find", "insert"} /\ ~HasRow(c)'
    <3>1. ASSUME NEW t, LockUploadTask(c, t)
          PROVE  conf'[c].pc = "read"
      BY <1>0, <3>1 DEF LockUploadTask, Continue
    <3>2. ASSUME ReadTask(c) \/ SaveFailedTask(c) \/ StatementFails(c)
          PROVE  conf'[c].pc \in {"done", "refused", "verify"}
      BY <1>0, <3>2, ConfFields DEF ReadTask, SaveFailedTask, StatementFails, Leave, Continue, AtTask
    <3>3. conf'[c].pc \in {"read", "done", "refused", "verify"}
      BY <1>8, <3>1, <3>2 DEF ConfirmUploadTaskByUser, ConfirmUploadTaskByCallback
    <3> QED
      BY <3>3 DEF HasRow, AtRow
  <2>2. UNCHANGED <<objects, image>>
    BY <1>8 DEF ConfirmUploadTaskByUser, ConfirmUploadTaskByCallback, LockUploadTask, ReadTask,
       SaveFailedTask, StatementFails
  <2>3. \A t \in Tasks : task'[t] = "ready" => task[t] = "ready"
    BY <1>8, ConfFields DEF ConfirmUploadTaskByUser, ConfirmUploadTaskByCallback, LockUploadTask, ReadTask,
       SaveFailedTask, StatementFails, SaveUploadTask, TypeOK
  <2> QED
    BY <2>1, <2>2, <2>3
<1>9. CASE VerifyUploadedObject(c)
  <2>1. Quietly
    BY <1>0, <1>9, ConfFields DEF VerifyUploadedObject, Continue, HasRow, AtRow, AtTask, taskVars
  <2> QED
    BY <1>4, <2>1
<1>10. CASE FindImage(c)
  <2>1. Quietly
    BY <1>0, <1>10, ConfFields DEF FindImage, Found, Continue, HasRow, AtRow, AtTask, taskVars
  <2> QED
    BY <1>4, <2>1
<1>11. CASE InsertImage(c) /\ image # None
  <2>1. Quietly
    BY <1>0, <1>11 DEF InsertImage, Found, Leave, Continue, HasRow, AtRow
  <2> QED
    BY <1>4, <2>1
<1>12. CASE SaveReadyTask(c)
  <2>1. Quietly
    <3>1. HasRow(c) /\ conf'[c].pc = "consume" /\ conf'[c].found = conf[c].found /\ UNCHANGED <<objects, image>>
      BY <1>0, <1>12, ConfFields DEF SaveReadyTask, Continue, HasRow, AtRow
    <3> QED
      BY <3>1
  <2> QED
    BY <1>4, <2>1
<1>13. CASE ConsumeAuditStatus(c)
  <2>1. Quietly
    <3>1. /\ HasRow(c) /\ conf'[c].pc \in {"delete", "update"} /\ conf'[c].found = conf[c].found
          /\ UNCHANGED <<objects, image, task>>
      BY <1>0, <1>13, ConfFields DEF ConsumeAuditStatus, Continue, HasRow, AtRow, taskVars
    <3> QED
      BY <3>1
  <2> QED
    BY <1>4, <2>1
<1> QED
  BY <1>4, <1>5, <1>6, <1>7, <1>8, <1>9, <1>10, <1>11, <1>12, <1>13 DEF ConfirmStep

LEMMA NextKeepsRow ==
  ASSUME TypeOK, Known, RowWhole, [Next]_vars
  PROVE  RowWhole'
<1> SUFFICES ASSUME NothingRemoved'
             PROVE  RowWhole'
  BY Zenon DEF RowWhole
<1>0. NothingRemoved /\ ~\E d \in Removers : RemoveStep(d)
  BY StillNothingRemoved
<1>1. /\ image # None => image.key \in objects
      /\ image = None =>
           \A b \in Confirms : conf[b].pc \in {"find", "insert"} => keyOf[conf[b].task] \in objects
      /\ (\E t \in Tasks : task[t] = "ready") => image # None
      /\ \A b \in Confirms : HasRow(b) => /\ image # None
                                          /\ image.id = conf[b].found.id
                                          /\ image.key = conf[b].found.key
  BY <1>0 DEF RowWhole
<1>2. ASSUME NEW c \in Confirms, ConfirmStep(c)
      PROVE  RowWhole'
  BY <1>0, <1>2, ConfirmKeepsRow
<1>3. ASSUME /\ objects \subseteq objects' /\ UNCHANGED <<image, conf>>
             /\ \A t \in Tasks : task'[t] = "ready" => task[t] = "ready"
             /\ \A t \in Tasks : task[t] \in Stored => keyOf'[t] = keyOf[t]
      PROVE  RowWhole'
  <2>1. \A b \in Confirms : conf[b].pc \in {"find", "insert"} => keyOf'[conf[b].task] = keyOf[conf[b].task]
    BY <1>3, ConfFields DEF Known, Active, AtTask
  <2>2. \A b \in Confirms : HasRow(b)' <=> HasRow(b)
    BY <1>3 DEF HasRow
  <2> QED
    BY <1>1, <1>3, <2>1, <2>2, Zenon DEF RowWhole
<1>4. ASSUME NEW t \in Tasks, NEW k \in Keys, CreateUploadTask(t, k)
      PROVE  RowWhole'
  <2>1. objects' = objects /\ UNCHANGED <<image, conf>> /\ task[t] = "none"
    BY <1>4 DEF CreateUploadTask
  <2>2. /\ \A u \in Tasks : task'[u] = "ready" => task[u] = "ready"
        /\ \A u \in Tasks : task[u] \in Stored => keyOf'[u] = keyOf[u]
    BY <1>4 DEF CreateUploadTask, TypeOK, Stored
  <2> QED
    BY <1>3, <2>1, <2>2
<1>5. ASSUME NEW t \in Tasks, StoreUploadTask(t) \/ Upload(t) \/ LockExpires(t)
      PROVE  RowWhole'
  <2>1. objects \subseteq objects' /\ UNCHANGED <<image, conf, keyOf>>
    BY <1>5 DEF StoreUploadTask, SaveUploadTask, Upload, LockExpires, taskVars
  <2>2. \A u \in Tasks : task'[u] = "ready" => task[u] = "ready"
    BY <1>5 DEF StoreUploadTask, SaveUploadTask, Upload, LockExpires, taskVars, TypeOK
  <2> QED
    BY <1>3, <2>1, <2>2
<1>6. ASSUME NEW a \in Audits, AuditStep(a)
      PROVE  RowWhole'
  <2>1. UNCHANGED <<taskVars, objects, conf>>
    BY <1>6 DEF AuditStep, AuditFind, AuditUpdate, StoreAuditStatus
  <2>2. /\ image = None <=> image' = None
        /\ image # None => image'.id = image.id /\ image'.key = image.key
    BY <1>6, SettingStatus, AuditFields DEF AuditStep, AuditFind, AuditUpdate, StoreAuditStatus
  <2>3. \A b \in Confirms : HasRow(b)' <=> HasRow(b)
    BY <2>1 DEF HasRow
  <2> QED
    BY <1>1, <2>1, <2>2, <2>3, Zenon DEF RowWhole, taskVars
<1>7. CASE UNCHANGED vars \/ \E k \in Keys : AuditStatusExpires(k)
  BY <1>3, <1>7 DEF vars, taskVars, AuditStatusExpires
<1> QED
  BY <1>0, <1>2, <1>4, <1>5, <1>6, <1>7 DEF Next

(* Whatever the order of uploads, confirmations, callbacks and duplicates, *)
(* while no image is removed the row points to an object of the store, and *)
(* a ready task has its row. *)
THEOREM RowsAreWhole == Spec => []ImagesWhole
<1>1. Init => TypeOK /\ Known /\ RowWhole
  BY InitTyped, InitLocks DEF Init, RowWhole, HasRow, AtRow
<1>2. TypeOK /\ Known /\ RowWhole /\ [Next]_vars => (TypeOK /\ Known /\ RowWhole)'
  BY NextTyped, NextKeepsRow
<1>3. RowWhole => ImagesWhole
  BY DEF RowWhole, ImagesWhole, ImageHasObject, ReadyHasImage, HasRow, AtRow
<1> QED
  BY <1>1, <1>2, <1>3, PTL DEF Spec

-----------------------------------------------------------------------------
(* The verdict of the store, while nothing is removed. *)

(* The store does not take a verdict back (it may repeat it). *)
SameVerdict == \A k \in Keys : verdict[k] # None => verdict'[k] = verdict[k]
OneVerdict  == [][SameVerdict]_vars

AtAudit(a) == audit[a].pc \in {"park", "update"}

(* Where the verdict on k is: on the row, parked, or in a callback's or a   *)
(* confirmation's hands, unless a failure lost it. *)
Kept(k) ==
  \/ k \in dropped
  \/ image # None /\ image.key = k /\ image.status = verdict[k]
  \/ parked[k] = verdict[k]
  \/ \E a \in Audits : AtAudit(a) /\ audit[a].key = k
  \/ \E c \in Confirms : conf[c].pc = "update" /\ conf[c].found.key = k

(* Every copy of a verdict is the verdict; a row has it or the status it   *)
(* was inserted with; and it is somewhere. *)
VerdictWhole ==
  NothingRemoved =>
    /\ \A a \in Audits : AtAudit(a) => audit[a].verdict = verdict[audit[a].key]
    /\ \A a \in Audits : audit[a].pc = "update" =>
         image # None /\ image.id = audit[a].id /\ image.key = audit[a].key
    /\ \A k \in Keys : parked[k] \in {None, verdict[k]}
    /\ \A c \in Confirms : conf[c].pc = "update" => conf[c].verdict = verdict[conf[c].found.key]
    /\ image # None => image.status \in {Pass, verdict[image.key]}
    /\ \A c \in Confirms : HasRow(c) => conf[c].found.status \in {Pass, image.status}
    /\ \A k \in Keys : verdict[k] # None => Kept(k)

VerdictParts ==
  /\ \A a \in Audits : AtAudit(a) => audit[a].verdict = verdict[audit[a].key]
  /\ \A a \in Audits : audit[a].pc = "update" =>
       image # None /\ image.id = audit[a].id /\ image.key = audit[a].key
  /\ \A k \in Keys : parked[k] \in {None, verdict[k]}
  /\ \A c \in Confirms : conf[c].pc = "update" => conf[c].verdict = verdict[conf[c].found.key]
  /\ image # None => image.status \in {Pass, verdict[image.key]}
  /\ \A c \in Confirms : HasRow(c) => conf[c].found.status \in {Pass, image.status}
  /\ \A k \in Keys : verdict[k] # None => Kept(k)

(* A callback hands over the verdict of its key. *)
LEMMA AuditFindKeepsVerdict ==
  ASSUME TypeOK, VerdictParts, SameVerdict,
         NEW a \in Audits, NEW k \in Keys, NEW v \in Verdicts, AuditFind(a, k, v)
  PROVE  VerdictParts'
<1>1. /\ UNCHANGED <<taskVars, objects, image, parked, conf, remove>>
      /\ audit[a].pc = "idle"
      /\ verdict' = [verdict EXCEPT ![k] = v]
      /\ dropped' = dropped \ {k}
  BY DEF AuditFind
<1>2. verdict'[k] = v /\ \A j \in Keys \ {k} : verdict'[j] = verdict[j]
  BY <1>1 DEF TypeOK
<1>3. verdict[k] \in {None, v} /\ v # None
  BY <1>2 DEF SameVerdict
<1>4. \A b \in Audits \ {a} : audit'[b] = audit[b]
  BY DEF AuditFind, TypeOK
<1>5. \/ /\ image = None \/ image.key # k
         /\ audit'[a] = [pc |-> "park", key |-> k, verdict |-> v]
      \/ image # None /\ image.key = k /\ image.status = v /\ audit'[a] = [pc |-> "done"]
      \/ /\ image # None /\ image.key = k
         /\ audit'[a] = [pc |-> "update", key |-> k, verdict |-> v, id |-> image.id]
  BY DEF AuditFind, TypeOK
<1>6. \A j \in Keys : verdict[j] # None => verdict'[j] = verdict[j]
  BY <1>2, <1>3
<1>7. \A b \in Audits : AtAudit(b)' => audit'[b].verdict = verdict'[audit'[b].key]
  <2> SUFFICES ASSUME NEW b \in Audits, AtAudit(b)'
               PROVE  audit'[b].verdict = verdict'[audit'[b].key]
    OBVIOUS
  <2>1. CASE b = a
    BY <1>2, <1>5, <2>1 DEF AtAudit
  <2>2. CASE b # a
    <3>1. audit'[b] = audit[b] /\ AtAudit(b) /\ audit[b].key \in Keys /\ audit[b].verdict # None
      BY <1>4, <2>2, AuditFields DEF AtAudit
    <3> QED
      BY <1>6, <3>1 DEF VerdictParts
  <2> QED
    BY <2>1, <2>2
<1>8. \A b \in Audits : audit'[b].pc = "update" =>
        image # None /\ image.id = audit'[b].id /\ image.key = audit'[b].key
  <2>1. audit'[a].pc = "update" =>
          image # None /\ image.id = audit'[a].id /\ image.key = audit'[a].key
    BY <1>5
  <2> QED
    BY <1>4, <2>1, Zenon DEF VerdictParts
<1>9. \A j \in Keys : parked[j] \in {None, verdict'[j]}
  BY <1>2, <1>3 DEF VerdictParts
<1>10. \A c \in Confirms : conf[c].pc = "update" => conf[c].verdict = verdict'[conf[c].found.key]
  <2> SUFFICES ASSUME NEW c \in Confirms, conf[c].pc = "update"
               PROVE  conf[c].verdict = verdict'[conf[c].found.key]
    OBVIOUS
  <2>1. conf[c].verdict # None /\ conf[c].found.key \in Keys
    BY ConfFields DEF Images
  <2> QED
    BY <1>6, <2>1 DEF VerdictParts
<1>11. image # None => image.status \in {Pass, verdict'[image.key]}
  <2> SUFFICES ASSUME image # None
               PROVE  image.status \in {Pass, verdict'[image.key]}
    OBVIOUS
  <2>1. image.key \in Keys /\ image.status # None
    BY DEF TypeOK, Images
  <2> QED
    BY <1>6, <2>1 DEF VerdictParts
<1>12. \A c \in Confirms : HasRow(c)' => conf[c].found.status \in {Pass, image.status}
  BY <1>1 DEF VerdictParts, HasRow
<1>13. ASSUME NEW j \in Keys, verdict'[j] # None
       PROVE  Kept(j)'
  <2>1. CASE j = k
    <3>1. CASE audit'[a].pc \in {"park", "update"}
      BY <1>5, <2>1, <3>1 DEF Kept, AtAudit
    <3>2. CASE image # None /\ image.key = k /\ image.status = v
      BY <1>1, <1>2, <2>1, <3>2 DEF Kept
    <3> QED
      BY <1>5, <3>1, <3>2
  <2>2. CASE j # k
    <3>1. verdict'[j] = verdict[j] /\ Kept(j)
      BY <1>2, <1>13, <2>2 DEF VerdictParts
    <3>2. \A b \in Audits : AtAudit(b) => audit'[b] = audit[b]
      BY <1>1, <1>4 DEF AtAudit
    <3>3. j \in dropped => j \in dropped'
      BY <1>1, <2>2
    <3> QED
      BY <1>1, <3>1, <3>2, <3>3, Zenon DEF Kept, AtAudit
  <2> QED
    BY <2>1, <2>2
<1> QED
  BY <1>1, <1>7, <1>8, <1>9, <1>10, <1>11, <1>12, <1>13, Zenon DEF VerdictParts

(* A step that leaves the verdicts and the row alone, and loses no copy. *)
LEMMA VerdictUntouched ==
  ASSUME VerdictParts, UNCHANGED <<image, parked, audit, verdict, dropped>>,
         \A c \in Confirms : HasRow(c)' => \/ HasRow(c) /\ conf'[c].found.status = conf[c].found.status
                                           \/ conf'[c].found.status = image.status,
         \A c \in Confirms : \/ conf'[c] = conf[c]
                             \/ conf[c].pc # "update" /\ conf'[c].pc # "update"
  PROVE  VerdictParts'
<1>0. image' = image /\ parked' = parked /\ audit' = audit /\ verdict' = verdict /\ dropped' = dropped
  OBVIOUS
<1>1. \A c \in Confirms : HasRow(c)' => conf'[c].found.status \in {Pass, image.status}
  BY DEF VerdictParts
<1>2. \A k \in Keys : verdict[k] # None => Kept(k)'
  <2> SUFFICES ASSUME NEW k \in Keys, verdict[k] # None
               PROVE  Kept(k)'
    OBVIOUS
  <2>1. Kept(k)
    BY DEF VerdictParts
  <2>2. CASE \E c \in Confirms : conf[c].pc = "update" /\ conf[c].found.key = k
    <3>1. PICK c \in Confirms : conf[c].pc = "update" /\ conf[c].found.key = k
      BY <2>2
    <3>2. conf'[c] = conf[c]
      BY <3>1
    <3> QED
      BY <3>1, <3>2 DEF Kept
  <2>3. CASE ~\E c \in Confirms : conf[c].pc = "update" /\ conf[c].found.key = k
    BY <1>0, <2>1, <2>3, Zenon DEF Kept, AtAudit
  <2> QED
    BY <2>2, <2>3
<1>3. \A c \in Confirms : conf'[c].pc = "update" => conf'[c].verdict = verdict[conf'[c].found.key]
  BY DEF VerdictParts
<1> QED
  BY <1>0, <1>1, <1>2, <1>3, Zenon DEF VerdictParts, AtAudit

(* The verdict reaches the row, or is parked. *)
LEMMA AuditWritesKeepVerdict ==
  ASSUME TypeOK, VerdictParts, NEW a \in Audits, AuditUpdate(a) \/ StoreAuditStatus(a)
  PROVE  VerdictParts'
<1> DEFINE k == audit[a].key
           v == audit[a].verdict
<1>1. /\ conf' = conf /\ verdict' = verdict /\ AtAudit(a) /\ audit' = [audit EXCEPT ![a] = [pc |-> "done"]]
      /\ k \in Keys /\ v \in Verdicts /\ v = verdict[k]
  BY AuditFields DEF AuditUpdate, StoreAuditStatus, AtAudit, VerdictParts
<1>2. audit'[a] = [pc |-> "done"] /\ \A b \in Audits \ {a} : audit'[b] = audit[b]
  BY <1>1 DEF TypeOK
<1>3. \A b \in Audits : AtAudit(b)' => b # a /\ audit'[b] = audit[b]
  BY <1>2 DEF AtAudit
<1>6. dropped \subseteq dropped'
  BY DEF AuditUpdate, StoreAuditStatus, Drop, lostVars
<1> HIDE DEF k, v
<1>4. CASE AuditUpdate(a) /\ SetStatus(audit[a].id, v)
  <2>1. /\ parked' = parked /\ SetStatus(audit[a].id, v)
        /\ image # None /\ image.id = audit[a].id /\ image.key = k
    BY <1>4 DEF AuditUpdate, VerdictParts, k, v
  <2>2. image' # None /\ image'.id = image.id /\ image'.key = k /\ image'.status = v
    BY <1>1, <2>1, SettingStatus
  <2>3. \A c \in Confirms : HasRow(c)' => conf'[c].found.status \in {Pass, image'.status}
    BY <1>1, <2>1, <2>2 DEF VerdictParts, HasRow
  <2>4. ASSUME NEW j \in Keys, verdict[j] # None
        PROVE  Kept(j)'
    <3>1. CASE j = k
      BY <1>1, <2>2, <3>1 DEF Kept
    <3>2. CASE j # k
      <4>1. Kept(j) /\ image.key # j
        BY <2>1, <2>4, <3>2 DEF VerdictParts
      <4>2. \A b \in Audits : AtAudit(b) /\ audit[b].key = j => AtAudit(b)' /\ audit'[b].key = j
        BY <1>2, <3>2 DEF AtAudit, k
      <4> QED
        BY <1>1, <1>6, <2>1, <4>1, <4>2, Zenon DEF Kept
    <3> QED
      BY <3>1, <3>2
  <2>5. \A b \in Audits : audit'[b].pc = "update" =>
          image' # None /\ image'.id = audit'[b].id /\ image'.key = audit'[b].key
    BY <1>2, <2>1, <2>2 DEF VerdictParts
  <2>6. \A b \in Audits : AtAudit(b)' => audit'[b].verdict = verdict[audit'[b].key]
    BY <1>3, Zenon DEF VerdictParts, AtAudit
  <2>7. image'.status \in {Pass, verdict[image'.key]}
    BY <1>1, <2>2
  <2> QED
    BY <1>1, <2>1, <2>3, <2>4, <2>5, <2>6, <2>7, Zenon DEF VerdictParts
<1>5. CASE StoreAuditStatus(a) /\ parked' = [parked EXCEPT ![k] = v]
  <2>1. image' = image /\ parked' = [parked EXCEPT ![k] = v]
    BY <1>5 DEF StoreAuditStatus
  <2>2. parked'[k] = v /\ \A j \in Keys \ {k} : parked'[j] = parked[j]
    BY <1>1, <2>1 DEF TypeOK
  <2>3. \A j \in Keys : parked'[j] \in {None, verdict[j]}
    BY <1>1, <2>2 DEF VerdictParts
  <2>4. ASSUME NEW j \in Keys, verdict[j] # None
        PROVE  Kept(j)'
    <3>1. CASE j = k
      BY <1>1, <2>2, <3>1 DEF Kept
    <3>2. CASE j # k
      <4>1. Kept(j)
        BY <2>4 DEF VerdictParts
      <4>2. \A b \in Audits : AtAudit(b) /\ audit[b].key = j => AtAudit(b)' /\ audit'[b].key = j
        BY <1>2, <3>2 DEF AtAudit, k
      <4> QED
        BY <1>1, <1>6, <2>1, <2>2, <3>2, <4>1, <4>2, Zenon DEF Kept
    <3> QED
      BY <3>1, <3>2
  <2>5. /\ \A c \in Confirms : HasRow(c)' => HasRow(c)
        /\ \A b \in Audits : audit'[b].pc = "update" => AtAudit(b)'
    BY <1>1 DEF HasRow, AtAudit
  <2>6. \A b \in Audits : AtAudit(b)' => audit'[b].verdict = verdict[audit'[b].key]
    BY <1>3, Zenon DEF VerdictParts, AtAudit
  <2>7. \A b \in Audits : audit'[b].pc = "update" =>
          image # None /\ image.id = audit'[b].id /\ image.key = audit'[b].key
    BY <1>3, <2>5, Zenon DEF VerdictParts
  <2>8. \A c \in Confirms : HasRow(c)' => conf'[c].found.status \in {Pass, image.status}
    BY <1>1, <2>5 DEF VerdictParts
  <2> QED
    BY <1>1, <2>1, <2>3, <2>4, <2>6, <2>7, <2>8, Zenon DEF VerdictParts
<1>7. CASE UNCHANGED <<image, parked>> /\ k \in dropped'
  <2>1. ASSUME NEW j \in Keys, verdict[j] # None
        PROVE  Kept(j)'
    <3>1. Kept(j)
      BY <2>1 DEF VerdictParts
    <3>2. j # k => \A b \in Audits : AtAudit(b) /\ audit[b].key = j => AtAudit(b)' /\ audit'[b].key = j
      BY <1>2 DEF AtAudit, k
    <3> QED
      BY <1>1, <1>6, <1>7, <3>1, <3>2, Zenon DEF Kept
  <2>2. /\ \A c \in Confirms : HasRow(c)' => conf'[c].found.status \in {Pass, image'.status}
        /\ \A b \in Audits : audit'[b].pc = "update" => AtAudit(b)'
    BY <1>1, <1>7 DEF HasRow, AtAudit, VerdictParts
  <2>3. \A b \in Audits : AtAudit(b)' => audit'[b].verdict = verdict[audit'[b].key]
    BY <1>3, Zenon DEF VerdictParts, AtAudit
  <2>4. \A b \in Audits : audit'[b].pc = "update" =>
          image # None /\ image.id = audit'[b].id /\ image.key = audit'[b].key
    BY <1>3, <2>2, Zenon DEF VerdictParts
  <2> QED
    BY <1>1, <1>7, <2>1, <2>2, <2>3, <2>4, Zenon DEF VerdictParts
<1> QED
  BY <1>4, <1>5, <1>7 DEF AuditUpdate, StoreAuditStatus, Drop, k, v

(* GETDEL: the parked verdict is on the row already, or in the hands of    *)
(* the confirmation. *)
LEMMA ConsumeKeepsVerdict ==
  ASSUME TypeOK, Known, RowWhole, NothingRemoved, VerdictParts,
         NEW c \in Confirms, ConsumeAuditStatus(c)
  PROVE  VerdictParts'
<1> DEFINE row == conf[c].found
           k == row.key
           v == parked[k]
<1>1. /\ image' = image /\ audit' = audit /\ verdict' = verdict /\ dropped \subseteq dropped'
      /\ conf[c].pc = "consume" /\ HasRow(c)
      /\ row \in Images
  BY ConfFields DEF ConsumeAuditStatus, HasRow, AtRow, Drop, lostVars
<1>2. k \in Keys /\ image # None /\ image.id = row.id /\ image.key = k
  BY <1>1 DEF RowWhole, Images
<1>3. /\ \A b \in Confirms \ {c} : conf'[b] = conf[b]
      /\ conf'[c].found = row
      /\ \/ v \in {None, row.status} /\ conf'[c].pc = "delete"
         \/ v \notin {None, row.status} /\ conf'[c].pc = "update" /\ conf'[c].verdict = v
         \/ k \in dropped' /\ conf'[c].pc = "delete"
         \/ parked' = parked /\ conf'[c].pc = "delete"
  <2>1. conf \in [Confirms -> ConfirmStates]
    BY DEF TypeOK
  <2> DEFINE dels == [pc |-> "delete", task |-> conf[c].task, found |-> row]
             upd == [pc |-> "update", task |-> conf[c].task, found |-> row, verdict |-> v]
  <2>2. \/ v \in {None, row.status} /\ Continue(c, dels)
        \/ v \notin {None, row.status} /\ Continue(c, upd)
        \/ k \in dropped' /\ Continue(c, dels)
        \/ parked' = parked /\ Continue(c, dels)
    BY DEF ConsumeAuditStatus, Drop
  <2> QED
    BY <2>1, <2>2 DEF Continue
<1>4. parked'[k] \in {None, parked[k]} /\ \A j \in Keys \ {k} : parked'[j] = parked[j]
  <2>1. parked' = [parked EXCEPT ![k] = None] \/ parked' = parked
    BY DEF ConsumeAuditStatus
  <2> QED
    BY <1>2, <2>1 DEF TypeOK
<1>5. /\ v \in {None, verdict[k]}
      /\ image.status \in {Pass, verdict[k]}
      /\ row.status \in {Pass, image.status}
  BY <1>1, <1>2 DEF VerdictParts
<1> HIDE DEF row, k, v
<1>6. \A b \in Confirms : conf'[b].pc = "update" => conf'[b].verdict = verdict[conf'[b].found.key]
  BY <1>3, <1>5 DEF VerdictParts, k
<1>7. \A b \in Confirms : HasRow(b)' => conf'[b].found.status \in {Pass, image.status}
  BY <1>3, <1>5 DEF VerdictParts, HasRow
<1>8. \A j \in Keys : parked'[j] \in {None, verdict[j]}
  BY <1>4 DEF VerdictParts
<1>9. ASSUME NEW j \in Keys, verdict[j] # None
      PROVE  Kept(j)'
  <2>1. Kept(j)
    BY <1>9 DEF VerdictParts
  <2>2. CASE j = k /\ v = verdict[k]
    <3>1. CASE v = row.status
      BY <1>1, <1>2, <1>5, <2>2, <3>1 DEF Kept
    <3>2. CASE conf'[c].pc = "update"
      BY <1>3, <2>2, <3>2 DEF Kept, k
    <3>3. CASE k \in dropped'
      BY <2>2, <3>3 DEF Kept
    <3>4. CASE parked' = parked
      BY <1>1, <2>2, <3>4 DEF Kept, v
    <3> QED
      BY <1>3, <1>9, <2>2, <3>1, <3>2, <3>3, <3>4
  <2>3. CASE ~(j = k /\ v = verdict[k])
    <3>1. parked[j] = verdict[j] => parked'[j] = verdict[j]
      BY <1>4, <2>3 DEF v
    <3>2. \A b \in Confirms : conf[b].pc = "update" => conf'[b] = conf[b]
      BY <1>1, <1>3
    <3> QED
      BY <1>1, <2>1, <3>1, <3>2, Zenon DEF Kept, AtAudit
  <2> QED
    BY <2>2, <2>3
<1> QED
  BY <1>1, <1>6, <1>7, <1>8, <1>9, Zenon DEF VerdictParts, AtAudit

LEMMA ApplyKeepsVerdict ==
  ASSUME TypeOK, Known, RowWhole, NothingRemoved, VerdictParts,
         NEW c \in Confirms, ApplyAuditStatus(c)
  PROVE  VerdictParts'
<1> DEFINE row == conf[c].found
           k == row.key
           v == conf[c].verdict
<1>1. /\ audit' = audit /\ verdict' = verdict /\ parked' = parked /\ dropped \subseteq dropped'
      /\ conf[c].pc = "update" /\ HasRow(c)
      /\ row \in Images /\ v \in Verdicts
      /\ SetStatus(row.id, v) \/ (k \in dropped' /\ image' = image)
  BY ConfFields DEF ApplyAuditStatus, HasRow, Drop, lostVars
<1>2. k \in Keys /\ image # None /\ image.id = row.id /\ image.key = k
  BY <1>1 DEF RowWhole, Images
<1>3. /\ \A b \in Confirms \ {c} : conf'[b] = conf[b]
      /\ conf'[c].found = row /\ conf'[c].pc = "delete"
  BY DEF ApplyAuditStatus, Continue, TypeOK
<1>4. v = verdict[k]
  BY <1>1 DEF VerdictParts
<1>5. /\ image' # None /\ image'.id = image.id /\ image'.key = k
      /\ image'.status = v \/ (k \in dropped' /\ image'.status = image.status)
  BY <1>1, <1>2, SettingStatus
<1>6. image.status \in {Pass, v} /\ \A b \in Confirms : HasRow(b) => conf[b].found.status \in {Pass, image.status}
  BY <1>2, <1>4 DEF VerdictParts
<1>7. row.status \in {Pass, image.status}
  BY <1>1, <1>6
<1> HIDE DEF row, k, v
<1>8. \A b \in Confirms : HasRow(b)' => conf'[b].found.status \in {Pass, image'.status}
  BY <1>3, <1>5, <1>6, <1>7 DEF HasRow
<1>9. \A b \in Confirms : conf'[b].pc = "update" => conf'[b].verdict = verdict[conf'[b].found.key]
  BY <1>3 DEF VerdictParts
<1>10. \A a \in Audits : audit[a].pc = "update" =>
         image' # None /\ image'.id = audit[a].id /\ image'.key = audit[a].key
  BY <1>2, <1>5 DEF VerdictParts
<1>11. ASSUME NEW j \in Keys, verdict[j] # None
       PROVE  Kept(j)'
  <2>1. Kept(j)
    BY <1>11 DEF VerdictParts
  <2>2. CASE j = k
    BY <1>1, <1>4, <1>5, <2>2 DEF Kept
  <2>3. CASE j # k
    <3>1. \A b \in Confirms : conf[b].pc = "update" /\ conf[b].found.key = j => conf'[b] = conf[b]
      BY <1>3, <2>3 DEF row, k
    <3> QED
      BY <1>1, <1>2, <2>1, <2>3, <3>1, Zenon DEF Kept, AtAudit
  <2> QED
    BY <2>2, <2>3
<1>12. image'.status \in {Pass, verdict[image'.key]}
  BY <1>4, <1>5, <1>6
<1> QED
  BY <1>1, <1>8, <1>9, <1>10, <1>11, <1>12, Zenon DEF VerdictParts, AtAudit

LEMMA InsertKeepsVerdict ==
  ASSUME TypeOK, Known, RowWhole, NothingRemoved, VerdictParts,
         NEW c \in Confirms, InsertImage(c), image = None
  PROVE  VerdictParts'
<1> DEFINE new == [id |-> c, key |-> keyOf[conf[c].task], status |-> Pass]
<1>1. /\ image' = new /\ audit' = audit /\ verdict' = verdict /\ parked' = parked /\ dropped' = dropped
      /\ conf[c].pc = "insert"
      /\ \A b \in Confirms \ {c} : conf'[b] = conf[b]
      /\ conf'[c].found = new /\ conf'[c].pc = "save"
  BY DEF InsertImage, Found, Continue, lostVars, TypeOK
<1>2. image'.status = Pass /\ conf'[c].found.status = Pass
  BY <1>1
<1>3. \A b \in Confirms : ~HasRow(b)
  BY DEF RowWhole
<1> HIDE DEF new
<1>4. \A b \in Confirms : HasRow(b)' => b = c
  BY <1>1, <1>3 DEF HasRow
<1>5. \A b \in Confirms : conf[b].pc # "update" /\ conf'[b].pc # "update"
  BY <1>1, <1>3, <1>4 DEF HasRow
<1>6. \A a \in Audits : audit[a].pc # "update"
  BY DEF VerdictParts
<1>7. \A k \in Keys : verdict[k] # None => Kept(k)'
  BY <1>1, <1>5, Zenon DEF VerdictParts, Kept, AtAudit
<1> QED
  BY <1>1, <1>2, <1>4, <1>5, <1>6, <1>7 DEF VerdictParts, AtAudit

LEMMA ConfirmKeepsVerdict ==
  ASSUME TypeOK, Known, RowWhole, NothingRemoved, VerdictParts,
         NEW c \in Confirms, ConfirmStep(c)
  PROVE  VerdictParts'
<1>0. conf \in [Confirms -> ConfirmStates]
  BY DEF TypeOK
<1>1. PICK next \in ConfirmStates : Continue(c, next)
  BY ConfTyped
<1>2. conf'[c] = next /\ \A b \in Confirms \ {c} : conf'[b] = conf[b]
  BY <1>1, Continuing
<1>3. CASE ConsumeAuditStatus(c) \/ ApplyAuditStatus(c) \/ (InsertImage(c) /\ image = None)
  BY <1>3, ConsumeKeepsVerdict, ApplyKeepsVerdict, InsertKeepsVerdict
<1>4. CASE ~(ConsumeAuditStatus(c) \/ ApplyAuditStatus(c) \/ (InsertImage(c) /\ image = None))
  <2>1. UNCHANGED <<image, parked, audit, verdict, dropped>>
    BY <1>4 DEF ConfirmStep, ConfirmUploadTaskByUser, ConfirmUploadTaskByCallback, LockUploadTask, ReadTask,
       VerifyUploadedObject, SaveFailedTask, FindImage, InsertImage, StatementFails, SaveReadyTask,
       DeleteDuplicate, lostVars
  <2> DEFINE Moved ==
        /\ conf[c].pc # "update" /\ conf'[c].pc # "update"
        /\ HasRow(c)' => \/ HasRow(c) /\ conf'[c].found = conf[c].found
                         \/ conf'[c].found = image
  <2>2. ASSUME NEW t, LockUploadTask(c, t)
        PROVE  Moved
    BY <1>0, <2>2 DEF LockUploadTask, Continue, HasRow, AtRow
  <2>3. ASSUME ReadTask(c) \/ SaveFailedTask(c) \/ DeleteDuplicate(c) \/ StatementFails(c)
        PROVE  Moved
    <3>1. conf[c].pc # "update" /\ conf'[c].pc \in {"done", "refused", "verify"}
      BY <1>0, <2>3, ConfFields DEF ReadTask, SaveFailedTask, DeleteDuplicate, StatementFails, Leave, Continue, AtTask
    <3> QED
      BY <3>1 DEF HasRow, AtRow
  <2>4. ASSUME VerifyUploadedObject(c)
        PROVE  Moved
    BY <1>0, <2>4, ConfFields DEF VerifyUploadedObject, Continue, HasRow, AtRow, AtTask
  <2>5. ASSUME FindImage(c)
        PROVE  Moved
    BY <1>0, <2>5, ConfFields DEF FindImage, Found, Continue, HasRow, AtRow, AtTask
  <2>6. ASSUME InsertImage(c) /\ image # None
        PROVE  Moved
    BY <1>0, <2>6 DEF InsertImage, Found, Leave, Continue, HasRow, AtRow
  <2>7. ASSUME SaveReadyTask(c)
        PROVE  Moved
    BY <1>0, <2>7, ConfFields DEF SaveReadyTask, Continue, HasRow, AtRow
  <2>8. Moved
    BY <1>4, <2>2, <2>3, <2>4, <2>5, <2>6, <2>7
       DEF ConfirmStep, ConfirmUploadTaskByUser, ConfirmUploadTaskByCallback
  <2>9. \A b \in Confirms : HasRow(b)' => \/ HasRow(b) /\ conf'[b].found.status = conf[b].found.status
                                          \/ conf'[b].found.status = image.status
    BY <1>2, <2>8 DEF HasRow
  <2>10. \A b \in Confirms : \/ conf'[b] = conf[b]
                             \/ conf[b].pc # "update" /\ conf'[b].pc # "update"
    BY <1>2, <2>8
  <2> QED
    BY <2>1, <2>9, <2>10, VerdictUntouched, Zenon
<1> QED
  BY <1>3, <1>4

LEMMA NextKeepsVerdict ==
  ASSUME TypeOK, Known, RowWhole, VerdictWhole, [Next /\ SameVerdict]_vars
  PROVE  VerdictWhole'
<1> SUFFICES ASSUME NothingRemoved'
             PROVE  VerdictParts'
  BY Zenon DEF VerdictWhole, VerdictParts
<1>0. [Next]_vars
  OBVIOUS
<1>1. NothingRemoved /\ ~\E d \in Removers : RemoveStep(d)
  BY <1>0, StillNothingRemoved
<1>2. VerdictParts
  BY <1>1, Zenon DEF VerdictWhole, VerdictParts
<1>3. ASSUME NEW c \in Confirms, ConfirmStep(c)
      PROVE  VerdictParts'
  BY <1>1, <1>2, <1>3, ConfirmKeepsVerdict
<1>4. ASSUME NEW a \in Audits, AuditStep(a), SameVerdict
      PROVE  VerdictParts'
  BY <1>2, <1>4, AuditFindKeepsVerdict, AuditWritesKeepVerdict DEF AuditStep
<1>5. CASE UNCHANGED <<image, parked, audit, verdict, conf, dropped>>
  <2>1. conf' = conf /\ UNCHANGED <<image, parked, audit, verdict, dropped>>
    BY <1>5
  <2>2. \A c \in Confirms : HasRow(c)' <=> HasRow(c)
    BY <2>1 DEF HasRow
  <2>3. \A c \in Confirms : HasRow(c)' => \/ HasRow(c) /\ conf'[c].found.status = conf[c].found.status
                                          \/ conf'[c].found.status = image.status
    BY <2>1, <2>2
  <2>4. \A c \in Confirms : \/ conf'[c] = conf[c]
                            \/ conf[c].pc # "update" /\ conf'[c].pc # "update"
    BY <2>1
  <2> QED
    BY <1>2, <2>1, <2>3, <2>4, VerdictUntouched, Zenon
<1>6. ASSUME NEW k \in Keys, AuditStatusExpires(k)
      PROVE  VerdictParts'
  <2>1. /\ UNCHANGED <<image, audit, verdict, conf>>
        /\ dropped \subseteq dropped' /\ k \in dropped'
        /\ \A j \in Keys : parked'[j] \in {None, parked[j]} /\ (j # k => parked'[j] = parked[j])
    BY <1>0, <1>6 DEF AuditStatusExpires, Drop, TypeOK
  <2>2. \A j \in Keys : verdict[j] # None => Kept(j)'
    BY <1>2, <2>1, Zenon DEF VerdictParts, Kept, AtAudit
  <2>3. \A j \in Keys : parked'[j] \in {None, verdict[j]}
    BY <1>2, <2>1 DEF VerdictParts
  <2> QED
    BY <1>2, <2>1, <2>2, <2>3, Zenon DEF VerdictParts, AtAudit, HasRow
<1> QED
  BY <1>1, <1>3, <1>4, <1>5, <1>6
     DEF Next, vars, lostVars, CreateUploadTask, StoreUploadTask, SaveUploadTask, Upload, LockExpires

(* No order of confirmations and audit callbacks drops the verdict of the  *)
(* store: once nothing runs it is on the row, or parked for it, unless the *)
(* statement that should write or take it failed, or it waited 24 hours.   *)
(* Proved of any number of callbacks, as long as the store does not take a *)
(* verdict back and no image is removed; the run has one callback. *)
THEOREM VerdictIsKept == Spec /\ OneVerdict => []VerdictKept
<1>1. Init => TypeOK /\ Known /\ RowWhole /\ VerdictWhole
  <2> SUFFICES ASSUME Init PROVE RowWhole /\ VerdictWhole
    BY InitTyped, InitLocks
  <2> QED
    BY DEF Init, RowWhole, VerdictWhole, HasRow, AtRow, AtAudit
<1>2. TypeOK /\ Known /\ RowWhole /\ VerdictWhole /\ [Next /\ SameVerdict]_vars
        => (TypeOK /\ Known /\ RowWhole /\ VerdictWhole)'
  BY NextTyped, NextKeepsRow, NextKeepsVerdict
<1>3. TypeOK /\ VerdictWhole => VerdictKept
  BY DEF TypeOK, Images, VerdictWhole, VerdictKept, Judged, Quiet, Kept, AtAudit
<1>4. [Next]_vars /\ [SameVerdict]_vars => [Next /\ SameVerdict]_vars
  OBVIOUS
<1> QED
  BY <1>1, <1>2, <1>3, <1>4, PTL DEF Spec, OneVerdict

-----------------------------------------------------------------------------
(* References.  Rows are alike when no rebuild between them is needed.     *)

AnyRow == UNION {Refs!Row(o) : o \in Refs!Owners}
Events == [owner : Refs!Owners, before : AnyRow \cup {None}, after : AnyRow \cup {None}]

Alike(a, b) ==
  \/ a = b
  \/ /\ a # None /\ b # None /\ a.deleted = b.deleted
     /\ ~a.deleted => a.content = b.content /\ a.cover = b.cover

Pictures(o, row, shots) == IF row.deleted THEN {} ELSE Refs!RefsTo(o, row, shots)
Within(list, shots) == {r \in list : r.image \in DOMAIN shots}

JobTyped(state, last) ==
  /\ state.at \in {"idle", "select", "create"}
  /\ state.at # "idle" => state.owner \in Refs!Owners /\ state.row \in AnyRow /\ ~state.row.deleted
  /\ state.at = "create" => DOMAIN state.found \subseteq 1 .. last

RefsTyped ==
  /\ DOMAIN rows = Refs!Owners /\ \A o \in Refs!Owners : rows[o] \in Refs!Row(o) \cup {None}
  /\ lastID \in 0 .. MaxImages /\ DOMAIN images \subseteq 1 .. lastID
  /\ \A i \in DOMAIN images : images[i] \in RefKeys
  /\ \A r \in refs : r.image \in 1 .. lastID /\ r.owner \in Refs!Owners
  /\ canal \in {"on", "off"} /\ feed \in Seq(Events) /\ JobTyped(job, lastID)
  /\ removing \subseteq 1 .. lastID /\ late \subseteq Refs!Owners

\* What is there of an owner, or will be when its rebuild is done.
Coming(o) == IF job.at = "create" /\ job.owner = o THEN Refs!RefsTo(o, job.row, job.found)
                                                   ELSE Refs!OwnRefs(o)

Right(o, row) ==
  IF job.at = "select" /\ job.owner = o THEN Alike(job.row, row)
  ELSE o \notin late => Within(Coming(o), images) = Pictures(o, row, images)

\* The last event that rebuilds an owner has the row there is.
LastWord ==
  \A n \in DOMAIN feed :
    (\A m \in DOMAIN feed : m > n /\ feed[m].owner = feed[n].owner => Refs!Ignored(feed[m]))
      => Alike(feed[n].after, rows[feed[n].owner])

Pending(o, events) == \E m \in DOMAIN events : events[m].owner = o /\ ~Refs!Ignored(events[m])

NothingForgotten == \A o \in Refs!Owners : rows[o] # None => Pending(o, feed) \/ Right(o, rows[o])

RefsInv ==
  /\ RefsTyped
  /\ job.at # "idle" => Refs!OwnRefs(job.owner) = {}
  /\ canal = "off" => job = Refs!NoJob
  /\ canal = "on" => LastWord /\ NothingForgotten

-----------------------------------------------------------------------------
LEMMA RefsOf ==
  ASSUME NEW o, NEW row, NEW shots, NEW r
  PROVE  r \in Refs!RefsTo(o, row, shots) <=>
           \E i \in DOMAIN shots : \E c \in Refs!ParseCandidates(row) :
             /\ shots[i] = c.url
             /\ r = [image |-> i, owner |-> o, field |-> c.field, position |-> c.position]
<1>1. ASSUME r \in Refs!RefsTo(o, row, shots)
      PROVE  \E i \in DOMAIN shots : \E c \in Refs!ParseCandidates(row) :
               /\ shots[i] = c.url
               /\ r = [image |-> i, owner |-> o, field |-> c.field, position |-> c.position]
  BY <1>1 DEF Refs!RefsTo
<1>2. ASSUME NEW i \in DOMAIN shots, NEW c \in Refs!ParseCandidates(row), shots[i] = c.url,
             r = [image |-> i, owner |-> o, field |-> c.field, position |-> c.position]
      PROVE  r \in Refs!RefsTo(o, row, shots)
  <2>1. PICK p : p = <<i, c>>
    OBVIOUS
  <2>2. p \in {q \in (DOMAIN shots) \X Refs!ParseCandidates(row) : shots[q[1]] = q[2].url}
    BY <1>2, <2>1
  <2> QED
    BY <1>2, <2>1, <2>2 DEF Refs!RefsTo
<1> QED
  BY <1>1, <1>2

LEMMA CandidateKeys ==
  ASSUME NEW row, NEW c \in Refs!ParseCandidates(row), c.url # Foreign
  PROVE  c.url \in Refs!ObjectKeys(row)
  BY DEF Refs!ObjectKeys

LEMMA RefsLie ==
  ASSUME NEW o, NEW row, NEW shots, NEW r \in Refs!RefsTo(o, row, shots)
  PROVE  r.image \in DOMAIN shots /\ r.owner = o
  BY RefsOf

\* A new image that the row does not show.
LEMMA RefsUnmoved ==
  ASSUME NEW o, NEW row, NEW shots, NEW new, NEW k, k # Foreign, k \notin Refs!ObjectKeys(row),
         new \notin DOMAIN shots,
         NEW more, more = [i \in (DOMAIN shots) \cup {new} |-> IF i \in DOMAIN shots THEN shots[i] ELSE k]
  PROVE  Refs!RefsTo(o, row, more) = Refs!RefsTo(o, row, shots)
<1>1. ASSUME NEW r \in Refs!RefsTo(o, row, more) PROVE r \in Refs!RefsTo(o, row, shots)
  BY <1>1, RefsOf, CandidateKeys
<1>2. ASSUME NEW r \in Refs!RefsTo(o, row, shots) PROVE r \in Refs!RefsTo(o, row, more)
  BY <1>2, RefsOf
<1> QED
  BY <1>1, <1>2

\* The SELECT finds every image the row shows.
LEMMA RefsFound ==
  ASSUME NEW o, NEW row, NEW shots, \A i \in DOMAIN shots : shots[i] # Foreign,
         NEW found, found = [i \in {j \in DOMAIN shots : shots[j] \in Refs!ObjectKeys(row)} |-> shots[i]]
  PROVE  Refs!RefsTo(o, row, found) = Refs!RefsTo(o, row, shots)
<1>1. ASSUME NEW r \in Refs!RefsTo(o, row, found) PROVE r \in Refs!RefsTo(o, row, shots)
  BY <1>1, RefsOf
<1>2. ASSUME NEW r \in Refs!RefsTo(o, row, shots) PROVE r \in Refs!RefsTo(o, row, found)
  BY <1>2, RefsOf, CandidateKeys
<1> QED
  BY <1>1, <1>2

LEMMA RefsNone ==
  ASSUME NEW o, NEW row, NEW shots, \A i \in DOMAIN shots : shots[i] # Foreign, Refs!ObjectKeys(row) = {}
  PROVE  Refs!RefsTo(o, row, shots) = {}
  BY RefsOf, CandidateKeys

LEMMA AlikePictures ==
  ASSUME NEW a, NEW b, Alike(a, b), NEW o, NEW shots
  PROVE  Pictures(o, a, shots) = Pictures(o, b, shots)
<1>1. CASE a = b
  BY <1>1
<1>2. CASE a.deleted /\ b.deleted
  BY <1>2 DEF Pictures
<1>3. CASE ~a.deleted /\ a.deleted = b.deleted /\ a.content = b.content /\ a.cover = b.cover
  <2>1. Refs!ParseCandidates(a) = Refs!ParseCandidates(b)
    BY <1>3 DEF Refs!ParseCandidates
  <2> QED
    BY <1>3, <2>1 DEF Pictures, Refs!RefsTo
<1> QED
  BY <1>1, <1>2, <1>3 DEF Alike

LEMMA AlikeRight ==
  ASSUME NEW a, NEW b, Alike(a, b), NEW o, Right(o, a)
  PROVE  Right(o, b)
<1>1. Pictures(o, a, images) = Pictures(o, b, images)
  BY AlikePictures
<1>2. ASSUME Alike(job.row, a) PROVE Alike(job.row, b)
  BY <1>2 DEF Alike
<1> QED
  BY <1>1, <1>2 DEF Right

LEMMA IgnoredAlike ==
  ASSUME NEW e, Refs!Ignored(e)
  PROVE  Alike(e.before, e.after) /\ e.before # None /\ e.after # None
  BY DEF Refs!Ignored, Refs!ShouldRebuildOnUpdate, Alike

LEMMA RefsTell == RefsInv => Refs!RefsFollowRows
<1> SUFFICES ASSUME RefsInv, Refs!Quiet, NEW o \in Refs!Live \ late
             PROVE  {r \in Refs!OwnRefs(o) : r.image \in DOMAIN images}
                      = IF rows[o].deleted THEN {} ELSE Refs!RefsTo(o, rows[o], images)
  BY DEF Refs!RefsFollowRows
<1>1. canal = "on" /\ job.at = "idle" /\ DOMAIN feed = {}
  BY DEF Refs!Quiet, Refs!NoJob
<1>2. o \in Refs!Owners /\ rows[o] # None
  BY DEF Refs!Live
<1>3. Right(o, rows[o])
  BY <1>1, <1>2 DEF RefsInv, NothingForgotten, Pending
<1> QED
  BY <1>1, <1>3 DEF Right, Coming, Within, Pictures

-----------------------------------------------------------------------------
(* The steps.                                                              *)

LEMMA NewRow ==
  ASSUME RefsInv, NEW o \in Refs!Owners, NEW row \in Refs!Row(o) \cup {None}, rows' = [rows EXCEPT ![o] = row],
         Refs!Heard([owner |-> o, before |-> rows[o], after |-> row]),
         UNCHANGED <<images, lastID, refs, canal, job, removing, late>>
  PROVE  RefsInv'
<1>1. PICK e : e = [owner |-> o, before |-> rows[o], after |-> row]
  OBVIOUS
<1>2. e \in Events /\ e.owner = o /\ e.before = rows[o] /\ e.after = row
  BY <1>1 DEF RefsInv, RefsTyped, Events, AnyRow
<1>3. /\ DOMAIN rows' = Refs!Owners /\ rows'[o] = row
      /\ \A p \in Refs!Owners \ {o} : rows'[p] = rows[p]
      /\ feed \in Seq(Events)
  BY DEF RefsInv, RefsTyped
<1>4. feed' = IF canal = "on" THEN Append(feed, e) ELSE feed
  BY <1>1 DEF Refs!Heard
<1>5. feed' \in Seq(Events)
  BY <1>2, <1>3, <1>4
<1>6. RefsTyped'
  BY <1>3, <1>5 DEF RefsInv, RefsTyped
<1>7. CASE canal = "off"
  BY <1>6, <1>7 DEF RefsInv, Refs!OwnRefs
<1>8. CASE canal = "on"
  <2>1. /\ DOMAIN feed = 1 .. Len(feed) /\ Len(feed) \in Nat /\ DOMAIN feed' = 1 .. Len(feed) + 1
        /\ feed'[Len(feed) + 1] = e /\ \A n \in DOMAIN feed : feed'[n] = feed[n]
    BY <1>2, <1>3, <1>4, <1>8
  <2>2. Refs!Ignored(e) => Alike(rows[o], row) /\ rows[o] # None
    BY <1>2, IgnoredAlike
  <2>3. ASSUME NEW n \in DOMAIN feed',
               \A m \in DOMAIN feed' : m > n /\ feed'[m].owner = feed'[n].owner => Refs!Ignored(feed'[m])
        PROVE  Alike(feed'[n].after, rows'[feed'[n].owner])
    <3>1. CASE n = Len(feed) + 1
      BY <1>2, <1>3, <2>1, <3>1 DEF Alike
    <3>2. CASE n \in DOMAIN feed
      <4>0. feed[n] \in Events
        BY <1>3, <2>1, <3>2
      <4>1. feed'[n] = feed[n] /\ feed[n].owner \in Refs!Owners
        BY <2>1, <3>2, <4>0 DEF Events
      <4>2. \A m \in DOMAIN feed : m > n /\ feed[m].owner = feed[n].owner => Refs!Ignored(feed[m])
        BY <2>1, <2>3, <4>1
      <4>3. Alike(feed[n].after, rows[feed[n].owner])
        BY <1>8, <3>2, <4>2 DEF RefsInv, LastWord
      <4>4. feed[n].owner = o => Refs!Ignored(e)
        BY <1>2, <2>1, <2>3, <3>2, <4>1
      <4>5. feed[n].owner = o => Alike(feed[n].after, row)
        BY <2>2, <4>3, <4>4 DEF Alike
      <4> QED
        BY <1>3, <4>1, <4>3, <4>5
    <3> QED
      BY <2>1, <3>1, <3>2
  <2>4. ASSUME NEW p \in Refs!Owners, rows'[p] # None, ~Pending(p, feed')
        PROVE  Right(p, rows[p]) /\ Right(p, rows'[p])
    <3>1. ~Pending(p, feed) /\ (p = o => Refs!Ignored(e))
      BY <1>2, <2>1, <2>4 DEF Pending
    <3>2. rows[p] # None
      BY <1>3, <2>2, <2>4, <3>1
    <3>3. Right(p, rows[p])
      BY <1>8, <3>1, <3>2 DEF RefsInv, NothingForgotten
    <3>4. p = o => Right(o, row)
      BY <2>2, <3>1, <3>3, AlikeRight
    <3> QED
      BY <1>3, <3>3, <3>4
  <2>5. ASSUME NEW p \in Refs!Owners, rows'[p] # None, ~Pending(p, feed')
        PROVE  Right(p, rows[p])'
    <3>1. PICK now : now = rows'[p]
      OBVIOUS
    <3>2. Right(p, now)
      BY <2>4, <2>5, <3>1
    <3>3. Right(p, now)'
      BY <3>2 DEF Right, Coming, Refs!OwnRefs
    <3> QED
      BY <3>1, <3>3 DEF Right
  <2>6. LastWord'
    BY <2>3 DEF LastWord
  <2>7. NothingForgotten'
    BY <2>5 DEF NothingForgotten
  <2> QED
    BY <1>6, <1>8, <2>6, <2>7 DEF RefsInv, Refs!OwnRefs
<1> QED
  BY <1>7, <1>8 DEF RefsInv, RefsTyped

LEMMA RowWritten ==
  ASSUME RefsInv, NEW o \in Refs!Owners, (\E row \in Refs!Row(o) : Refs!Write(o, row)) \/ Refs!Drop(o)
  PROVE  RefsInv'
<1>1. PICK row \in Refs!Row(o) \cup {None} :
         /\ rows' = [rows EXCEPT ![o] = row]
         /\ Refs!Heard([owner |-> o, before |-> rows[o], after |-> row])
         /\ UNCHANGED <<images, lastID, refs, canal, job, removing, late>>
  BY DEF Refs!Write, Refs!Drop
<1> QED
  BY <1>1, NewRow

LEMMA Relisting ==
  ASSUME RefsInv, UNCHANGED <<rows, images, lastID, refs, canal, feed, job, late>>, removing' \subseteq 1 .. lastID
  PROVE  RefsInv'
<1>1. RefsTyped'
  BY DEF RefsInv, RefsTyped
<1>2. LastWord => LastWord'
  BY DEF LastWord
<1>3. ASSUME NEW o \in Refs!Owners, NEW row, Right(o, row) PROVE Right(o, row)'
  BY <1>3 DEF Right, Coming, Refs!OwnRefs
<1>4. NothingForgotten => NothingForgotten'
  BY <1>3 DEF NothingForgotten, Right, Coming, Refs!OwnRefs
<1> QED
  BY <1>1, <1>2, <1>4 DEF RefsInv, Refs!OwnRefs

LEMMA FeedStopped == ASSUME RefsInv, Refs!Stop PROVE RefsInv'
<1>1. /\ canal' = "off" /\ feed' = <<>> /\ job' = Refs!NoJob /\ job'.at = "idle"
      /\ UNCHANGED <<rows, images, lastID, refs, removing, late>>
  BY DEF Refs!Stop, Refs!NoJob
<1>2. feed' \in Seq(Events)
  BY <1>1
<1> QED
  BY <1>1, <1>2 DEF RefsInv, RefsTyped, JobTyped

\* The dump has every row there is.
LEMMA AllListed ==
  ASSUME NEW order \in Refs!SetToSeqs(Refs!Live)
  PROVE  /\ order \in Seq(Refs!Live) /\ DOMAIN order = 1 .. Len(order) /\ Len(order) \in Nat
         /\ \A o \in Refs!Live : \E n \in DOMAIN order : order[n] = o
<1>1. IsFiniteSet(Refs!Live)
  BY RefsAssumption, FS_Subset DEF Refs!Live
<1>2. PICK len : len = Cardinality(Refs!Live)
  OBVIOUS
<1>3. len \in Nat
  BY <1>1, <1>2, FS_CardinalityType
<1>4. Refs!Cardinality(Refs!Live) = Cardinality(Refs!Live)
  BY Zenon DEF Cardinality, Refs!Cardinality
<1>5. order \in [1 .. len -> Refs!Live] /\ \A i, j \in 1 .. len : i # j => order[i] # order[j]
  BY <1>2, <1>4 DEF Refs!SetToSeqs
<1>6. order \in Injection(1 .. len, Refs!Live)
  BY <1>5 DEF Injection, IsInjective
<1>7. Cardinality(1 .. len) = len
  BY <1>3, FS_Interval
<1>8. order \in Surjection(1 .. len, Refs!Live)
  BY <1>1, <1>2, <1>6, <1>7, FS_Injection
<1>9. \A o \in Refs!Live : \E n \in 1 .. len : order[n] = o
  BY <1>8 DEF Surjection
<1> QED
  BY <1>3, <1>5, <1>9

LEMMA FeedStarted == ASSUME RefsInv, Refs!Start PROVE RefsInv'
<1>1. /\ canal = "off" /\ canal' = "on" /\ removing' = {} /\ UNCHANGED <<rows, images, lastID, refs, job, late>>
      /\ job = Refs!NoJob /\ job.at = "idle"
  BY DEF Refs!Start, RefsInv, Refs!NoJob
<1>2. PICK order \in Refs!SetToSeqs(Refs!Live) :
         feed' = [n \in DOMAIN order |-> [owner |-> order[n], before |-> None, after |-> rows[order[n]]]]
  BY DEF Refs!Start
<1>3. /\ order \in Seq(Refs!Live) /\ DOMAIN order = 1 .. Len(order) /\ Len(order) \in Nat
      /\ \A o \in Refs!Live : \E n \in DOMAIN order : order[n] = o
  BY AllListed
<1>4. ASSUME NEW n \in DOMAIN order
      PROVE  /\ order[n] \in Refs!Owners
             /\ feed'[n] = [owner |-> order[n], before |-> None, after |-> rows[order[n]]]
             /\ feed'[n] \in Events
  BY <1>2, <1>3 DEF Refs!Live, RefsInv, RefsTyped, Events, AnyRow
<1>5. feed' \in Seq(Events) /\ DOMAIN feed' = DOMAIN order
  BY <1>2, <1>3, <1>4
<1>6. RefsTyped'
  BY <1>1, <1>5 DEF RefsInv, RefsTyped
<1>7. LastWord'
  BY <1>1, <1>4, <1>5 DEF LastWord, Alike
<1>8. ASSUME NEW o \in Refs!Owners, rows'[o] # None PROVE Pending(o, feed')
  <2>1. PICK n \in DOMAIN order : order[n] = o
    BY <1>1, <1>3, <1>8 DEF Refs!Live
  <2>0. PICK e : e = feed'[n]
    OBVIOUS
  <2>4. e = [owner |-> order[n], before |-> None, after |-> rows[order[n]]]
    BY <1>4, <2>0
  <2>2. feed'[n].owner = o /\ feed'[n].before = None
    BY <2>0, <2>1, <2>4
  <2>3. ~Refs!Ignored(feed'[n])
    BY <2>2, IgnoredAlike
  <2> QED
    BY <1>5, <2>2, <2>3 DEF Pending
<1>9. NothingForgotten'
  BY <1>8 DEF NothingForgotten
<1> QED
  BY <1>1, <1>6, <1>7, <1>9 DEF RefsInv


LEMMA HeadTaken ==
  ASSUME feed \in Seq(Events), feed # <<>>
  PROVE  /\ Head(feed) = feed[1] /\ feed[1] \in Events /\ 1 \in DOMAIN feed
         /\ Tail(feed) \in Seq(Events) /\ DOMAIN feed = 1 .. Len(feed) /\ Len(feed) \in Nat
         /\ \A n \in DOMAIN Tail(feed) : Tail(feed)[n] = feed[n + 1] /\ n + 1 \in DOMAIN feed /\ n \in Nat
         /\ \A m \in DOMAIN feed : m > 1 => m - 1 \in DOMAIN Tail(feed) /\ Tail(feed)[m - 1] = feed[m]
  OBVIOUS

LEMMA LastWordKept ==
  ASSUME RefsInv, canal = "on", feed # <<>>, feed' = Tail(feed), rows' = rows
  PROVE  LastWord'
<1>1. feed \in Seq(Events)
  BY DEF RefsInv, RefsTyped
<1> SUFFICES ASSUME NEW n \in DOMAIN feed',
                    \A m \in DOMAIN feed' : m > n /\ feed'[m].owner = feed'[n].owner => Refs!Ignored(feed'[m])
             PROVE  Alike(feed'[n].after, rows[feed'[n].owner])
  BY DEF LastWord
<1>2. feed'[n] = feed[n + 1] /\ n + 1 \in DOMAIN feed /\ n \in Nat
  BY <1>1, HeadTaken
<1>3. ASSUME NEW m \in DOMAIN feed, m > n + 1, feed[m].owner = feed[n + 1].owner
      PROVE  Refs!Ignored(feed[m])
  <2>1. m \in Nat /\ m > 1
    BY <1>1, <1>2, <1>3, HeadTaken
  <2>2. m - 1 \in DOMAIN feed' /\ feed'[m - 1] = feed[m] /\ m - 1 > n
    BY <1>1, <1>2, <1>3, <2>1, HeadTaken
  <2> QED
    BY <1>2, <1>3, <2>2
<1> QED
  BY <1>2, <1>3 DEF RefsInv, LastWord

LEMMA PendingTail ==
  ASSUME feed \in Seq(Events), feed # <<>>, NEW o, ~Pending(o, Tail(feed)),
         feed[1].owner # o \/ Refs!Ignored(feed[1])
  PROVE  ~Pending(o, feed)
<1> SUFFICES ASSUME NEW m \in DOMAIN feed, feed[m].owner = o, ~Refs!Ignored(feed[m])
             PROVE  FALSE
  BY DEF Pending
<1>1. m # 1 /\ m \in Nat /\ m > 1
  BY HeadTaken
<1>2. m - 1 \in DOMAIN Tail(feed) /\ Tail(feed)[m - 1] = feed[m]
  BY <1>1, HeadTaken
<1> QED
  BY <1>2 DEF Pending

LEMMA LastRebuild ==
  ASSUME RefsInv, canal = "on", feed # <<>>, NEW o, feed[1].owner = o, ~Pending(o, Tail(feed))
  PROVE  Alike(feed[1].after, rows[o])
<1>1. feed \in Seq(Events)
  BY DEF RefsInv, RefsTyped
<1>2. ASSUME NEW m \in DOMAIN feed, m > 1, feed[m].owner = o PROVE Refs!Ignored(feed[m])
  <2>1. m - 1 \in DOMAIN Tail(feed) /\ Tail(feed)[m - 1] = feed[m]
    BY <1>1, <1>2, HeadTaken
  <2> QED
    BY <1>2, <2>1 DEF Pending
<1>3. 1 \in DOMAIN feed
  BY <1>1, HeadTaken
<1> QED
  BY <1>2, <1>3 DEF RefsInv, LastWord

LEMMA ImagesOurs == RefsInv => \A i \in DOMAIN images : images[i] # Foreign
  BY RefsAssumption DEF RefsInv, RefsTyped

LEMMA EventHandled == ASSUME RefsInv, Refs!OnRow PROVE RefsInv'
<1>1. PICK e, o : e = Head(feed) /\ o = e.owner
  OBVIOUS
<1>2. /\ canal = "on" /\ job = Refs!NoJob /\ job.at = "idle" /\ feed # <<>> /\ feed' = Tail(feed)
      /\ UNCHANGED <<rows, images, lastID, canal, removing, late>>
      /\ \/ Refs!Ignored(e) /\ UNCHANGED <<refs, job>>
         \/ /\ ~Refs!Ignored(e) /\ refs' = refs \ Refs!OwnRefs(o)
            /\ job' = IF Refs!Emptied(e) THEN Refs!NoJob ELSE [at |-> "select", owner |-> o, row |-> e.after]
  BY <1>1, Zenon DEF Refs!OnRow, Refs!NoJob
<1>3. feed \in Seq(Events)
  BY DEF RefsInv, RefsTyped
<1>4. e = feed[1] /\ e \in Events /\ feed' \in Seq(Events)
  BY <1>1, <1>2, <1>3, HeadTaken
<1>5. o \in Refs!Owners /\ e.after \in AnyRow \cup {None} /\ e.before \in AnyRow \cup {None}
  BY <1>1, <1>4 DEF Events
<1>6. LastWord'
  BY <1>2, LastWordKept
<1>7. ASSUME NEW p \in Refs!Owners, rows[p] # None, ~Pending(p, feed'), p # o \/ Refs!Ignored(e)
      PROVE  Right(p, rows[p])
  <2>1. ~Pending(p, feed)
    BY <1>1, <1>2, <1>3, <1>4, <1>7, PendingTail
  <2> QED
    BY <1>2, <1>7, <2>1 DEF RefsInv, NothingForgotten
<1>8. CASE Refs!Ignored(e) /\ UNCHANGED <<refs, job>>
  <2>1. RefsTyped'
    BY <1>2, <1>4, <1>8 DEF RefsInv, RefsTyped
  <2>2. ASSUME NEW p \in Refs!Owners, rows'[p] # None, ~Pending(p, feed')
        PROVE  Right(p, rows[p])'
    <3>1. Right(p, rows[p])
      BY <1>2, <1>7, <1>8, <2>2
    <3> QED
      BY <1>2, <1>8, <3>1 DEF Right, Coming, Refs!OwnRefs
  <2>3. NothingForgotten'
    BY <2>2 DEF NothingForgotten
  <2> QED
    BY <1>2, <1>6, <1>8, <2>1, <2>3 DEF RefsInv, Refs!OwnRefs
<1>9. CASE /\ ~Refs!Ignored(e) /\ refs' = refs \ Refs!OwnRefs(o)
           /\ job' = IF Refs!Emptied(e) THEN Refs!NoJob ELSE [at |-> "select", owner |-> o, row |-> e.after]
  <2>1. /\ Refs!OwnRefs(o)' = {} /\ \A p : p # o => Refs!OwnRefs(p)' = Refs!OwnRefs(p)
    BY <1>9 DEF Refs!OwnRefs
  <2>2. ~Refs!Emptied(e) => e.after \in AnyRow /\ ~e.after.deleted
    BY <1>5 DEF Refs!Emptied
  <2>3. \/ Refs!Emptied(e) /\ job' = Refs!NoJob /\ job'.at = "idle"
        \/ ~Refs!Emptied(e) /\ job'.at = "select" /\ job'.owner = o /\ job'.row = e.after
    BY <1>9 DEF Refs!NoJob
  <2>4. JobTyped(job, lastID)'
    BY <1>2, <1>5, <2>2, <2>3 DEF JobTyped
  <2>5. RefsTyped'
    BY <1>2, <1>4, <1>9, <2>4 DEF RefsInv, RefsTyped
  <2>6. ASSUME NEW p \in Refs!Owners, rows[p] # None, ~Pending(p, feed')
        PROVE  Right(p, rows[p])'
    <3>1. CASE p # o
      <4>1. Right(p, rows[p])
        BY <1>7, <2>6, <3>1
      <4> QED
        BY <1>2, <2>1, <2>3, <3>1, <4>1 DEF Right, Coming
    <3>2. CASE p = o
      <4>1. Alike(e.after, rows[o])
        BY <1>1, <1>2, <1>4, <2>6, <3>2, LastRebuild
      <4>2. e.after # None
        BY <2>6, <3>2, <4>1 DEF Alike
      <4>3. Refs!Emptied(e) => Pictures(o, e.after, images) = {}
        BY <4>2, ImagesOurs, RefsNone DEF Refs!Emptied, Pictures
      <4>4. Pictures(o, e.after, images) = Pictures(o, rows[o], images)
        BY <4>1, AlikePictures
      <4>5. CASE Refs!Emptied(e)
        <5>1. Coming(o)' = {}
          BY <2>1, <2>3, <4>5 DEF Coming
        <5>2. Within(Coming(o), images)' = {} /\ Pictures(o, rows[o], images)' = {}
          BY <1>2, <4>3, <4>4, <4>5, <5>1 DEF Within, Pictures, Refs!RefsTo
        <5> QED
          BY <2>3, <3>2, <4>5, <5>2 DEF Right
      <4>6. CASE ~Refs!Emptied(e)
        BY <1>2, <2>3, <3>2, <4>1, <4>6 DEF Right, Alike
      <4> QED
        BY <4>5, <4>6
    <3> QED
      BY <3>1, <3>2
  <2>7. NothingForgotten'
    BY <1>2, <2>6 DEF NothingForgotten
  <2>8. job'.at # "idle" => Refs!OwnRefs(job.owner)' = {}
    BY <2>1, <2>3 DEF Refs!OwnRefs
  <2> QED
    BY <1>2, <1>6, <2>5, <2>7, <2>8 DEF RefsInv
<1> QED
  BY <1>2, <1>8, <1>9

LEMMA ImagesSelected == ASSUME RefsInv, Refs!ReplaceSelect PROVE RefsInv'
<1>1. PICK o, row : o = job.owner /\ row = job.row
  OBVIOUS
<1>2. PICK found : found = [i \in {j \in DOMAIN images : images[j] \in Refs!ObjectKeys(row)} |-> images[i]]
  OBVIOUS
<1>3. /\ job.at = "select" /\ late' = late \ {o}
      /\ UNCHANGED <<rows, images, lastID, refs, canal, feed, removing>>
      /\ job' = IF found = <<>> THEN Refs!NoJob ELSE [at |-> "create", owner |-> o, row |-> row, found |-> found]
  BY <1>1, <1>2 DEF Refs!ReplaceSelect
<1>4. o \in Refs!Owners /\ row \in AnyRow /\ ~row.deleted /\ Refs!OwnRefs(o) = {} /\ canal = "on"
  BY <1>1, <1>3 DEF RefsInv, RefsTyped, JobTyped, Refs!NoJob
<1>5. \/ DOMAIN found = {} /\ job' = Refs!NoJob /\ job'.at = "idle"
      \/ job'.at = "create" /\ job'.owner = o /\ job'.row = row /\ job'.found = found
  BY <1>3 DEF Refs!NoJob
<1>6. DOMAIN found \subseteq 1 .. lastID
  BY <1>2 DEF RefsInv, RefsTyped
<1>7. RefsTyped'
  <2>1. JobTyped(job, lastID)'
    BY <1>3, <1>4, <1>5, <1>6 DEF JobTyped
  <2> QED
    BY <1>3, <2>1 DEF RefsInv, RefsTyped
<1>8. Refs!RefsTo(o, row, found) = Refs!RefsTo(o, row, images)
  BY <1>2, ImagesOurs, RefsFound
<1>9. Coming(o)' = Refs!RefsTo(o, row, found)
  <2>1. DOMAIN found = {} => Refs!RefsTo(o, row, found) = {}
    BY RefsLie
  <2> QED
    BY <1>3, <1>4, <1>5, <2>1 DEF Coming, Refs!OwnRefs, Refs!RefsTo
<1>10. Within(Refs!RefsTo(o, row, images), images) = Refs!RefsTo(o, row, images)
  BY RefsLie DEF Within
<1>11. ASSUME NEW p \in Refs!Owners, rows[p] # None, ~Pending(p, feed)
       PROVE  Right(p, rows[p])'
  <2>1. Right(p, rows[p])
    BY <1>4, <1>11 DEF RefsInv, NothingForgotten
  <2>2. CASE p # o
    BY <1>1, <1>3, <1>5, <2>1, <2>2 DEF Right, Coming, Refs!OwnRefs
  <2>3. CASE p = o
    <3>1. Alike(row, rows[o])
      BY <1>1, <1>3, <2>1, <2>3 DEF Right
    <3>2. Pictures(o, rows[o], images) = Refs!RefsTo(o, row, images)
      BY <1>4, <3>1, AlikePictures DEF Pictures
    <3>3. Within(Coming(o), images)' = Pictures(o, rows[o], images)'
      BY <1>3, <1>8, <1>9, <1>10, <3>2 DEF Within, Pictures, Refs!RefsTo
    <3> QED
      BY <1>5, <2>3, <3>3 DEF Right
  <2> QED
    BY <2>2, <2>3
<1>12. LastWord' /\ NothingForgotten'
  BY <1>3, <1>4, <1>11 DEF RefsInv, LastWord, NothingForgotten
<1> QED
  BY <1>3, <1>4, <1>5, <1>7, <1>12 DEF RefsInv, Refs!OwnRefs

LEMMA RefsCreated == ASSUME RefsInv, Refs!ReplaceCreate PROVE RefsInv'
<1>1. PICK o, new : o = job.owner /\ new = Refs!RefsTo(o, job.row, job.found)
  OBVIOUS
<1>2. /\ job.at = "create" /\ refs' = refs \cup new /\ job' = Refs!NoJob /\ job'.at = "idle"
      /\ UNCHANGED <<rows, images, lastID, canal, feed, removing, late>>
  BY <1>1 DEF Refs!ReplaceCreate, Refs!NoJob
<1>3. o \in Refs!Owners /\ Refs!OwnRefs(o) = {} /\ canal = "on" /\ DOMAIN job.found \subseteq 1 .. lastID
  BY <1>1, <1>2 DEF RefsInv, RefsTyped, JobTyped, Refs!NoJob
<1>4. \A r \in new : r.owner = o /\ r.image \in 1 .. lastID
  BY <1>1, <1>3, RefsLie
<1>5. Refs!OwnRefs(o)' = new /\ \A p : p # o => Refs!OwnRefs(p)' = Refs!OwnRefs(p)
  BY <1>2, <1>3, <1>4 DEF Refs!OwnRefs
<1>6. RefsTyped'
  BY <1>2, <1>3, <1>4 DEF RefsInv, RefsTyped, JobTyped
<1>7. \A p : Coming(p)' = Coming(p)
  BY <1>1, <1>2, <1>5 DEF Coming
<1>8. ASSUME NEW p \in Refs!Owners, rows[p] # None, ~Pending(p, feed)
      PROVE  Right(p, rows[p])'
  <2>1. Right(p, rows[p])
    BY <1>3, <1>8 DEF RefsInv, NothingForgotten
  <2> QED
    BY <1>2, <1>7, <2>1 DEF Right, Within, Pictures, Refs!RefsTo
<1>9. LastWord' /\ NothingForgotten'
  BY <1>2, <1>3, <1>8 DEF RefsInv, LastWord, NothingForgotten
<1> QED
  BY <1>2, <1>3, <1>6, <1>9 DEF RefsInv


LEMMA ImageConfirmed == ASSUME RefsInv, NEW k \in RefKeys, Refs!Confirm(k) PROVE RefsInv'
<1>1. PICK new : new = lastID + 1
  OBVIOUS
<1>2. /\ lastID < MaxImages /\ lastID' = new
      /\ images' = [i \in (DOMAIN images) \cup {new} |-> IF i \in DOMAIN images THEN images[i] ELSE k]
      /\ late' = late \cup {o \in Refs!Live : k \in Refs!ObjectKeys(rows[o])}
      /\ UNCHANGED <<rows, refs, canal, feed, job, removing>>
  BY <1>1 DEF Refs!Confirm
<1>3. lastID \in Nat /\ new \in 1 .. MaxImages /\ new \notin 1 .. lastID /\ 1 .. lastID \subseteq 1 .. new
  BY <1>1, <1>2, RefsAssumption DEF RefsInv, RefsTyped
<1>4. /\ DOMAIN images \subseteq 1 .. lastID /\ DOMAIN images' = (DOMAIN images) \cup {new}
      /\ \A i \in DOMAIN images' : images'[i] \in RefKeys
  BY <1>2 DEF RefsInv, RefsTyped
<1>5. late' \subseteq Refs!Owners
  BY <1>2 DEF RefsInv, RefsTyped, Refs!Live
<1>6. JobTyped(job, lastID)'
  BY <1>2, <1>3 DEF RefsInv, RefsTyped, JobTyped
<1>7. RefsTyped'
  BY <1>2, <1>3, <1>4, <1>5, <1>6 DEF RefsInv, RefsTyped
<1>8. ASSUME NEW o \in Refs!Owners, rows[o] # None, ~Pending(o, feed), canal = "on"
      PROVE  Right(o, rows[o])'
  <2>1. Right(o, rows[o])
    BY <1>8 DEF RefsInv, NothingForgotten
  <2>2. CASE job.at = "select" /\ job.owner = o
    BY <1>2, <2>1, <2>2 DEF Right
  <2>3. CASE ~(job.at = "select" /\ job.owner = o) /\ o \notin late'
    <3>1. o \notin late /\ k \notin Refs!ObjectKeys(rows[o])
      BY <1>2, <1>8, <2>3 DEF Refs!Live
    <3>2. Within(Coming(o), images) = Pictures(o, rows[o], images)
      BY <2>1, <2>3, <3>1 DEF Right
    <3>3. PICK row, more : row = rows[o] /\ more = images'
      OBVIOUS
    <3>8. k # Foreign /\ new \notin DOMAIN images
      BY <1>3, <1>4, RefsAssumption
    <3>9. more = [i \in (DOMAIN images) \cup {new} |-> IF i \in DOMAIN images THEN images[i] ELSE k]
      BY <1>2, <3>3
    <3>10. Refs!RefsTo(o, row, more) = Refs!RefsTo(o, row, images)
      BY <3>1, <3>3, <3>8, <3>9, RefsUnmoved
    <3>11. Pictures(o, row, more) = Pictures(o, row, images)
      BY <3>10 DEF Pictures
    <3>12. Pictures(o, rows[o], images)' = Pictures(o, row, more)
      BY <1>2, <3>3 DEF Pictures, Refs!RefsTo
    <3>4. Pictures(o, rows[o], images)' = Pictures(o, rows[o], images)
      BY <3>3, <3>11, <3>12
    <3>5. Coming(o)' = Coming(o)
      BY <1>2 DEF Coming, Refs!OwnRefs
    <3>6. \A r \in Coming(o) : r.image \in 1 .. lastID
      BY RefsLie DEF RefsInv, RefsTyped, JobTyped, Coming, Refs!OwnRefs
    <3>7. Within(Coming(o), images)' = Within(Coming(o), images)
      BY <1>3, <1>4, <3>5, <3>6 DEF Within
    <3> QED
      BY <1>2, <2>3, <3>2, <3>4, <3>7 DEF Right
  <2>4. CASE ~(job.at = "select" /\ job.owner = o) /\ o \in late'
    BY <1>2, <2>4 DEF Right
  <2> QED
    BY <2>2, <2>3, <2>4
<1>9. canal = "on" => LastWord' /\ NothingForgotten'
  BY <1>2, <1>8 DEF RefsInv, LastWord, NothingForgotten
<1> QED
  BY <1>2, <1>7, <1>9 DEF RefsInv, Refs!OwnRefs

LEMMA ImagesGone == ASSUME RefsInv, Refs!RemoveImages PROVE RefsInv'
<1>1. PICK gone : gone = removing
  OBVIOUS
<1>2. /\ removing' = {} /\ refs' = {r \in refs : r.image \notin gone}
      /\ images' = [i \in (DOMAIN images) \ gone |-> images[i]]
      /\ UNCHANGED <<rows, lastID, canal, feed, job, late>>
  BY <1>1 DEF Refs!RemoveImages
<1>3. /\ DOMAIN images' = (DOMAIN images) \ gone /\ \A i \in DOMAIN images' : images'[i] = images[i]
  BY <1>2
<1>4. RefsTyped'
  BY <1>2, <1>3 DEF RefsInv, RefsTyped, JobTyped
<1>5. \A o : Refs!OwnRefs(o)' = {r \in Refs!OwnRefs(o) : r.image \notin gone}
  BY <1>2 DEF Refs!OwnRefs
<1>6. ASSUME NEW o \in Refs!Owners, rows[o] # None, ~Pending(o, feed), canal = "on"
      PROVE  Right(o, rows[o])'
  <2>1. Right(o, rows[o])
    BY <1>6 DEF RefsInv, NothingForgotten
  <2>2. CASE job.at = "select" /\ job.owner = o
    BY <1>2, <2>1, <2>2 DEF Right
  <2>3. CASE ~(job.at = "select" /\ job.owner = o) /\ o \notin late
    <3>1. Within(Coming(o), images) = Pictures(o, rows[o], images)
      BY <2>1, <2>3 DEF Right
    <3>2. PICK row, left : row = rows[o] /\ left = images'
      OBVIOUS
    <3>5. DOMAIN left = (DOMAIN images) \ gone /\ \A i \in DOMAIN left : left[i] = images[i]
      BY <1>2, <3>2
    <3>6. ASSUME NEW r PROVE r \in Refs!RefsTo(o, row, left) <=> r \in Refs!RefsTo(o, row, images) /\ r.image \notin gone
      <4>1. ASSUME r \in Refs!RefsTo(o, row, left) PROVE r \in Refs!RefsTo(o, row, images) /\ r.image \notin gone
        BY <3>5, <4>1, RefsOf
      <4>2. ASSUME r \in Refs!RefsTo(o, row, images), r.image \notin gone PROVE r \in Refs!RefsTo(o, row, left)
        BY <3>5, <4>2, RefsOf
      <4> QED
        BY <4>1, <4>2
    <3>7. Pictures(o, row, left) = {r \in Pictures(o, row, images) : r.image \notin gone}
      BY <3>6 DEF Pictures
    <3>8. Pictures(o, rows[o], images)' = Pictures(o, row, left)
      BY <1>2, <3>2 DEF Pictures, Refs!RefsTo
    <3>3. Pictures(o, rows[o], images)' = {r \in Pictures(o, rows[o], images) : r.image \notin gone}
      BY <3>2, <3>7, <3>8
    <3>4. Within(Coming(o), images)' = {r \in Within(Coming(o), images) : r.image \notin gone}
      BY <1>2, <1>3, <1>5 DEF Coming, Within
    <3> QED
      BY <1>2, <2>3, <3>1, <3>3, <3>4 DEF Right
  <2>4. CASE ~(job.at = "select" /\ job.owner = o) /\ o \in late
    BY <1>2, <2>4 DEF Right
  <2> QED
    BY <2>2, <2>3, <2>4
<1>7. canal = "on" => LastWord' /\ NothingForgotten'
  BY <1>2, <1>6 DEF RefsInv, LastWord, NothingForgotten
<1>8. job'.at # "idle" => Refs!OwnRefs(job.owner)' = {}
  BY <1>2, <1>5 DEF RefsInv, Refs!OwnRefs
<1> QED
  BY <1>2, <1>4, <1>7, <1>8 DEF RefsInv

LEMMA RefsKept == ASSUME RefsInv, Refs!Next PROVE RefsInv'
<1>1. CASE \E o \in Refs!Owners : (\E row \in Refs!Row(o) : Refs!Write(o, row)) \/ Refs!Drop(o)
  BY <1>1, RowWritten
<1>2. CASE \E k \in RefKeys : Refs!Confirm(k)
  BY <1>2, ImageConfirmed
<1>3. CASE (\E list \in SUBSET DOMAIN images : Refs!RemoveFind(list)) \/ Refs!RemoveFails
  <2>1. /\ UNCHANGED <<rows, images, lastID, refs, canal, feed, job, late>>
        /\ removing' \subseteq DOMAIN images
    BY <1>3 DEF Refs!RemoveFind, Refs!RemoveFails
  <2> QED
    BY <2>1, Relisting DEF RefsInv, RefsTyped
<1> QED
  BY <1>1, <1>2, <1>3, ImagesGone, FeedStarted, FeedStopped, EventHandled, ImagesSelected, RefsCreated
     DEF Refs!Next

LEMMA RefsStill == RefsInv /\ UNCHANGED refVars => RefsInv'
<1> SUFFICES ASSUME RefsInv, UNCHANGED refVars PROVE RefsInv'
  OBVIOUS
<1>1. UNCHANGED <<rows, images, lastID, refs, canal, feed, job, late>> /\ removing' = removing
  BY DEF refVars
<1> QED
  BY <1>1, Relisting DEF RefsInv, RefsTyped

LEMMA RefsBegin == Refs!Init => RefsInv
<1> SUFFICES ASSUME Refs!Init PROVE RefsInv
  OBVIOUS
<1>1. /\ rows = [o \in Refs!Owners |-> None] /\ DOMAIN images = {} /\ lastID = 0 /\ refs = {}
      /\ canal = "off" /\ feed \in Seq(Events) /\ job = Refs!NoJob /\ job.at = "idle" /\ removing = {} /\ late = {}
  BY DEF Refs!Init, Refs!NoJob
<1> QED
  BY <1>1, RefsAssumption DEF RefsInv, RefsTyped, JobTyped

LEMMA RefsHold == ImagesSpec => []RefsInv
<1>1. ImagesInit => RefsInv
  BY RefsBegin DEF ImagesInit
<1>2. RefsInv /\ [ImagesNext]_<<part, vars, refVars>> => RefsInv'
  BY RefsKept, RefsStill DEF ImagesNext
<1> QED
  BY <1>1, <1>2, PTL DEF ImagesSpec

(* OnRow, replaceOwnerRefs, ImageRemoveView: once the events are worked off, *)
(* the references of every row are those of its latest version to the       *)
(* images there are, for any tables, texts, images and writes, whatever      *)
(* removals, crashes, failed statements and dumps came between.  Rows that   *)
(* mentioned an image before it was confirmed are left out, as in the run.   *)
THEOREM ReferencesAreThoseOfTheRows == ImagesSpec => []RefsFollowRows
<1>1. RefsInv => RefsFollowRows
  BY RefsTell DEF RefsFollowRows
<1> QED
  BY <1>1, RefsHold, PTL

LEMMA UploadsGoOn == ImagesSpec => Spec
<1>1. ImagesInit => Init
  BY DEF ImagesInit
<1>2. [ImagesNext]_<<part, vars, refVars>> => [Next]_vars
  BY DEF ImagesNext
<1> QED
  BY <1>1, <1>2, PTL DEF ImagesSpec, Spec

(* Tasks, locks, rows of images and their references keep their types,       *)
(* whichever of the two parts moves.                                         *)
THEOREM ImagesTyped == ImagesSpec => []TypesOK
<1>1. RefsInv => Refs!TypeOK
  BY DEF RefsInv, RefsTyped, JobTyped, Refs!TypeOK
<1>2. RefsInv /\ TypeOK => TypesOK
  BY <1>1 DEF TypesOK
<1> QED
  BY <1>2, RefsHold, UploadsGoOn, TypeCorrect, PTL
=============================================================================
