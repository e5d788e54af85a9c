----------------------------- MODULE ImageUpload -----------------------------
(***************************************************************************)
(* Direct image upload (service/image_service).  A client declares a file  *)
(* and gets an upload task (a Redis record, found by its id and by the     *)
(* object key), uploads to the object store, and the task is confirmed by  *)
(* the store's callback or by the client: under a Redis lock the object is *)
(* verified, the image row is found by its content hash or inserted, and   *)
(* the task becomes ready.  The store's audit verdict arrives on its own   *)
(* callback; when the row is not there yet the verdict is parked in Redis. *)
(*                                                                         *)
(* Rows of different contents do not interact, so all tasks of a model are *)
(* uploads of one content: they share the hash, and the object key too     *)
(* when they are created on the same day.                                  *)
(***************************************************************************)
EXTENDS Integers, FiniteSets

CONSTANTS
  Tasks,
  Keys,        \* object keys: prefix, day, hash
  Confirms,    \* confirmation requests, each made once
  Audits,      \* audit callbacks, each made once
  Removers,    \* image removal requests, each made once
  Verdicts,
  Pass,        \* the status a new row gets
  None,        \* no row, task, key, lock holder or verdict
  LockExpiry   \* the tasks whose lock may outlive its 30 seconds

ASSUME ImageAssumption ==
  /\ Pass \in Verdicts
  /\ None \notin Tasks \cup Keys \cup Confirms \cup Verdicts
  /\ None \notin [id : Confirms, key : Keys, status : Verdicts]    \* the rows
  /\ LockExpiry \subseteq Tasks

VARIABLES
  task,     \* the status of each task record
  keyOf,    \* the object key of each task
  index,    \* object key -> task id
  lock,     \* who holds each task's lock
  objects,  \* the objects in the store
  image,    \* the row of image_models, with the confirm that inserted it as id
  parked,   \* object key -> verdict kept for a row that is not there yet
  conf,     \* confirmation requests
  audit,    \* audit callbacks
  remove,   \* removal requests
  verdict,  \* history: the verdict of the last audit callback for a key
  dropped,  \* history: keys whose last verdict a failure or its TTL lost
  unread    \* history: keys whose last verdict a failed GETDEL left parked

taskVars == <<task, keyOf, index, lock>>
lostVars == <<dropped, unread>>
vars == <<taskVars, objects, image, parked, conf, audit, remove, verdict, lostVars>>

Images == [id : Confirms, key : Keys, status : Verdicts]

\* found is the row a confirmation works with, verdict what it consumed.
ConfirmStates ==
       [pc : {"idle", "done", "refused"}]
  \cup [pc : {"read", "verify", "fail", "find", "insert"}, task : Tasks, locked : BOOLEAN]
  \cup [pc : {"save", "consume", "delete"}, task : Tasks, found : Images]
  \cup [pc : {"update"}, task : Tasks, found : Images, verdict : Verdicts]

AuditStates ==
       [pc : {"idle", "done"}]
  \cup [pc : {"park"}, key : Keys, verdict : Verdicts]
  \cup [pc : {"update"}, key : Keys, verdict : Verdicts, id : Confirms]

RemoveStates ==
       [pc : {"idle", "done"}]
  \cup [pc : {"object", "row"}, found : Images]

TypeOK ==
  /\ task \in [Tasks -> {"none", "issued", "pending", "ready", "failed", "skipped"}]
  /\ keyOf \in [Tasks -> Keys \cup {None}]
  /\ index \in [Keys -> Tasks \cup {None}]
  /\ lock \in [Tasks -> Confirms \cup {None}]
  /\ objects \subseteq Keys
  /\ image \in Images \cup {None}
  /\ parked \in [Keys -> Verdicts \cup {None}]
  /\ conf \in [Confirms -> ConfirmStates]
  /\ audit \in [Audits -> AuditStates]
  /\ remove \in [Removers -> RemoveStates]
  /\ verdict \in [Keys -> Verdicts \cup {None}]
  /\ dropped \subseteq Keys /\ unread \subseteq Keys

Init ==
  /\ task = [t \in Tasks |-> "none"]
  /\ keyOf = [t \in Tasks |-> None]
  /\ index = [k \in Keys |-> None]
  /\ lock = [t \in Tasks |-> None]
  /\ objects = {}
  /\ image = None
  /\ parked = [k \in Keys |-> None]
  /\ conf = [c \in Confirms |-> [pc |-> "idle"]]
  /\ audit = [a \in Audits |-> [pc |-> "idle"]]
  /\ remove = [d \in Removers |-> [pc |-> "idle"]]
  /\ verdict = [k \in Keys |-> None]
  /\ dropped = {} /\ unread = {}

-----------------------------------------------------------------------------
(* CreateUploadTask looks for the content, then stores the task; the client *)
(* uploads with an insert-only token.                                      *)

\* saveUploadTask: the record and the key's index in one transaction.
SaveUploadTask(t, status) ==
  /\ task' = [task EXCEPT ![t] = status]
  /\ index' = [index EXCEPT ![keyOf[t]] = t]
  /\ UNCHANGED keyOf

CreateUploadTask(t, k) ==
  /\ task[t] = "none"
  /\ task' = [task EXCEPT ![t] = IF image = None THEN "issued" ELSE "skipped"]
  /\ keyOf' = [keyOf EXCEPT ![t] = k]
  /\ UNCHANGED <<index, lock, objects, image, parked, conf, audit, remove, verdict, lostVars>>

StoreUploadTask(t) ==
  /\ task[t] = "issued"
  /\ SaveUploadTask(t, "pending")
  /\ UNCHANGED <<lock, objects, image, parked, conf, audit, remove, verdict, lostVars>>

Upload(t) ==
  /\ task[t] \notin {"none", "issued", "skipped"}
  /\ keyOf[t] \notin objects
  /\ objects' = objects \cup {keyOf[t]}
  /\ UNCHANGED <<taskVars, image, parked, conf, audit, remove, verdict, lostVars>>

-----------------------------------------------------------------------------
(* confirmUploadTask.                                                      *)

Continue(c, next) == conf' = [conf EXCEPT ![c] = next]

\* Return: the deferred unlock deletes the lock if it is still ours, or fails.
Leave(c, outcome) ==
  /\ Continue(c, [pc |-> outcome])
  /\ \/ lock' = [t \in Tasks |-> IF lock[t] = c THEN None ELSE lock[t]]
     \/ UNCHANGED lock

\* A defect the runs must catch: SET without NX.
LockWithoutNX(c, t) ==
  /\ conf[c].pc = "idle"
  /\ Continue(c, [pc |-> "read", task |-> t, locked |-> TRUE])
  /\ lock' = [lock EXCEPT ![t] = c]
  /\ UNCHANGED <<task, keyOf, index, objects, image, parked, audit, remove, verdict, lostVars>>

\* lockUploadTask: a request that does not get the lock goes on without it.
LockUploadTask(c, t) ==
  /\ conf[c].pc = "idle"
  /\ Continue(c, [pc |-> "read", task |-> t, locked |-> lock[t] = None])
  /\ lock' = IF lock[t] = None THEN [lock EXCEPT ![t] = c] ELSE lock
  /\ UNCHANGED <<task, keyOf, index, objects, image, parked, audit, remove, verdict, lostVars>>

ConfirmUploadTaskByUser(c) ==
  \E t \in Tasks : task[t] \notin {"none", "issued", "skipped"} /\ LockUploadTask(c, t)

ConfirmUploadTaskByCallback(c) ==
  \E k \in objects : index[k] # None /\ LockUploadTask(c, index[k])

\* A ready task answers with its row, a failed one is refused, a pending one
\* is refused to those who do not hold the lock.
ReadTask(c) ==
  LET t == conf[c].task IN
  /\ conf[c].pc = "read"
  /\ \/ /\ task[t] = "ready"
        /\ Leave(c, IF image = None THEN "refused" ELSE "done")
     \/ /\ task[t] = "failed" \/ ~conf[c].locked
        /\ task[t] # "ready"
        /\ Leave(c, "refused")
     \/ /\ task[t] = "pending" /\ conf[c].locked
        /\ Continue(c, [conf[c] EXCEPT !.pc = "verify"])
        /\ UNCHANGED lock
  /\ UNCHANGED <<task, keyOf, index, objects, image, parked, audit, remove, verdict, lostVars>>

\* verifyUploadedObject: needs the object, and the store may not answer.
VerifyUploadedObject(c) ==
  /\ conf[c].pc = "verify"
  /\ \/ /\ keyOf[conf[c].task] \in objects
        /\ Continue(c, [conf[c] EXCEPT !.pc = "find"])
     \/ Continue(c, [conf[c] EXCEPT !.pc = "fail"])
  /\ UNCHANGED <<taskVars, objects, image, parked, audit, remove, verdict, lostVars>>

\* A task that cannot be saved is only logged, here and in SaveReadyTask.
SaveFailedTask(c) ==
  /\ conf[c].pc = "fail"
  /\ SaveUploadTask(conf[c].task, "failed") \/ UNCHANGED <<task, keyOf, index>>
  /\ Leave(c, "refused")
  /\ UNCHANGED <<objects, image, parked, audit, remove, verdict, lostVars>>

Found(c, row) == Continue(c, [pc |-> "save", task |-> conf[c].task, found |-> row])

\* persistConfirmedTask: the row is looked for by its hash ...
FindImage(c) ==
  /\ conf[c].pc = "find"
  /\ IF image = None THEN Continue(c, [conf[c] EXCEPT !.pc = "insert"])
                     ELSE Found(c, image)
  /\ UNCHANGED <<taskVars, objects, image, parked, audit, remove, verdict, lostVars>>

\* ... and else inserted.  On a duplicate it is looked for again, in the same
\* transaction: whether its snapshot has the row depends on the isolation.
InsertImage(c) ==
  LET new == [id |-> c, key |-> keyOf[conf[c].task], status |-> Pass] IN
  /\ conf[c].pc = "insert"
  /\ \/ /\ image = None
        /\ image' = new
        /\ Found(c, new)
        /\ UNCHANGED lock
     \/ /\ image # None
        /\ Leave(c, "refused") \/ (Found(c, image) /\ UNCHANGED lock)
        /\ UNCHANGED image
  /\ UNCHANGED <<task, keyOf, index, objects, parked, audit, remove, verdict, lostVars>>

\* An error of one of these statements ends the confirmation.
StatementFails(c) ==
  /\ conf[c].pc \in {"read", "find", "insert"}
  /\ Leave(c, "refused")
  /\ UNCHANGED <<task, keyOf, index, objects, image, parked, audit, remove, verdict, lostVars>>

SaveReadyTask(c) ==
  /\ conf[c].pc = "save"
  /\ SaveUploadTask(conf[c].task, "ready") \/ UNCHANGED <<task, keyOf, index>>
  /\ Continue(c, [conf[c] EXCEPT !.pc = "consume"])
  /\ UNCHANGED <<lock, objects, image, parked, audit, remove, verdict, lostVars>>

Drop(k) == dropped' = dropped \cup {k} /\ UNCHANGED unread

\* A defect: redis.Nil is taken for a verdict.
ConsumeIgnoringNil(c) ==
  LET row == conf[c].found IN
  /\ conf[c].pc = "consume"
  /\ parked' = [parked EXCEPT ![row.key] = None]
  /\ Continue(c, [pc |-> "update", task |-> conf[c].task, found |-> row,
                  verdict |-> parked[row.key]])
  /\ UNCHANGED <<taskVars, objects, image, audit, remove, verdict, lostVars>>

\* applyPendingAuditStatusIfAny: GETDEL.  Whatever fails from here on is only
\* logged; a failed GETDEL did its work or did not.
ConsumeAuditStatus(c) ==
  LET row == conf[c].found
      v   == parked[row.key]
      next == [pc |-> "delete", task |-> conf[c].task, found |-> row]
  IN
  /\ conf[c].pc = "consume"
  /\ \/ /\ parked' = [parked EXCEPT ![row.key] = None]
        /\ Continue(c, IF v \in {None, row.status} THEN next
                       ELSE [pc |-> "update", task |-> conf[c].task, found |-> row, verdict |-> v])
        /\ UNCHANGED lostVars
     \/ /\ v # None
        /\ \/ parked' = [parked EXCEPT ![row.key] = None] /\ Drop(row.key)
           \/ unread' = unread \cup {row.key} /\ UNCHANGED <<parked, dropped>>
        /\ Continue(c, next)
  /\ UNCHANGED <<taskVars, objects, image, audit, remove, verdict>>

\* UPDATE image_models SET status = v WHERE id = ?
SetStatus(id, v) ==
  image' = IF image # None /\ image.id = id THEN [image EXCEPT !.status = v] ELSE image

\* ... then the update of the row.
ApplyAuditStatus(c) ==
  /\ conf[c].pc = "update"
  /\ \/ SetStatus(conf[c].found.id, conf[c].verdict) /\ UNCHANGED lostVars
     \/ Drop(conf[c].found.key) /\ UNCHANGED image
  /\ Continue(c, [pc |-> "delete", task |-> conf[c].task, found |-> conf[c].found])
  /\ UNCHANGED <<taskVars, objects, parked, audit, remove, verdict>>

\* A defect: the upload is deleted whenever the row was there.
DeleteUnlessInserted(c) ==
  /\ conf[c].pc = "delete"
  /\ objects' = IF conf[c].found.id = c THEN objects ELSE objects \ {keyOf[conf[c].task]}
  /\ Leave(c, "done")
  /\ UNCHANGED <<task, keyOf, index, image, parked, audit, remove, verdict, lostVars>>

\* ShouldDeleteUpload: the row was there and has another key.  A failure of
\* the store is only logged.
DeleteDuplicate(c) ==
  LET key == keyOf[conf[c].task] IN
  /\ conf[c].pc = "delete"
  /\ objects' = (IF conf[c].found.key = key THEN objects ELSE objects \ {key}) \/ UNCHANGED objects
  /\ Leave(c, "done")
  /\ UNCHANGED <<task, keyOf, index, image, parked, audit, remove, verdict, lostVars>>

\* After 30 seconds: under its holder, or once its holder failed to unlock.
LockExpires(t) ==
  /\ lock[t] # None
  /\ t \in LockExpiry \/ conf[lock[t]].pc \in {"done", "refused"}
  /\ lock' = [lock EXCEPT ![t] = None]
  /\ UNCHANGED <<task, keyOf, index, objects, image, parked, conf, audit, remove, verdict, lostVars>>

-----------------------------------------------------------------------------
(* HandleQiniuAuditCallback: the row is looked for by its object key, then *)
(* updated, or the verdict parked.  The store audits an object once it has *)
(* it, and calls back again only after an answer.                          *)

\* A defect: a verdict for a row that is not there is dropped.
AuditDropsUnknown(a, k, v) ==
  /\ audit[a].pc = "idle"
  /\ k \in objects
  /\ audit' = [audit EXCEPT ![a] =
       IF image = None \/ image.key # k THEN [pc |-> "done"]
       ELSE [pc |-> "update", key |-> k, verdict |-> v, id |-> image.id]]
  /\ verdict' = [verdict EXCEPT ![k] = v]
  /\ dropped' = dropped \ {k} /\ unread' = unread \ {k}
  /\ UNCHANGED <<taskVars, objects, image, parked, conf, remove>>

AuditFind(a, k, v) ==
  /\ audit[a].pc = "idle"
  /\ k \in objects
  /\ \A b \in Audits : audit[b].pc \in {"park", "update"} => audit[b].key # k
  /\ audit' = [audit EXCEPT ![a] =
       IF image = None \/ image.key # k THEN [pc |-> "park", key |-> k, verdict |-> v]
       ELSE IF image.status = v THEN [pc |-> "done"]
       ELSE [pc |-> "update", key |-> k, verdict |-> v, id |-> image.id]]
  /\ verdict' = [verdict EXCEPT ![k] = v]
  /\ dropped' = dropped \ {k} /\ unread' = unread \ {k}
  /\ UNCHANGED <<taskVars, objects, image, parked, conf, remove>>

\* Either write may fail: the callback answers an error, and the verdict is
\* lost unless the store calls again.
AuditUpdate(a) ==
  /\ audit[a].pc = "update"
  /\ \/ SetStatus(audit[a].id, audit[a].verdict) /\ UNCHANGED lostVars
     \/ Drop(audit[a].key) /\ UNCHANGED image
  /\ audit' = [audit EXCEPT ![a] = [pc |-> "done"]]
  /\ UNCHANGED <<taskVars, objects, parked, conf, remove, verdict>>

StoreAuditStatus(a) ==
  /\ audit[a].pc = "park"
  /\ \/ parked' = [parked EXCEPT ![audit[a].key] = audit[a].verdict] /\ UNCHANGED lostVars
     \/ Drop(audit[a].key) /\ UNCHANGED parked
  /\ audit' = [audit EXCEPT ![a] = [pc |-> "done"]]
  /\ UNCHANGED <<taskVars, objects, image, conf, remove, verdict>>

\* A parked verdict lives for 24 hours.
AuditStatusExpires(k) ==
  /\ parked[k] # None
  /\ parked' = [parked EXCEPT ![k] = None]
  /\ Drop(k)
  /\ UNCHANGED <<taskVars, objects, image, conf, audit, remove, verdict>>

-----------------------------------------------------------------------------
(* ImageRemoveView: the row is read, the object deleted, then the row.     *)

RemoveFind(d) ==
  /\ remove[d].pc = "idle"
  /\ image # None
  /\ remove' = [remove EXCEPT ![d] = [pc |-> "object", found |-> image]]
  /\ UNCHANGED <<taskVars, objects, image, parked, conf, audit, verdict, lostVars>>

RemoveObject(d) ==
  /\ remove[d].pc = "object"
  /\ objects' = objects \ {remove[d].found.key}
  /\ remove' = [remove EXCEPT ![d].pc = "row"]
  /\ UNCHANGED <<taskVars, image, parked, conf, audit, verdict, lostVars>>

RemoveRow(d) ==
  /\ remove[d].pc = "row"
  /\ image' = IF image # None /\ image.id = remove[d].found.id THEN None ELSE image
  /\ remove' = [remove EXCEPT ![d] = [pc |-> "done"]]
  /\ UNCHANGED <<taskVars, objects, parked, conf, audit, verdict, lostVars>>

-----------------------------------------------------------------------------
ConfirmStep(c) ==
  \/ ConfirmUploadTaskByUser(c) \/ ConfirmUploadTaskByCallback(c)
  \/ ReadTask(c) \/ VerifyUploadedObject(c) \/ SaveFailedTask(c)
  \/ FindImage(c) \/ InsertImage(c) \/ StatementFails(c) \/ SaveReadyTask(c)
  \/ ConsumeAuditStatus(c) \/ ApplyAuditStatus(c) \/ DeleteDuplicate(c)

AuditStep(a) ==
  \/ \E k \in Keys, v \in Verdicts : AuditFind(a, k, v)
  \/ AuditUpdate(a) \/ StoreAuditStatus(a)

RemoveStep(d) == RemoveFind(d) \/ RemoveObject(d) \/ RemoveRow(d)

Next ==
  \/ \E t \in Tasks, k \in Keys : CreateUploadTask(t, k)
  \/ \E t \in Tasks : StoreUploadTask(t) \/ Upload(t) \/ LockExpires(t)
  \/ \E k \in Keys : AuditStatusExpires(k)
  \/ \E c \in Confirms : ConfirmStep(c)
  \/ \E a \in Audits : AuditStep(a)
  \/ \E d \in Removers : RemoveStep(d)

Spec == Init /\ [][Next]_vars

-----------------------------------------------------------------------------
NothingRemoved == \A d \in Removers : remove[d].pc = "idle"

(* A task that became ready stays ready: a slower confirmation of the same *)
(* task does not write its own failure over it (design note 1272: the lock *)
(* keeps the client and the callback from processing a task twice).  Holds *)
(* of the tasks whose lock does not run out under its holder.              *)
ReadyIsFinal ==
  [][\A t \in Tasks \ LockExpiry : task[t] = "ready" => task'[t] = "ready"]_vars

(* The object of the row is in the store: deleting a duplicate upload never *)
(* deletes the object the row points to, also when two tasks of one day    *)
(* share the key.  Holds while no image is removed.                        *)
ImageHasObject == NothingRemoved /\ image # None => image.key \in objects

(* A ready task has its row, and there is a row once a confirmation has    *)
(* found one.  Holds while no image is removed.                            *)
ReadyHasImage ==
  NothingRemoved =>
    /\ (\E t \in Tasks : task[t] = "ready") => image # None
    /\ \A c \in Confirms :
         conf[c].pc \in {"save", "consume", "update", "delete"}
           => image # None /\ image.id = conf[c].found.id

(* The row, its object and the tasks agree: the two together.              *)
ImagesWhole == ImageHasObject /\ ReadyHasImage

Quiet ==
  /\ \A c \in Confirms : conf[c].pc \in {"idle", "done", "refused"}
  /\ \A a \in Audits : audit[a].pc \in {"idle", "done"}

\* The store has given its verdict on the object of the row.
Judged == image # None /\ verdict[image.key] # None

(* The verdict on the image's object is on the row or still parked for it: *)
(* no order of confirmation and audit callback drops it.  Only a failure   *)
(* drops one: of the UPDATE or SET of the callback, of a confirmation's     *)
(* GETDEL or of its UPDATE after it, or 24 hours in which nobody comes.     *)
(* Holds with one verdict per object, while no image is removed.           *)
VerdictKept ==
  Quiet /\ NothingRemoved /\ Judged /\ image.key \notin dropped
    => verdict[image.key] \in {image.status, parked[image.key]}

(* Once nothing runs the row has the verdict the store gave last, also when *)
(* the callback was faster than the confirmation (comment of               *)
(* applyPendingAuditStatusIfAny), unless a statement failed on the way.     *)
VerdictApplied ==
  Quiet /\ Judged /\ image.key \notin dropped \cup unread => image.status = verdict[image.key]
=============================================================================
