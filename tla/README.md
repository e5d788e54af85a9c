# Verification of my_blogx

my_blogx is the Go back end of a blog: articles with likes, favourites, views and
comments, user accounts with sessions, direct image upload, private chat, follows,
messages, site settings, logging and search. It runs one server process (or several
instances) of goroutines per request, a few timers and consumers, on MySQL (GORM),
Redis, Elasticsearch, Kafka and the Qiniu object store. What is hard in it is not an
algorithm but the order of small steps in several systems: a handler's statements are
not one transaction, Redis and MySQL commit apart, jobs and callbacks run beside the
handlers, and a process may die between any two of them. That is what the modules
here model.

This directory holds the TLA+ modules, the TLC configurations, the proofs and
`PROJECT.json`, which lists components, runs, theorems, hazards and, for every
definition, the source lines it stands for.

    tlc -config MCDiggCounter.cfg MCDiggCounter.tla     # a run
    tlapm DiggCounterProofs.tla                         # the proofs of a module

## 1. The system's parts

"Hard" names what a unit test hardly reaches; "correct if" is what the part owes.

| Part (source) | State | Operations | Hard | Correct if |
|---|---|---|---|---|
| Counter deltas and the nightly job (`service/cron_service`, `service/redis_service`) | an active and a syncing Redis hash per metric, the lock key, the counter columns | handlers HINCRBY; the job locks, renames, reads, applies row by row, requeues, deletes, unlocks | handlers during the job, crash, failed UPDATE, TTL of the lock, several instances | no delta lost or applied twice, counts converge |
| Likes and favourites (`article_digg.go`, `article_favorite.go`, `favorite/`, `comment_digg.go`, `restore_create_unique.go`) | soft-deletable relation rows with a unique index, folders | toggle: SELECT, DELETE or restore/INSERT, HINCRBY; remove a list, a folder | concurrent toggles, restore racing insert, hooks that count before the commit | one success per change, counts equal relations |
| Article views (`api/article_api/article_view.go`) | daily mark per viewer, its expiry, history rows | visit | check-then-mark, midnight, crash between mark and expiry | once per viewer, article and day |
| Comments (`api/comment_api`) | comment tree, reply counts, deltas | create, reply, remove a subtree, like | removal racing replies | counts equal live comments |
| Sessions and tokens (`service/user_service`, `api/user_api/auth_api`) | session rows, token version, blacklist | login, refresh, logout, logout everywhere, password change, status change | refresh racing logout, stale cached users, unique index | revocation is final and always possible |
| Codes and registration (`service/email_service`, `redis_email`, `auth_api`) | codes, attempts, send windows, user and profile rows | send, verify, register, log in, bind, reset, rename | concurrent verification, duplicate names, a failure between two calls | one use per code, users whole |
| Query cache (`core/init_db.go`) | cached results in Redis | Get, Store, Invalidate around every statement | invalidation before commit | only committed values, staleness ends |
| Image upload (`service/image_service`, `api/image_api`) | task records and key index (Redis), locks, image rows, objects, parked verdicts | create task, upload, confirm by client or callback, audit callback, remove | callback racing confirmation, duplicates of one content, lock TTL | row has its object, ready task has its row, verdict reaches the row |
| Image references (`service/image_ref_river_service`) | reference rows | row events, rebuild, dump at each start | events applied twice, images confirmed or removed during a rebuild | references equal uses |
| Chat (`api/chat_api`, `service/chat_service`, `redis_chat`) | messages, sessions with unread and clear marks, weekly stranger quota | send, read, clear | reservation and rollback of the quota, unread counters | limits kept, unread equals unread messages |
| Chat connections (`chat_ws.go`, `chat_online.go`, `redis_ws_ticket`) | tickets, the store of online users, a reader and a pinger per connection | ticket, open, read, push, ping, close | a push, a ping and a close at once; a silent peer | no connection leaks |
| Follows (`api/follow_api`, `service/follow_service`, `user_stat`) | follow rows, two statistics rows | follow, unfollow | concurrent toggles, statistics in the same transaction | statistics equal relations |
| Articles, tags, pins (`api/article_api`) | articles, tag relations and tag counts, pins | create, edit, examine, remove, pin | stale tag list read before the transaction, count-then-insert of pins | tag counts equal relations, at most so many pins under the lock |
| Binlog to Elasticsearch (`service/river_service`, `service/es_service`) | binlog position, request buffer, `master.yaml`, index | row events, bulk requests, position save, dump, refreshes by handlers | crash between bulk and position save, failed bulk, torn file | the index converges to the tables |
| Search (`service/search_service`) | the index it reads | a search of five types | the combinations of type, caller and filters | finds and refuses what its rules say |
| Messages and notices (`service/message_service`, `sitemsg_api`, `global_msg_api`) | message rows, notices, per-user notice rows | goroutines insert; read, delete; administrators create, remove | goroutines of one doing, messages that come during a read of all | told once, what is read or removed stays so |
| Site configuration and flow (`service/site_service`, `site_api`, `redis_site`) | one row, two copies in memory, shared request structs; counts of visits per day | load, update; count a visit | concurrent updates, refused requests, visits around midnight | the configuration in force was committed; recent days are complete |
| Scoring of articles (`service/ai_service/ai_scoring`) | chunks, the running state of a scoring | cut, ask, merge | boundaries of chunks, replies that lack anything | the article is read whole, the score follows the replies |
| Logs and Kafka (`service/log_service`, `service/kafka_service`) | queue, batches, offsets | enqueue, flush, consume | full queue, retry, shutdown | bounded, flushed at shutdown |
| Profile views, users, banners, data, router, start-up | single rows | reads, wiring, single statements | - | - |

How they interact. All rows are read and written through one GORM handle with the
query cache installed, so any component may be given an old row (`QueryCache`). Likes,
favourites, views, comments and tags all feed the same Redis hashes, which one job
moves to MySQL (`CounterFlush`). MySQL's binlog feeds the article index (`River`) and the
image references (`ImageRefs`); the documents are refreshed by the handlers too
(`Articles`), and the search reads them (`Search`). Chat messages reach the other side
through the online store (`ChatOnline`). Likes and comments start goroutines that write
messages (`Messages`). Uploads, logins and counters use Redis locks or records that
expire by themselves. The object store calls back twice, for the upload and for the audit.

## 2. Modules

| Module | Models | Extends or uses |
|---|---|---|
| `CounterFlush` | the job for one metric, with its faults | - |
| `CounterLedger` | what the counter pipeline promises, without Redis | - |
| `DiggCounter` | the like toggle composed with the job | extends `CounterFlush`, implements `CounterLedger` |
| `ViewCounter` | the visit composed with the job | extends `CounterFlush` |
| `Favorites`, `Comments` | folders and favourites of a user; the comments of an article | - |
| `AuthSession`, `SignUp` | sessions and tokens; codes and registration | - |
| `QueryCache` | the cache seen from one row | - |
| `River` | the binlog's way into the index, with its faults | - |
| `ImageUpload`, `ImageRefs` | upload tasks, confirmation, audit, removal; references to images | - |
| `Chat`, `ChatOnline` | follows, sends under the limits, reads and clears; connections | - |
| `Messages`, `GlobalNotices` | messages of doings; notices to all users | - |
| `Articles` | articles, tags, pins, and the documents the handlers refresh | - |
| `Search`, `SiteConfig`, `Scoring` | queries; configuration and flow; scoring | - |
| `CounterFlushProofs` | what every step of the job keeps, for both counters | extends `CounterFlush` |
| `DiggCounterProofs`, `ArticlesProofs` | theorems and proofs | `DiggCounter` (with `CounterFlushProofs`), `Articles` |
| `ViewCounterProofs`, `SiteProofs`, `RiverProofs`, `ImageUploadProofs`, `ChatProofs` | theorems and proofs about several components | `MCViewCounter` (with `CounterFlushProofs`), `MCSite` (an instance of `ArticlesProofs` with it), `MCReplication`, `MCImages`, `MCChat` |
| `MC...` | model values, bounds and symmetry for TLC | see section 3 |

### CounterFlush, DiggCounter, ViewCounter

`active` and `syncing` are the two hashes of `hashSyncConfig`; `stored` is the counter
column; `lock` holds the token of an execution; `phase` says where each execution of
`runLockedSyncTask` is and `todo` is its `deltaMap`. `LockArticleSync`,
`PrepareSyncBucket` (the Lua script, atomic), `ReadSyncBucket`, `ApplyDelta` for each
entry, `DropSyncBucket` and `ReleaseLock` (a script that compares the token) are the
round; `ApplyFails` puts a delta back when its UPDATE fails. An absent field and a field
of 0 read the same, so a hash is a total function. All seven metrics run this code, so
one is modelled.

The faults are named and counted (`MaxFaults`), and each property says with which of
them it holds: `db` (UPDATE fails), `skip` (a Redis error that ends a round, or the
unlock), `redis` (a DEL, or a Redis call of a visit fails), `lose` (an HINCRBY of a toggle
fails, and its error is only logged), `crash`, and `expiry` (the 30 minutes of the lock run
out under a live round; the code never renews it).

`DiggCounter` adds the handler: `TakeDigg` reads the relation row (or a stale copy),
`DeleteDigg` deletes it and looks at `RowsAffected`, `RestoreDigg` and `CreateDigg` are
the two statements of `RestoreOrCreateUnique`, `SetCacheDigg` is the HINCRBY. Requests
interleave at every statement. `Overlap` says whether a user may send a second toggle of
an article before the first is answered: then a stale delta order is possible and only
the one-sided bound holds, as the clamp at zero may throw an unlike away.

`ViewCounter` adds the visit: the mark is read (`CheckHistory`), the history row saved,
the mark set and then given an expiry in a second call (`MarkHistory`, `ExpireHistory`),
the delta added. Each of the four Redis calls may fail (`CheckHistoryFails`,
`MarkHistoryFails`, `ExpireHistoryFails`, `CountViewFails`), which the handler does not look
at. `unset` remembers the viewers whose hash was left without its expiry. `Midnight` expires
hashes as a whole, as the key has one TTL.

### AuthSession

`account` are the user rows (token version, count of committed password changes, status),
`cached` the overwritten rows the query cache may still return, `sess` the session rows,
`access` the issued access tokens, `black` the blacklist, `req` the requests with what
they have read. A login is two steps (read and check; insert), a refresh three (find the
session, read the user, rotate by id), a logout two, a password change two: exactly where
other requests can come in between. Refresh tokens are random and one-time, so a row's
hash is only "empty or not" - which is what the unique index on it sees. `StaleUsers`
names the users of whom overwritten rows may be read.

`SetStatus` changes nothing but the row: `AdminUserInfoUpdateView` compares the request
with a model into which GORM's `Updates` has already written the new values, so the call
that would invalidate the sessions is not reached.

### SignUp

`codes` are the codes in Redis, `mails` what was ever sent and tried, `window` the
counters of the send limits (INCR and EXPIRE are two calls, so `ends` may stay FALSE).
`VerifyRight` and `VerifyWrong` are the Lua script. A request then goes on to create, log
in, bind or reset; INSERT with `DoNothing` reports any duplicate as no error, and the
hook that creates the profile runs all the same, so `profiles` may hold ids without a
user. `NextName` takes a number of the sequence, which may be taken by a member's choice.

### QueryCache

`Get`, `Select`, `Store` and the easer (a waiting query takes the result of the same
query in flight), `Invalidate` inside the write's callback, `Commit` after it, `Expire`
after 300 seconds. It shows why other modules let a read return an old row.

### ImageUpload

All tasks of a model are uploads of one content, because rows of different contents do
not interact; `keyOf` is the object key of a task (prefix, day, hash), equal for tasks
of one day. `conf`, `audit`, `remove` are the confirmation, audit and removal requests
with what they have read. A confirmation that does not get the lock goes on only to read
the task; `ReadTask`, `VerifyUploadedObject`, `FindImage`, `InsertImage`,
`SaveReadyTask`, `ConsumeAuditStatus`, `ApplyAuditStatus`, `DeleteDuplicate` follow
`confirmUploadTask`. After a duplicate key the row is looked for in the same transaction,
and whether it is seen depends on the isolation level, so both outcomes are allowed. An
error of the read or of the transaction ends the confirmation (`StatementFails`); the rest is
only logged and skipped, each step with its branch: the save of the task, GETDEL, the UPDATE
of the verdict it took, the deletion of the object, the unlock. The callback's own UPDATE or
SET may fail too, and a parked verdict expires after 24 hours (`AuditStatusExpires`). `dropped`
and `unread` remember the keys whose verdict was lost in one of these ways, or left parked by
a GETDEL that failed.

### River

`log` is the binlog, `cursor` how far the canal has read it, `syncCh` the channel to
`syncLoop`, `reqs` its buffer, `master` and `file` the position in memory and in
`master.yaml`. The loop is `select` (`TakeReqs`, `TakePos`, `Tick`, `Done`), then `flush`
(`DoBulk`) and `save` (`Save`, `SaveThrottled`), in that order. `recent` and `fresh` stand
for the two throttles of 3 s and 1 s. Faults: a crash, a failed request of the bulk or a
failed write of the file, a torn file, an error of `OnRow`, a lost connection. A start with
no readable file dumps the table; rows that were deleted before then stay in the index, and
`damaged` remembers the ids of such documents and of failed items. `PrepareRule` gives
the tables of a wildcard rule neither its filter nor its pipeline.

### ImageRefs

`OnRow` handles a row event up to the DELETE of the owner's references, `ReplaceSelect`
looks the images up, `ReplaceCreate` inserts; `Stop` may come between any two, and `Start`
dumps the tables into `feed`. `RemoveFind` and `RemoveImages` are `ImageRemoveView`; nothing
stops a rebuild from inserting a reference to an image that has gone.

### Articles

A request reads, writes in a transaction, counts tags in Redis and refreshes documents, one
step each. `SyncTags` moves relations between `live` and `dead` (soft-deleted); `Preload`
shows what the many2many join returns, the dead ones included. `TopCheck` takes the user's
row FOR UPDATE (`rowLock`), looks for the pin and counts, `TopPin` inserts and commits. Its
three queries go through the query cache like any other: an answer of the cache or of the easer
to the first one takes no lock, and one to the others may be old. Then the check has any
outcome, with the lock or without, and `eased` remembers the user. `Aborted` is a failing
statement, or a failing refresh. `missed` holds what failed HINCRBYs would have added to the
tags. Other rows are read as they are committed: `raced` covers tags read too early in any
way, and no other property of this module depends on a stale read. `Replicate` is what the
River brings of a new row: no status, no tags.

### Favorites, Comments

The counts are what an article shows, stored count and owed deltas together, so that the
job need not be repeated. Requests are the steps between two statements: a favourite is
switched and then counted; a list is found, deleted, and then counted; a folder's hook
counts before its transaction commits, or is rolled back (`DeleteRollback`). A comment is
inserted, published and counted in three statements; a removal reads the target, then its
replies, deletes them by id, and counts what it read. Any HINCRBY may be refused, on its own,
which is logged and no more: `missed` is the sum of what was refused. `Aborted` is a statement
that fails before anything is counted. `blurred` records the overlaps in which one row is
counted twice.

### Chat

`follows` and `stats` are the follow rows and both users' statistics, written in one
transaction. `quota` is the week's Redis counter of a direction and `recent` the members
of the minute windows; `msgs` and `session` are the tables. A send is the sequence of its
atomic parts: `CheckRelation`, `ReserveMinute` and `ReserveWeek` (a script each), `ToChat`
(one transaction), then `Commit`, or `RollbackWeek` and `RollbackMinute`. `send` holds what
the send has read, so the relation and the week may be old when they are used. Reads and
clears are two and three steps: what they look up, they look up before the transaction
that acts on it. `OneTab` names the users whose reads and clears do not overlap.

### ChatOnline

`reader` is `ChatWsView` of each connection, `pinger` its `RunPingLoop`, `users` the store.
`Push` is a write under the connection's mutex; a push that fails closes and unregisters
the receiver's connection (`Drop`). `DeadlinePasses` is the read deadline, which only pongs
move.

### Messages, GlobalNotices

A goroutine of `Messages` checks and inserts in two steps. An error of the check, whichever it
is, reads as "there is none" (`CheckFails`), and the message that is then inserted beside
another is in `again`; a failed INSERT is logged (`Lose`). A request of the receiver finds
ids and then updates or deletes those ids, which may fail. `GlobalNotices` keeps the row a user has for a
notice, tombstones included, which `LoadState` reads before the notices (`FindVisible`).

### Search, SiteConfig, Scoring

`Search` builds the query of a request clause by clause, as the code does, and says which
documents it hits; the rules it is compared with are stated apart from the construction.
`SiteConfig` decodes each request into the struct that all requests of its half share, field
by field, copies it, reads the row, writes both halves, and sets the two copies in memory
one after the other. `Scoring` cuts a paper into chunks of lengths and merges replies.

## 3. Runs

Some runs check several components side by side: a variable `part`, fixed at the start, says
which of them moves. They share no variable, so the states of such a run are the sum of
those of its parts and nothing is lost by checking them together.

| Run | Instance | Shows |
|---|---|---|
| `MCDiggCounter` | 2 users, 1 article, 3 requests, 2 job instances, 2 faults of any kind, overlap | types; one job at a time until a lock outlives its TTL; no like is lost while only UPDATEs fail and rounds are skipped; no toggle succeeds twice; each step is one of the ledger |
| `MCDiggFair` | likes: 2 users, 2 articles, 3 requests, no overlap, 1 fault, fairness; connections: 2 users, 2 connections, 2 tickets | the count is exact; it converges, through failing UPDATEs and skipped rounds, also when a failed unlock left the lock of the job; a connection that is over is closed, unregistered and no longer pinged |
| `MCDiggClamp` | 2 users, 1 article, 2 requests, overlap, no fault | **violation**: an overlapping unlike is thrown away by the clamp |
| `MCViewCounter` | views: user and guest, 2 articles, 3 visits, 1 midnight, 2 faults; favourites: 2 articles, 2 folders, 3 requests; comments: 3 comments, 4 requests | no visit lost by crashes and failures, exact when only UPDATEs fail (`ViewsCounted`); once a day; marks expire unless their EXPIREAT failed or was never made; favourites and comments counted as they are, less exactly what Redis refused |
| `MCSite` | sessions: 2 users (one read stale), 2 sessions, 3 requests, 2 password changes; articles: 3 requests, up to 2 articles, 1 tag, 1 pin; search: every request over 432 documents; 2 edits of the configuration; 3 visits over 4 days; 4 visitors, 1 address, 1 open id; papers of up to 3 paragraphs | revocation is final, the blacklist redundant, a fresh session keeps its version; pins limited for users whose checks reached the database (`LockedPinLimit`); tags counted, less exactly what Redis refused; searches follow their rules; `SiteKept`, `SignUpsSound`, `ScoringSound` |
| `MCAuthRevoke` | 1 user, 2 sessions, 3 requests | **violation**: the revoking UPDATE is rejected by the unique index |
| `MCImages` | upload: 2 tasks, 2 days, 3 confirmations (2 beside a removal), 1 audit, 1 removal, one task whose lock runs out; references: 1 article, 1 other row, 1 key, 2 images, 3 writes, 1 stop | row has its object and ready task its row (`ImagesWhole`); the verdict is on the row or parked unless a failure or its TTL dropped it; ready is final; references follow the rows |
| `MCImageAudit` | 1 task, 1 confirmation, 1 audit | **violation**: a parked verdict is never read |
| `MCChat` | chat: 2 users (one takes messages of strangers, one uses one tab), 3 sends, 2 reads or clears, limits 1 and 2, 1 new week; messages: 3, 2 requests; notices: 1, 4 requests, 2 moments | statistics equal the relation (`TypesOK`); limits kept and failed sends free (`LimitsKept`); unread never too large, and right in one tab (`UnreadRight`); cleared stays cleared; told once, unless a check failed, and seen; read or removed notices stay so |
| `MCReplication` | river: 2 ids, 3 row values, binlog of 4, bulk of 2, channel of 2, 1 fault, 3 rules; cache: 3 reads, 2 writes; fairness | a saved position lies behind nothing unflushed; the index is the table when the River has caught up, and it does catch up; only committed values are cached; staleness ends |
| `MCArticleTags` | 1 article, 1 tag, 2 requests | **violation**: a tag that was taken off is shown again |
| `MCArticlePins` | 2 articles, 2 requests, 1 pin | **violation**: the query cache answers a locking read, and a user gets more pins than the limit |

Each property of a passing run has a mutant in its module (a definition whose comment
says "a defect" or "mutant"): the property fails when it replaces the definition.

Bounds. Three requests are a like, an unlike and one more beside them, the shortest
history in which each pair of statements of two toggles and the job's rename can
interleave; two job instances are what a lock tells apart; two faults let one happen while
the recovery from another is under way. Two articles show one UPDATE of a round failing
while the other succeeds. In `AuthSession` two sessions are what "all sessions" and the
unique index need, and a race there is between two requests about a session that a third
opened. In `ImageUpload` two tasks are a duplicate, and the third confirmation is the
second one of a task. In `ImageRefs` two images are one that is removed while its successor
under the same key is confirmed. In `Chat` three sends are a message, its answer and one
more, or a failed send beside both; two reads find the same messages, a read and a clear
race with a send. In `River` a binlog of four entries with buffers of two fills the channel
and the bulk and leaves an entry behind a saved position. In `Articles` the third request is
the one that changes tags between another's read and write, or a removal beside an update; two
pins beside a limit of one is the race for the last place. Three comments are a top-level one
and two replies. In `SignUp` four requests are two sends and two verifications. The
paragraphs of `Scoring` are shorter than, as long as, and longer than a chunk.

Corners that are left out by a named bound: `MCChat!Bounded` (a third send comes only
between two users, in one week, without a fault and without reads and clears, and those come
when the users follow each other; the quota and the unread counts share no variable that
this hides), `MCSite!FewArticles` (two articles are there only to be pinned and removed, and
only they are pinned; tags do not meet rejected articles, nor a site without examination; the
cache answers no check of the administrator - none of these is counted in the others),
`MCSite!FewSearches`, `MCImages!FewRequests` (beside a removal, two confirmations),
`MCViewCounter` (comments are examined; the administrator's are published at once, as all are
without examination), and `MCReplication!Bounded` (one article at first, one DDL statement).
`MCDiggFair` fixes the first request. Requests are used once, so runs end: the deadlock
check is off where nothing is left to do and on where the job goes on.

Symmetry is used for values that no constant tells apart, and not in runs with liveness.

Conditions of properties. `ExactCount` without overlap and `OncePerDay` without overlap and
without a visit in flight at midnight are the strongest true statements; `UnreadExact` and
`ClearedStaysCleared` are of a user with one tab; the other is in the run too. `TagsCounted`
excludes histories in which the tags of an article changed between a request's read and its
transaction (`raced`), `FavorsCounted` and `CommentsCounted` those in which two removals met
(`blurred`); all three say how much a count falls short after an HINCRBY was refused.
`MarksExpire` leaves out the hash whose EXPIREAT failed, until a later visit, `VerdictKept`
the key whose verdict a failed statement or the 24 hours dropped, `LockedPinLimit` the user
one of whose checks the cache answered. `ConfigKept` excludes concurrent edits for its
second half, `ToldOnceAndSeen` two goroutines at one message and the message of a failed
check, `RefsFollowRows` rows that mention an image before it is confirmed, `IndexIsTable`
ids that a failed item or a lost position left wrong. Without the conditions TLC finds the
schedules listed in section 6.

Fairness. `DiggCounter!FairSpec`: a request that has begun ends (a goroutine is
scheduled), the job is started again and again (cron) and its steps go on, and a lock
whose owner is gone expires (its TTL). `QueryCache!FairSpec`: a SELECT or a write that has
begun ends, and the TTL runs. `River!Fairness`: the canal goroutine and `syncLoop` are
scheduled, the ticker ticks and the throttles end; `CatchesUp` asks it only of a River that
stays up. `ChatOnline`: the handler of a connection and its pinger are scheduled, and the
read deadline passes when no pong can come. Nothing makes a request come, and no fault is
fair. `MCDiggFair!EndsFairness` and `MCReplication!CopiesFairness` state the same for the
steps of the whole: each action that is fair in a module is fair there.

## 4. Proofs

Each theorem holds for every value of the constants that the module's ASSUMEs allow
(finite requests, limits that are natural numbers, "nobody" and "none" not among the values),
for any faults, and with the model's bounds as parameters. Each rests on an inductive
invariant (those of `River` and `Chat`, the largest, were model-checked on the runs'
instances before they were proved). A theorem's comment says what it means; this section says why the property alone is not inductive and what is
added. The types of a component are a `TypeCorrect`, or part of its other invariants
(`ArticlesProofs`, `RiverProofs`).

The modules that put several components side by side keep their parameters as CONSTANTS and
give them values in the `.cfg`, so a theorem about `CountSpec`, `AllSpec`, `ImagesSpec`,
`TalkSpec` or `CopiesSpec` is about the specification a run checks, for all values. A proof
there first shows that a step of the whole is a step of the component or leaves its variables
alone; what is proved of the component alone (`Spec`) is then not proved again. The prover has
no rules for `@@` and `:>`, so the models extend a function by a comprehension. SUBSET and DOMAIN stand in parentheses next to a binary
operator, because TLC and the prover do not agree on which of the two binds tighter.

Counters. `CounterFlushProofs` has no theorem of its own: it shows once what the steps of the
job do, and `DiggCounterProofs` and `ViewCounterProofs` use it. A step leaves `stored + Owed`
alone, settles one row, or is a fault that is remembered (`FaultSeen`, `FlushRemembers`). Two
facts carry it: an execution that is not idle holds the lock (`Exclusive`), so the bucket and
one `todo` are never counted at once, and an execution about to delete the syncing hash has
applied all of it (`Drained`).

| Theorem of `DiggCounterProofs` | Property | Argument |
|---|---|---|
| `MutualExclusion` | `SingleSyncer` | from `Exclusive` |
| `NeverUndercounted` | `NothingUndercounted` | `TypeOK /\ (Sound => Good /\ EnoughBooked)`: a handler changes the relation and `Pending` together (cardinalities of the sets of waiting requests), the clamp can only raise the sum |
| `CountIsExact` | `ExactCount` | without overlap (`Alone`) a request about to add a like finds its row live (`AddsLive`), so what is in the hashes is never more unlikes than likes, and a stored count with its bucket is never negative (`Solvent`): the clamp is never reached |
| `NoDoubleChange` | `NoDoubleSuccess` | likes less unlikes that worked are 1 or 0 as the row is live (`Alternating`); a restore is counted by the statement that changed the row |
| `ImplementsLedger` | `LedgerSpec` | step by step from `Good`: each step is one of the ledger, a stutter, or breaks its guarantee |

| Theorem of `ViewCounterProofs` | Property | Argument |
|---|---|---|
| `NoVisitLost` | `ViewsCounted` | `CountInv`: the faults that the exact half excludes only repeat deltas, so the two halves need different parts of the job's facts |
| `CountedOncePerDay` | `OncePerDay` | what `CheckHistory` learned must stay true until the mark is set: who was counted today is marked (`MarkedToday`), and of one viewer's visits to an article one is on its way (`OneAtATime`) |
| `NoMarkIsForever` | `MarksExpire` | with the days of the requests that are between mark and expiry; a request that fails or dies there puts its viewer into `unset`, and a later one takes it out |
| `FavoritesAreCounted` | `FavorsCounted` | a double-entry account per article (`Balance`): the count shown, what Redis refused, and what requests under way will add are together the rows there are and what they will take off. The two sides are kept as sets of pairs of a request and what it holds (`Gathered`), so a step moves elements of one request only, and a removal of a folder moves several at once |
| `CommentsAreCounted` | `CommentsCounted` | the same account for the article and for each top-level comment; nobody removes what another request has taken in hand (`ComUndisturbed`) until two requests meet at one comment (`comBlurred`) |
| `CountsTyped` | `TypesOK` | a request knows where it stands: its folder, its article and what it answers are there when its program counter says they have been read, folders have titles and stay within their number, and a reply follows the comment it answers |

`CountIsExact` is of `~Overlap`, `CountedOncePerDay` of `~Overlap /\ ~Straddle`: these are the
model's own switches, and with either on TLC finds the property violated (section 6).

| Theorem of the other modules | Property | Argument |
|---|---|---|
| `SiteProofs!RevocationIsFinal` | `RevokedStaysRevoked` | every request about a session names a session that exists and belongs to its user (`Owned`) |
| `SiteProofs!BlacklistAddsNothing` | `BlacklistIsRedundant` | `Revoke` revokes the session of the token it then blacklists, and revocation is final |
| `SiteProofs!VersionFollowsPassword` | `CurrentSessionsKeepVersion` | `Current`: what a login or a refresh has read is, if its session is live under the current password, still the current version; a password change revokes every session it outdates |
| `SiteProofs!SitePins`, `SiteTags` | `LockedPinLimit`, `TagsCounted` | every step of `MCSite` is one of `Articles` or leaves its variables alone, so the two theorems of `ArticlesProofs` hold there |
| `SiteProofs!SearchesFollowRules` | `SearchFollowsRules` | the query is a list of clauses; each rule is shown to be met by a document exactly when the clauses on that field let it pass, type of search by type of search (`HitsAreWanted`). The caller "nobody" and the absent filter are none of the values |
| `SiteProofs!SiteStaysKept` | `SiteKept` | configuration: an update that runs alone carries a copy of what is stored, with its own half as asked, and is the only one whose row and copies differ (`Agreed`). Flow: a day that is being deleted is too old to be shown, and only gets older (`FlowInv`) |
| `SiteProofs!SignUpsAreSound` | `SignUpsSound` | a code that is still in Redis is that of its mail, was given back by nobody, and has tries left (`MailsRight`); the address of a user, or of a request past the verification, was given back from a mail; whoever was let in is a user, and a user has a profile (`UsersWhole`) |
| `SiteProofs!SiteTyped` | `TypesOK` | the invariants above, with what each request carries to its write (`VisitorTyped`, `EditTyped`); articles from `ArticlesProofs!TypeCorrect`, where a request under way names rows that exist and a refresh carries parts of documents (`Carries`) |
| `SiteProofs!ScoresAreSound` | `ScoringSound` | chunks: a fold is a sequence of steps (`LeftSteps`, by induction over numbers from the library's well-founded orderings), and each step of cutting leaves the fragments as they are, in chunks that fit (`PlacedSound`). Reading: what was sent is the start of the chunks, and the type in force the last one the model named (`Reading`). The total: sums weighted alike keep the bounds of what they weigh (`SumsBetween`) |
| `ArticlesProofs!PinsLimited` | `LockedPinLimit` | as long as every check of a user reached the database, a request between its count and its insert holds the lock of the user's row, and there was room (`Pinning`), which no other request can take without the lock |
| `ArticlesProofs!TagsAreCounted` | `TagsCounted` | a tag's count, what failed HINCRBYs did not add, and what the requests under way owe it (`Owed`: those that will add one, less those that will take one away, and the relations a removal has counted and not yet deleted) are together the relations there are (`Counted`); each step changes only its own request's `Share` of that |
| `RiverProofs!ResumeSkipsNothing` | `SavedIsFlushed` | requests and messages are in the order of the binlog (`InOrder`), every position in memory or on its way to the file lies behind all of them (`PositionsBehind`), and the loop saves only with an empty buffer (`LoopKeepsPos`) |
| `RiverProofs!PositionsInLog` | - | types, and positions within the binlog |
| `RiverProofs!IndexFollowsTable` | `IndexIsTable` | see below |
| `RiverProofs!CopiesTyped` | `TypesOK` | with the invariants of the other theorems of `RiverProofs`; the channel is within its capacity, and no message is for position 0 (`Channel`) |
| `ImageUploadProofs!ReadyTasksStayReady` | `ReadyIsFinal` | a confirmation past the read of its task holds the task's lock while that does not run out, and the task is pending until it saves (`LockHeld`) |
| `ImageUploadProofs!RowsAreWhole` | `ImagesWhole` | while there is no row, a confirmation past its check still has its object; one that found the row acts on that row (`RowWhole`) |
| `ImageUploadProofs!VerdictIsKept` | `VerdictKept` | the verdict is on the row, parked, or in the hands of a callback or a confirmation that will put it there, unless it was dropped, and no copy differs from it (`VerdictWhole`) |
| `ImageUploadProofs!ReferencesAreThoseOfTheRows` | `RefsFollowRows` | the last event of an owner that rebuilds carries the row there is (`LastWord`), so an owner without such an event has the references its row asks for, or a rebuild under way is about to write them (`NothingForgotten`). Stops are repaired by the dump, which lists every row (`AllListed`: a list as long as a finite set, without repetition, misses nothing); an image that comes or goes changes both sides alike |
| `ImageUploadProofs!ImagesTyped` | `TypesOK` | with `TypeCorrect` and the invariant above |
| `RiverProofs!CachedRowsWereCommitted` | (part of `TypesOK`) | whatever a SELECT carries was read from the table or from an entry that a SELECT stored |
| `ChatProofs!LimitsAreKept` | `LimitsKept` | see below |
| `ChatProofs!UnreadCountsMessages` | `UnreadRight` | `ReadsInv`: what a request looked up is still unread when its user has one tab, a live row has a message, and the watermark a clear carries is one of its messages |
| `ChatProofs!ClearingIsFinal` | `ClearedStaysCleared` | in one tab the mark a clear has read is not behind the row's (`MarkAhead`), as no other request of the user runs (`OneAtATime`) |
| `ChatProofs!StatisticsAgree` | (part of `TypesOK`) | the clamp of `StatApplyFollowDelta` is never needed |
| `ChatProofs!MessagesToldOnce` | `ToldOnceAndSeen` | a goroutine past its check has found no message of its subject, or has failed to look, and it is the only one on that subject until two overlap (`MsgAlone`); a message that no request has found is kept and unread (`UnseenUnread`) |
| `ChatProofs!NoticesStayAsChosen` | `UserChoicesStay` | whoever was told that a notice is read or removed has a row that says so (`ChoicesInRows`), and no write to a row takes a mark back: reading and removing touch no tombstone, the hook of an administrator's removal only sets one |
| `ChatProofs!TalkTyped` | `TypesOK` | with `TypeCorrect` and `StatisticsAgree` |

`VerdictIsKept` assumes `OneVerdict`, that the store does not change its verdict on an object;
the model lets each callback bring any verdict, and the run has one callback. `ImagesWhole` and
`VerdictKept` are of histories in which no image is removed, which they say themselves.

The weekly limit is the hardest of these. How many messages got through is not in the
state: the counter is cleared by answers, given back by failed sends, and left alone by crashes.
`Booked` relates it to the sends: the sends that hold a place (`Held`: stored, about to be, or
about to give it back) are at most the counter plus a full quota for each answer that may have
cleared it (`Cleared`), and the counter is within the quota of the relations seen so far
(`Places`). An answer that clears the counter joins `Cleared` in the same step. The release is
the delicate step: it lowers the counter together with `Held`, and when an answer has already
cleared the counter to 0 it lowers neither below what is booked. Until a fault the
counter is also at most `Held` (`NoneLost`), which is that a failed send costs nothing;
`Branches` and `Windows` tie a send's place in the code to its relation, week and minute.

That the index follows the table is the longest argument. Two statements about a set of requests
carry it: the requests that come last in the set tell the table as it is (`Tells`: the last
replacement of a document whether there is a row, the last request on a column its value), and
where no request of the set has a say, the document is right already (`Leads`, and `Sound` for
all ids that are not damaged). While the River runs both hold of the requests that are pending,
in memory or in the part of the binlog the canal has still to read (`Running`). Beside that, the
index is at every moment right but for what lies behind the position in the file (`Resumable`):
that is what makes a crash, a replay of requests that the index has seen, or a position that was
not saved harmless, and it needs the order that `ResumeSkipsNothing` proves. A commit
adds requests behind all others that tell the new table (`EventFollows`, `NewsTell`, `NewsLead`);
a first start dumps every row once (`AllRowsDumped`); the other steps move requests along. A flush
tells the requests that were collected, accepted or refused, one by one, and leaves the rest
pending (`BulkCatchesUp`, `BulkStaysWithin`). It is a fold, and what a fold computes goes by
induction over its items: the library's induction theorem, which takes an operator, cannot be
used, so `Induct` states induction for a set of numbers and derives it from the library's fact
that the strict subsets of finite sets are well founded; `BulkSteps` then unfolds the fold into
the states between its items.

Only model-checked is liveness under fairness, which the prover cannot do: `EventuallyCounted`,
`ConnectionsEnd`, `CatchesUp`, `StaleEntriesExpire`.

## 5. Assumptions

- MySQL executes each statement atomically, with unique indexes that count soft-deleted
  rows and empty strings; Redis executes each command and script atomically. Both are
  external, as are the callbacks of Qiniu.
- The caches plugin calls `Invalidate` within the statement's callback chain and before
  commit, and its easer shares results of identical queries in flight; GORM's
  `Updates(map)` writes the values back into the model. Both libraries are outside the
  repository and modelled as it uses them.
- MySQL ends a deadlock of two transactions by failing one of them.
- The object store gives a verdict on an object once and waits for the answer of a
  callback before it calls again.
- The canal library hands out row events in binlog order, dumps a table when it is given no
  position, and calls `OnPosSynced` between transactions; Elasticsearch applies the items of a
  bulk request in order, answers for each, and an update of a missing document fails.
- gorm joins a many2many relation by its keys alone, runs `BeforeDelete` for each model in the
  transaction, refuses a DELETE without a condition, and reports nothing when an insert with
  `DoNothing` met a duplicate; its hooks run all the same.
- A write to a connection after a failed one fails (gorilla/websocket).
- Constants (the modules' ASSUMEs): bounds are natural numbers and sets of requests finite.
  "Nobody", "none", "no row", "absent" and "guest" are values of their own, as NULL, the empty
  string and a zero id are in the code (`ArticlesAssumption`, `SearchAssumption`,
  `TalkAssumption`, `RefsAssumption`, `ConfigAssumption`, `RiverAssumption`: "none" is no row and
  no document; the channel to `syncLoop` has room for a message); the administrator of `Articles` is no
  author there. Of the site's settings only the AI's half has a secret. A code may be tried at
  least once (`SignUpAssumption`: `MaxFail` is the configured limit of wrong answers). A chunk
  holds more than a prefix and 32 characters (80000 in the code), weights are natural numbers
  and not all zero, scores and counts in a reply are integers; the default type of article is one
  of the types, and no normalised reply is the failure to get one (`ScoringAssumption`). The
  title of the default folder is one of the titles (`CountsAssumption`).
- A language model may answer with any of a small set of replies, well formed or not.

## 6. Where code and documents disagree

Kept as violation runs: `MCDiggClamp`, `MCAuthRevoke`, `MCImageAudit`, `MCArticleTags`,
`MCArticlePins` (see `findings`). Also met while modelling, most of them reachable in the
models, though no run is kept for them ("record" is
`.read/backend_development_record_document.md`):

Sessions, registration, configuration

- A login that compared the old password inserts its session after a password change
  has revoked all sessions (`PwdLogin`, `UpdatePasswordAndRevokeSessions`,
  `CreateLoginTokens`). Two concurrent password changes write the same `token_version`.
- A registration whose name is taken is told that its address is in use, and its retry loop
  never runs, as `DoNothing` reports no duplicate (`register_email.go:71-90`); the rows of the
  profile stay. Two first logins by QQ at once: the second fails (`qq_login.go:77`).
- An EXPIRE lost after its INCR leaves a window that never ends (`redis_auth.go:98-102`); a mail
  that could not be sent goes unnoticed (`email_service/enter.go:61`); the limit on changes of a
  username is read before it is written (`user_info_update.go:88-115`).
- Two configuration requests at once write into one struct (`site_info_update.go:14-17`), and a
  refused one leaves its fields there for the next; two updates of different halves can lose
  one, as each writes both; `global.Config` and the cache can be left from different updates.

Counts, favourites, comments, messages

- Two visits of a viewer at once are both counted (`Overlap = TRUE`); a visit whose
  expiry arrives after midnight deletes the marks of the new day (`Straddle = TRUE`).
- The displayed count, base plus active hash, falls while a round is between RENAME and
  its UPDATEs.
- A visit whose HSET, EXPIREAT or HINCRBY fails is answered with success; without its EXPIREAT
  the hash, and the viewer's exclusion from the count, outlives the day.
- A count that Redis refuses (favourites, comments, replies, tags) is logged and never made up
  for.
- Two removals of one comment or of one favourite both count it; a reply may be written under a
  comment that is being removed, and a comment published after its removal.
- A folder without favourites cannot be deleted, nor any list it is in; titles of deleted folders
  and tags stay taken, and the title of the default folder may be taken by another.
- A like is told twice when the look for its message fails, whatever the error
  (`article_message.go:69`), and when two goroutines look at once; two notices may get one title; the removal of
  a notice leaves rows of users who read it meanwhile (record:2459).

Articles and their index

- An update of tags alone is dropped (`article_update.go:96`); one of content and tags refreshes
  only the tags; an update or examination reads the status before it writes; an update may touch
  an article that was removed meanwhile; a pin placed beside a removal outlives it and takes a place.
- `BeforeDelete` lowers counts before the commit, which may not come; `TagDelete` checks outside
  of its transaction; `is_enabled: false` is stored as true on insert (gorm's default).
- The status of a document is written by nobody: the river's filter (`settings.yaml:193-208`)
  has neither `status` nor `deleted_at`, and `ArticleExamineView` refreshes nothing, so a
  published article is not found (record:2881 says that a search finds published articles only,
  record:1732 that the binlog adds and removes them).
- Two refreshes of one document may be applied out of order, and one right after the insert
  misses the document; the counts in the documents do not follow the job (record:3004-3007).
- A failed bulk does not stop the loop, and the next position passes it; the position file is
  replaced in a way that can tear it; an error in `ImageRefs`'s canal stops it for good.
- A reference may be written to an image that is being removed (record:1339).
- Documents that came by the binlog hold `comments_toggle` as 0 or 1, of which `sourceBoolValue`
  makes FALSE; the list of type 1 without a status lists all (`article_list.go:172`); a search of type 3
  without a user is one over all users.

Chat, images, locks, scoring

- Two tabs that mark the same messages as read lower the unread count twice; the slower of
  two clears sets the watermark back; a message that arrives during a clear is neither
  cleared nor counted.
- A push may find the connection closed between `Close` and `Unregister`; the write deadline is
  set outside of the mutex (`chat_online.go:71,99,176`).
- A parked verdict that a confirmation took with GETDEL is lost when its UPDATE fails
  (`image_audit.go:91`; only a warning), and so is one that waits for 24 hours.
- A job that outlives its 30 minutes, or a confirmation that outlives its 30 seconds,
  runs beside the next holder of its lock; the slow confirmation may write its failure
  over a ready task.
- An article of one chunk is sent twice, as first and as last (`ai_scoring.go:47,81`).

## 7. Not modelled, and the plan

Not worth modelling: captcha (a library that keeps its answers), prompts and streams of the AI
(calls of an external service), profiles, banners and data (single statements), lists and options
(reads), router, middleware and start-up (no state). Profile views repeat the mark of
`ViewCounter`. Parts of modelled components that are left out are named in `PROJECT.json`.

Branches that are left out, because no property depends on them: a send window that lets the
code through when Redis does not answer (`redis_auth.go:94-97`); a relation that reads as
"stranger" when the database fails (`follow.go:31-36`), which only lowers a quota; a
`master.yaml` cut off so that it can still be decoded (a torn file is fatal in the model, and
otherwise it would start a dump); `River.Close` at shutdown (the model's crash may come at any
step).

Planned next:

1. `LogQueue`: the bounded queue of log lines, its batches, and the shutdown.
2. `Chat`, the rest: the deletion of single messages.
