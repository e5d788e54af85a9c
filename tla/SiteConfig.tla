------------------------------ MODULE SiteConfig ------------------------------
(* The configuration that administrators change while the server runs      *)
(* (site_service/runtime_config.go, site_api): one row with two halves, two *)
(* copies in memory, and the structs that all requests are decoded into.   *)
(* Beside it the flow of visits of the site (redis_site).                  *)
EXTENDS Naturals, FiniteSets

CONSTANTS
  Fields,       \* half -> its fields
  Values,       \* what a request may set a field to, the placeholder included
  Placeholder,  \* "******", shown in the place of the secret
  Zero,         \* the zero value of a field
  Default,      \* the value in site_default_settings.yaml
  NoRow,        \* no row yet, no process
  Edits,        \* update requests, each made once
  Visits,       \* visits of the site, each made once
  KeepDays,     \* maxDailyFlowDays
  MaxDay        \* bound of the calendar

VARIABLES
  stored,     \* the row "default" of runtime_site_config_models
  config,     \* global.Config.Site and AI
  cache,      \* runtimeConfigCache
  shared,     \* confMap: the two structs every request is decoded into
  edit,
  committed,  \* history: the configurations there were
  asked,      \* history: what the last accepted request of each half asked for
  raced,      \* history: two updates were under way at once
  day,        \* the calendar
  total, daily,   \* blog_site_flow:total, blog_site_flow:daily
  visit,
  seen        \* history: visits counted on each day

confVars == <<stored, config, cache, shared, edit, committed, asked, raced>>
flowVars == <<day, total, daily, visit, seen>>
siteVars == <<confVars, flowVars>>

Halves == {"site", "ai"}
Filled(v) == [h \in Halves |-> [f \in Fields[h] |-> v]]
Nothing == [h \in Halves |-> << >>]
Bodies(h) == UNION {[S -> Values] : S \in SUBSET Fields[h]}
Running == config # NoRow
Idle == \A r \in Edits : edit[r].pc \in {"idle", "done"}

SiteInit ==
  /\ stored = NoRow /\ config = NoRow /\ cache = NoRow /\ shared = Filled(Zero)
  /\ edit = [r \in Edits |-> [pc |-> "idle"]]
  /\ committed = {} /\ asked = Nothing /\ raced = FALSE
  /\ day = 0 /\ total = 0 /\ daily = << >> /\ seen = [d \in 0..MaxDay |-> 0]
  /\ visit = [v \in Visits |-> [pc |-> "idle"]]

Goto(r, state) == edit' = [edit EXCEPT ![r] = state]
Half(r) == edit[r].half

(* InitRuntimeConfig: the row is created from the file when it is missing. *)
InitRuntimeConfig ==
  LET row == IF stored = NoRow THEN Filled(Default) ELSE stored IN
  /\ ~Running
  /\ stored' = row /\ config' = row /\ cache' = row /\ shared' = Filled(Zero)
  /\ committed' = committed \cup {row}
  /\ UNCHANGED <<edit, asked, raced, flowVars>>

Crash ==
  /\ Running /\ config' = NoRow /\ cache' = NoRow
  /\ edit' = [r \in Edits |-> IF edit[r].pc = "idle" THEN edit[r] ELSE [pc |-> "done"]]
  /\ UNCHANGED <<stored, shared, committed, asked, raced, flowVars>>

(***************************************************************************)
(* SiteUpdateView: the body is decoded into the struct of confMap, field   *)
(* by field; a field of a wrong type is skipped and the request refused    *)
(* once the others are set.                                                *)
(***************************************************************************)
Update(r, h, body, bad) ==
  /\ Running /\ edit[r].pc = "idle"
  /\ raced' = (raced \/ ~Idle)
  /\ Goto(r, [pc |-> "bind", half |-> h, body |-> body, left |-> DOMAIN body, bad |-> bad,
              want |-> [f \in DOMAIN body |-> IF body[f] = Placeholder /\ f = "secret" THEN stored.ai.secret ELSE body[f]]])
  /\ UNCHANGED <<stored, config, cache, shared, committed, asked, flowVars>>

BindField(r) ==
  /\ edit[r].pc = "bind"
  /\ \E f \in edit[r].left :
       /\ shared' = [shared EXCEPT ![Half(r)][f] = edit[r].body[f]]
       /\ Goto(r, [edit[r] EXCEPT !.left = @ \ {f}])
  /\ UNCHANGED <<stored, config, cache, committed, asked, raced, flowVars>>

Bound(r) ==
  /\ edit[r].pc = "bind" /\ edit[r].left = {}
  /\ Goto(r, IF edit[r].bad THEN [pc |-> "done"]
             ELSE [edit[r] EXCEPT !.pc = IF Half(r) = "ai" THEN "secret" ELSE "call"])
  /\ UNCHANGED <<stored, config, cache, shared, committed, asked, raced, flowVars>>

KeepSecret(r) ==
  /\ edit[r].pc = "secret" /\ Goto(r, [edit[r] EXCEPT !.pc = "call"])
  /\ shared' = IF shared.ai.secret = Placeholder THEN [shared EXCEPT !.ai.secret = cache.ai.secret] ELSE shared
  /\ UNCHANGED <<stored, config, cache, committed, asked, raced, flowVars>>

(* UpdateRuntimeSite, UpdateRuntimeAI: the struct is copied; a transaction *)
(* reads the row without a lock and writes both halves.                    *)
Call(r) ==
  /\ edit[r].pc = "call"
  /\ Goto(r, [pc |-> "read", half |-> Half(r), new |-> shared[Half(r)], want |-> edit[r].want])
  /\ UNCHANGED <<stored, config, cache, shared, committed, asked, raced, flowVars>>

ReadRow(r) ==
  /\ edit[r].pc = "read"
  /\ Goto(r, [pc |-> "write", half |-> Half(r), want |-> edit[r].want, row |-> [stored EXCEPT ![Half(r)] = edit[r].new]])
  /\ UNCHANGED <<stored, config, cache, shared, committed, asked, raced, flowVars>>

WriteRow(r) ==
  /\ edit[r].pc = "write"
  /\ stored' = edit[r].row /\ committed' = committed \cup {edit[r].row}
  /\ asked' = [asked EXCEPT ![Half(r)] = edit[r].want]
  /\ Goto(r, [pc |-> "config", row |-> edit[r].row])
  /\ UNCHANGED <<config, cache, shared, raced, flowVars>>

UpdateFails(r) ==                  \* a failed statement
  /\ edit[r].pc \in {"read", "write"} /\ Goto(r, [pc |-> "done"])
  /\ UNCHANGED <<stored, config, cache, shared, committed, asked, raced, flowVars>>

(* applyRuntimeConfig: global.Config, then the cache.                      *)
ApplyConfig(r) ==
  /\ edit[r].pc = "config" /\ config' = edit[r].row
  /\ Goto(r, [edit[r] EXCEPT !.pc = "cache"])
  /\ UNCHANGED <<stored, cache, shared, committed, asked, raced, flowVars>>

CacheKeepsOld(r) ==                \* mutant
  /\ edit[r].pc = "cache" /\ Goto(r, [pc |-> "done"])
  /\ UNCHANGED <<stored, config, cache, shared, committed, asked, raced, flowVars>>

SetRuntimeConfigCache(r) ==
  /\ edit[r].pc = "cache" /\ cache' = edit[r].row /\ Goto(r, [pc |-> "done"])
  /\ UNCHANGED <<stored, config, shared, committed, asked, raced, flowVars>>

-----------------------------------------------------------------------------
(***************************************************************************)
(* SetFlow: the day is taken, both counters go up in one transaction, the  *)
(* days that are too old are looked up and then deleted.                   *)
(***************************************************************************)
Count(d) == IF d \in DOMAIN daily THEN daily[d] ELSE 0
ExpiredDates(d) == {x \in DOMAIN daily : x + KeepDays <= d}
VisitAt(v, state) == visit' = [visit EXCEPT ![v] = state]

SetFlow(v) ==
  /\ visit[v].pc = "idle" /\ VisitAt(v, [pc |-> "count", day |-> day])
  /\ UNCHANGED <<confVars, day, total, daily, seen>>

CountVisit(v) ==
  LET d == visit[v].day IN
  /\ visit[v].pc = "count"
  /\ total' = total + 1 /\ daily' = [x \in (DOMAIN daily) \cup {d} |-> IF x = d THEN Count(d) + 1 ELSE daily[x]]
  /\ seen' = [seen EXCEPT ![d] = @ + 1]
  /\ VisitAt(v, [pc |-> "prune", day |-> d])
  /\ UNCHANGED <<confVars, day>>

FindExpired(v) ==
  /\ visit[v].pc = "prune" /\ VisitAt(v, [pc |-> "delete", days |-> ExpiredDates(visit[v].day)])
  /\ UNCHANGED <<confVars, day, total, daily, seen>>

DeleteExpired(v) ==
  /\ visit[v].pc = "delete" /\ VisitAt(v, [pc |-> "done"])
  /\ daily' = [x \in (DOMAIN daily) \ visit[v].days |-> daily[x]]
  /\ UNCHANGED <<confVars, day, total, seen>>

FlowFails(v) ==                    \* Redis does not answer: nothing more is done
  /\ visit[v].pc \in {"count", "prune", "delete"} /\ VisitAt(v, [pc |-> "done"])
  /\ UNCHANGED <<confVars, day, total, daily, seen>>

Midnight ==
  /\ day < MaxDay /\ day' = day + 1
  /\ UNCHANGED <<confVars, total, daily, visit, seen>>

(* GetRecentFlow, as GrowthDataView shows it.                              *)
RecentFlow(days) == [x \in {d \in 0..day : d + days > day} |-> Count(x)]

ConfNext ==
  \/ InitRuntimeConfig \/ Crash
  \/ \E r \in Edits :
       \/ \E h \in Halves, bad \in BOOLEAN : \E body \in Bodies(h) : Update(r, h, body, bad)
       \/ BindField(r) \/ Bound(r) \/ KeepSecret(r) \/ Call(r) \/ ReadRow(r) \/ WriteRow(r)
       \/ UpdateFails(r) \/ ApplyConfig(r) \/ SetRuntimeConfigCache(r)

FlowNext ==
  \/ Midnight
  \/ \E v \in Visits : SetFlow(v) \/ CountVisit(v) \/ FindExpired(v) \/ DeleteExpired(v) \/ FlowFails(v)

-----------------------------------------------------------------------------
Configuration == [site : [Fields.site -> Values \cup {Zero, Default}], ai : [Fields.ai -> Values \cup {Zero, Default}]]

SiteTypeOK ==
  /\ {stored, config, cache} \subseteq Configuration \cup {NoRow}
  /\ shared \in Configuration /\ committed \subseteq Configuration
  /\ raced \in BOOLEAN /\ day \in 0..MaxDay /\ total \in Nat /\ DOMAIN daily \subseteq 0..MaxDay

(* Nothing is in force that was not committed, however updates overlap,    *)
(* fail or are cut off.  When no two updates overlapped and none is under  *)
(* way, both copies in memory are the row, and the row has in both halves  *)
(* what the last accepted request asked for, the secret behind the         *)
(* placeholder included (runtime_config.go, site_info_update.go).          *)
ConfigKept ==
  Running =>
    /\ {config, cache} \subseteq committed
    /\ ~raced /\ Idle =>
         /\ config = stored /\ cache = stored
         /\ \A h \in Halves : \A f \in DOMAIN asked[h] : stored[h][f] = asked[h][f]

(* The flow of the last days is what was counted, however visits that     *)
(* began on different days delete the expired ones side by side            *)
(* (redis_site/enter.go).                                                  *)
FlowKept == \A d \in DOMAIN RecentFlow(KeepDays) : RecentFlow(KeepDays)[d] = seen[d]
=============================================================================
