---------------------------- MODULE AppLifecycle ----------------------------
(***************************************************************************)
(* The lifecycle of apps: platform.ts with the registry, the scheduler and *)
(* the event bus.  An administrator toggles apps by requests that overlap  *)
(* at every await; each write to core.apps has a moment at which the       *)
(* database executes it and a later one at which its answer is processed.  *)
(* Between two awaits JavaScript runs to completion, so everything there   *)
(* is one step: the hooks of the apps register without waiting.            *)
(***************************************************************************)
EXTENDS Integers, FiniteSets

CONSTANTS
    Apps,        \* installed apps with a backend module
    Requests,    \* concurrent PUT /api/core/apps/:id/enabled
    None,        \* no app, no record, no acknowledged toggle
    MaxToggles,  \* bound: requests sent
    MaxFailures  \* bound: failed migrations, hooks and writes, and crashes

ASSUME LimitsAssumption == MaxToggles \in Nat /\ MaxFailures \in Nat

VARIABLES
    up,       \* the backend serves
    record,   \* AppRegistry.records: status and enabled of an app
    apps,     \* the row of core.apps, None before the first start
    subs,     \* subscriptions of the event bus, by owner
    jobs,     \* owners whose job id the scheduler holds
    req,      \* the await a request stands at
    acked,    \* history: what the last acknowledged toggle of an app asked for
    clashed,  \* history: since the start, toggles of the app overlapped or a write failed
    toggles, failures

lifecycleVars == <<up, record, apps, subs, jobs, req, acked, clashed, toggles, failures>>
runtime == <<subs, jobs>>
history == <<acked, clashed>>

Record == [status : {"enabled", "disabled", "error"}, enabled : BOOLEAN]

ASSUME AppsAssumption == None \notin Apps /\ None \notin BOOLEAN /\ None \notin Record

\* Mutant: the "installed" of old.
StatusOfInstalled(enabled) ==
    [status |-> IF enabled THEN "enabled" ELSE "installed", enabled |-> enabled]

StatusOf(enabled) == [status |-> IF enabled THEN "enabled" ELSE "disabled", enabled |-> enabled]
InError(old) == [old EXCEPT !.status = "error"]

\* "update" and "mark": the write is on its way; "updated" and "marked": its answer is.
Awaits == {"idle", "update", "updated", "migrate", "mark", "marked"}

Request == [pc : Awaits, app : Apps \union {None}, want : BOOLEAN,
            write : Record \union {None},    \* what markError sends to core.apps
            then : {"return", "activate", "release"}]    \* what follows markError

IdleRequest == [pc |-> "idle", app |-> None, want |-> FALSE, write |-> None, then |-> "return"]

TypeOK ==
    /\ up \in BOOLEAN
    /\ record \in [Apps -> Record \union {None}]
    /\ apps \in [Apps -> Record \union {None}]
    /\ subs \in [Apps -> Nat]
    /\ jobs \subseteq Apps
    /\ req \in [Requests -> Request]
    /\ acked \in [Apps -> BOOLEAN \union {None}]
    /\ clashed \in [Apps -> BOOLEAN]
    /\ toggles \in Nat /\ failures \in Nat

Init ==
    /\ up = FALSE
    /\ record = [a \in Apps |-> None]
    /\ apps = [a \in Apps |-> None]
    /\ subs = [a \in Apps |-> 0]
    /\ jobs = {}
    /\ req = [w \in Requests |-> IdleRequest]
    /\ acked = [a \in Apps |-> None]
    /\ clashed = [a \in Apps |-> FALSE]
    /\ toggles = 0 /\ failures = 0

Failure == failures < MaxFailures /\ failures' = failures + 1

At(w, pc) == up /\ req[w].pc = pc

On(a) == {w \in Requests : req[w].app = a}

Goto(w, pc) == req' = [req EXCEPT ![w].pc = pc]

\* releaseAppResources: unsubscribeByOwner and stopByOwner.
Released(a) == subs' = [subs EXCEPT ![a] = 0] /\ jobs' = jobs \ {a}

-----------------------------------------------------------------------------
(***************************************************************************)
(* Start: registry.init, registerApi of every app, then the activation of  *)
(* the enabled ones.  No request is served before it is over.              *)
(***************************************************************************)
Started(enabled, fails) == IF fails THEN InError(StatusOf(enabled)) ELSE StatusOf(enabled)

\* An app without a row, or whose row could not be read, takes its default.  A failed upsert
\* is logged; an app that fails to start has two, and "late" lost only the second.
Boot(default, unread, failing, unsaved, late) ==
    LET intent == [a \in Apps |->
            IF unread \/ apps[a] = None THEN default[a] ELSE apps[a].enabled]
        started == [a \in Apps |-> Started(intent[a], a \in failing)]
        active == {a \in Apps : started[a].status = "enabled"}
    IN  /\ ~up
        /\ IF failing \union unsaved = {} /\ ~unread THEN UNCHANGED failures ELSE Failure
        /\ up' = TRUE
        /\ record' = started
        /\ apps' = [a \in Apps |-> IF a \in late THEN StatusOf(intent[a])
                                   ELSE IF a \in unsaved THEN apps[a] ELSE started[a]]
        /\ subs' = [a \in Apps |-> IF a \in active THEN 1 ELSE 0]
        /\ jobs' = active
        /\ acked' = [a \in Apps |-> IF clashed[a] \/ unread THEN None ELSE acked[a]]
        /\ clashed' = [a \in Apps |-> a \in unsaved]
        /\ UNCHANGED <<req, toggles>>

Crash ==
    /\ up /\ Failure
    /\ up' = FALSE
    /\ subs' = [a \in Apps |-> 0]
    /\ jobs' = {}
    /\ req' = [w \in Requests |-> IdleRequest]
    /\ UNCHANGED <<record, apps, history, toggles>>

-----------------------------------------------------------------------------
(***************************************************************************)
(* setAppEnabled.                                                          *)
(***************************************************************************)
\* registry.setEnabled sends the UPDATE.
Send(w, a, want) ==
    /\ At(w, "idle") /\ toggles < MaxToggles
    /\ toggles' = toggles + 1
    /\ req' = [req EXCEPT ![w] = [IdleRequest EXCEPT !.pc = "update", !.app = a, !.want = want]]
    /\ acked' = [acked EXCEPT ![a] = None]
    /\ clashed' = [clashed EXCEPT ![a] = @ \/ On(a) # {}]
    /\ UNCHANGED <<up, record, apps, runtime, failures>>

\* The database executes persistEnabled: an UPDATE, which makes no row.
Update(w) ==
    /\ At(w, "update")
    /\ apps' = [apps EXCEPT ![req[w].app] = IF @ = None THEN None ELSE StatusOf(req[w].want)]
    /\ Goto(w, "updated")
    /\ UNCHANGED <<up, record, runtime, history, toggles, failures>>

\* The write fails, or its answer is lost: the request ends with an error.
UpdateFails(w) ==
    /\ At(w, "update") \/ At(w, "updated")
    /\ Failure
    /\ req' = [req EXCEPT ![w] = IdleRequest]
    /\ clashed' = [clashed EXCEPT ![req[w].app] = TRUE]
    /\ UNCHANGED <<up, record, apps, runtime, acked, toggles>>

Return(w) ==
    /\ req' = [req EXCEPT ![w] = IdleRequest]
    /\ acked' = [acked EXCEPT ![req[w].app] =
                    IF On(req[w].app) = {w} THEN req[w].want ELSE None]

\* Its answer: the new state is stored and the resources are released.
Toggle(w) ==
    LET a == req[w].app
    IN  /\ At(w, "updated")
        /\ record' = [record EXCEPT ![a] = StatusOf(req[w].want)]
        /\ Released(a)
        /\ IF req[w].want THEN Goto(w, "migrate") /\ UNCHANGED acked ELSE Return(w)
        /\ UNCHANGED <<up, apps, clashed, toggles, failures>>

\* Mutant: an error takes the intent back.
MarkedOff(w, then) ==
    /\ record' = [record EXCEPT ![req[w].app] = [status |-> "error", enabled |-> FALSE]]
    /\ req' = [req EXCEPT ![w].pc = "mark", ![w].then = then,
                          ![w].write = [status |-> "error", enabled |-> FALSE]]

\* markError: the record of now, with status error, goes to core.apps.
Marked(w, then) ==
    LET updated == InError(record[req[w].app])
    IN  /\ record' = [record EXCEPT ![req[w].app] = updated]
        /\ req' = [req EXCEPT ![w].pc = "mark", ![w].then = then, ![w].write = updated]

MigrationFails(w) ==
    /\ At(w, "migrate") /\ Failure
    /\ Marked(w, "activate")
    /\ UNCHANGED <<up, apps, runtime, history, toggles>>

\* activateApp: both hooks run.
Activated(w) ==
    /\ subs' = [subs EXCEPT ![req[w].app] = 1]
    /\ jobs' = jobs \union {req[w].app}
    /\ Return(w)
    /\ UNCHANGED record

\* A hook throws: what was registered before stays until markError has returned.
HookThrows(w) ==
    LET a == req[w].app
    IN  /\ Failure
        /\ \/ subs' = [subs EXCEPT ![a] = 0] /\ jobs' = jobs \ {a}
           \/ subs' = [subs EXCEPT ![a] = 1] /\ jobs' \in {jobs \ {a}, jobs \union {a}}
        /\ Marked(w, "release")
        /\ UNCHANGED acked

\* The migration is over (or its failure is recorded): only an app that is enabled now
\* is activated.
Activate(w) ==
    /\ record[req[w].app].status = "enabled"
    /\ \/ Activated(w) /\ UNCHANGED failures
       \/ HookThrows(w)

Skip(w) ==
    /\ record[req[w].app].status # "enabled"
    /\ Return(w)
    /\ UNCHANGED <<record, runtime, failures>>

\* Mutant: the status is not looked at again after the migration.
MigratedBlindly(w) ==
    /\ At(w, "migrate")
    /\ Activated(w)
    /\ UNCHANGED <<up, apps, clashed, toggles, failures>>

Migrated(w) ==
    /\ At(w, "migrate")
    /\ Activate(w) \/ Skip(w)
    /\ UNCHANGED <<up, apps, clashed, toggles>>

\* The database executes the write of markError.
Persist(w) ==
    /\ At(w, "mark")
    /\ apps' = [apps EXCEPT ![req[w].app] = req[w].write]
    /\ Goto(w, "marked")
    /\ UNCHANGED <<up, record, runtime, history, toggles, failures>>

\* A failed write is logged and the request goes on.
PersistFails(w) ==
    /\ At(w, "mark") /\ Failure
    /\ Goto(w, "marked")
    /\ clashed' = [clashed EXCEPT ![req[w].app] = TRUE]
    /\ UNCHANGED <<up, record, apps, runtime, acked, toggles>>

\* Mutant: a failed activation keeps what it registered.
AfterErrorKeeps(w) ==
    /\ At(w, "marked")
    /\ \/ req[w].then = "release" /\ Return(w) /\ UNCHANGED <<record, runtime, failures>>
       \/ req[w].then = "activate" /\ (Activate(w) \/ Skip(w))
    /\ UNCHANGED <<up, apps, clashed, toggles>>

AfterError(w) ==
    /\ At(w, "marked")
    /\ \/ /\ req[w].then = "release"
          /\ Released(req[w].app) /\ Return(w)
          /\ UNCHANGED <<record, failures>>
       \/ req[w].then = "activate" /\ (Activate(w) \/ Skip(w))
    /\ UNCHANGED <<up, apps, clashed, toggles>>

-----------------------------------------------------------------------------
SetAppEnabled(w) ==
    \/ \E a \in Apps, want \in BOOLEAN : Send(w, a, want)
    \/ Update(w) \/ UpdateFails(w) \/ Toggle(w)
    \/ MigrationFails(w) \/ Migrated(w)
    \/ Persist(w) \/ PersistFails(w) \/ AfterError(w)

Start ==
    \E default \in [Apps -> BOOLEAN], unread \in BOOLEAN, failing, unsaved, late \in SUBSET Apps :
        late \subseteq failing \intersect unsaved /\ Boot(default, unread, failing, unsaved, late)

LifecycleNext == Start \/ Crash \/ \E w \in Requests : SetAppEnabled(w)

LifecycleSpec == Init /\ [][LifecycleNext]_lifecycleVars

-----------------------------------------------------------------------------
\* A disabled app has no job and no subscription, however requests interleave.
DisabledIsQuiet ==
    \A a \in Apps : up /\ record[a].status = "disabled" => subs[a] = 0 /\ a \notin jobs

Settled(a) == up /\ On(a) = {} /\ ~clashed[a]

\* Once its toggles are over, and none overlapped, the API and core.apps tell the same of
\* an app, and it runs exactly when they say "enabled": also after failed hooks and migrations.
RunsWhileEnabled ==
    \A a \in Apps : Settled(a) =>
        /\ apps[a] = record[a]
        /\ a \in jobs <=> record[a].status = "enabled"
        /\ subs[a] = IF a \in jobs THEN 1 ELSE 0

\* What an administrator was told is what core.apps keeps, through failed activations,
\* crashes and restarts, unless a start could not read it and wrote the defaults.
IntentKept ==
    \A a \in Apps : acked[a] # None /\ ~clashed[a] => apps[a].enabled = acked[a]

\* A job of an app nobody is toggling belongs to an enabled app.
JobsWhileEnabled == \A a \in jobs : On(a) = {} => record[a].status = "enabled"
=============================================================================
