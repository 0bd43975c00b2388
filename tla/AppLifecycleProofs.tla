------------------------- MODULE AppLifecycleProofs -------------------------
(***************************************************************************)
(* The lifecycle of apps, for any number of apps and requests.             *)
(***************************************************************************)
EXTENDS AppLifecycle, TLAPS

Quiet(a) == subs[a] = 0 /\ a \notin jobs
Running(a) == subs[a] = 1 /\ a \in jobs
Accurate(a) == IF record[a].status = "enabled" THEN Running(a) ELSE Quiet(a)

\* Requests are about apps; a stopped server serves none, a running one knows every app.
ServingOK ==
    /\ \A w \in Requests : req[w].pc = "idle" <=> req[w].app = None
    /\ \A w \in Requests : req[w].pc = "mark" => req[w].write # None
    /\ ~up => \A w \in Requests : req[w].app = None
    /\ up => \A a \in Apps : record[a] # None /\ (~clashed[a] => apps[a] # None)

\* What a request that is alone on its app has achieved when it waits.
Fits(x, a) ==
    /\ x.pc = "update" => apps[a] = record[a] /\ Accurate(a)
    /\ x.pc = "updated" => apps[a] = StatusOf(x.want)
    /\ x.pc \in {"migrate", "mark", "marked"} => x.want
    /\ x.pc = "migrate" => apps[a] = StatusOf(TRUE) /\ record[a] = StatusOf(TRUE) /\ Quiet(a)
    /\ x.pc \in {"mark", "marked"} =>
          /\ record[a] = InError(StatusOf(TRUE))
          /\ x.then = "activate" => Quiet(a)
    /\ x.pc = "mark" => x.write = record[a] /\ apps[a].enabled
    /\ x.pc = "marked" => apps[a] = record[a]

AppOK(a) ==
    ~clashed[a] =>
        /\ \A w, v \in Requests : req[w].app = a /\ req[v].app = a => w = v
        /\ \A w \in Requests : req[w].app = a => Fits(req[w], a)
        /\ up /\ On(a) = {} => apps[a] = record[a] /\ Accurate(a)
        /\ acked[a] # None => On(a) = {} /\ apps[a] # None /\ apps[a].enabled = acked[a]

LInv == TypeOK /\ ServingOK /\ DisabledIsQuiet /\ \A a \in Apps : AppOK(a)
-----------------------------------------------------------------------------
(***************************************************************************)
(* Types.                                                                  *)
(***************************************************************************)
\* StatusOf and InError make records.
LEMMA RecordType ==
    /\ \A enabled \in BOOLEAN : StatusOf(enabled) \in Record
    /\ \A old \in Record : InError(old) \in Record
    /\ \A enabled \in BOOLEAN, fails \in BOOLEAN : Started(enabled, fails) \in Record
BY DEF StatusOf, InError, Record, Started

\* An idle request is a request.
LEMMA IdleType == IdleRequest \in Request
BY DEF IdleRequest, Request, Awaits

\* The count of failures stays a number.
LEMMA FailureType == TypeOK /\ Failure => failures' \in Nat
BY DEF TypeOK, Failure

\* A request that waits is about an app, whose record is known.
LEMMA Waiting ==
    ASSUME LInv, NEW w \in Requests, up, req[w].pc # "idle"
    PROVE  /\ req[w].app \in Apps
           /\ record[req[w].app] \in Record
           /\ InError(record[req[w].app]) \in Record
BY RecordType DEF LInv, ServingOK, TypeOK, Request

\* An await that goes on keeps the request a request.
LEMMA GotoType ==
    ASSUME TypeOK, NEW w \in Requests, NEW pc \in Awaits, Goto(w, pc)
    PROVE  req' \in [Requests -> Request]
<1>1. [req[w] EXCEPT !.pc = pc] \in Request
  BY DEF TypeOK, Request
<1> QED BY <1>1 DEF Goto, TypeOK

\* The end of a request.
LEMMA ReturnType ==
    ASSUME TypeOK, NEW w \in Requests, req[w].app \in Apps, Return(w)
    PROVE  req' \in [Requests -> Request] /\ acked' \in [Apps -> BOOLEAN \union {None}]
<1>1. req[w].want \in BOOLEAN
  BY DEF TypeOK, Request
<1> QED BY <1>1, IdleType DEF Return, TypeOK

\* markError.
LEMMA MarkedType ==
    ASSUME TypeOK, NEW w \in Requests, NEW then \in {"activate", "release"},
           req[w].app \in Apps, InError(record[req[w].app]) \in Record, Marked(w, then)
    PROVE  req' \in [Requests -> Request] /\ record' \in [Apps -> Record \union {None}]
<1> DEFINE updated == InError(record[req[w].app])
           y == [req[w] EXCEPT !.pc = "mark", !.then = then, !.write = updated]
<1>1. y \in Request
  BY DEF TypeOK, Request, Awaits
<1>2. req' = [req EXCEPT ![w] = y]
  BY DEF Marked, TypeOK, Request
<1> HIDE DEF y
<1> QED BY <1>1, <1>2 DEF Marked, TypeOK

\* activateApp, or nothing.
LEMMA ActivateType ==
    ASSUME TypeOK, NEW w \in Requests, req[w].app \in Apps,
           InError(record[req[w].app]) \in Record,
           Activate(w) \/ Skip(w)
    PROVE  /\ record' \in [Apps -> Record \union {None}]
           /\ subs' \in [Apps -> Nat] /\ jobs' \subseteq Apps
           /\ req' \in [Requests -> Request]
           /\ acked' \in [Apps -> BOOLEAN \union {None}]
           /\ failures' \in Nat
<1>1. CASE Activated(w) /\ UNCHANGED failures
  BY <1>1, ReturnType DEF Activated, TypeOK
<1>2. CASE HookThrows(w)
  <2>1. req' \in [Requests -> Request] /\ record' \in [Apps -> Record \union {None}]
    BY <1>2, MarkedType DEF HookThrows
  <2> QED BY <1>2, <2>1 DEF HookThrows, Failure, TypeOK
<1>3. CASE Skip(w)
  BY <1>3, ReturnType DEF Skip, runtime, TypeOK
<1> QED BY <1>1, <1>2, <1>3 DEF Activate

\* Every step keeps the types.
LEMMA TypeStep == LInv /\ [LifecycleNext]_lifecycleVars => TypeOK'
<1> SUFFICES ASSUME LInv, [LifecycleNext]_lifecycleVars PROVE TypeOK'
  OBVIOUS
<1> USE DEF LInv
<1>1. CASE Start
  <2> PICK default \in [Apps -> BOOLEAN], unread \in BOOLEAN, failing \in SUBSET Apps,
           unsaved \in SUBSET Apps, late \in SUBSET Apps :
             Boot(default, unread, failing, unsaved, late)
    BY <1>1 DEF Start
  <2> DEFINE intent == [a \in Apps |->
                IF unread \/ apps[a] = None THEN default[a] ELSE apps[a].enabled]
             started == [a \in Apps |-> Started(intent[a], a \in failing)]
  <2>1. \A a \in Apps : intent[a] \in BOOLEAN
    BY DEF TypeOK, Record
  <2>2. \A a \in Apps : started[a] \in Record /\ StatusOf(intent[a]) \in Record
    <3> TAKE a \in Apps
    <3>1. (a \in failing) \in BOOLEAN
      OBVIOUS
    <3>2. started[a] = Started(intent[a], a \in failing)
      OBVIOUS
    <3> HIDE DEF intent, started
    <3> QED BY <2>1, <3>1, <3>2, RecordType, Zenon
  <2>3. /\ record' = started /\ up' = TRUE
        /\ apps' = [a \in Apps |-> IF a \in late THEN StatusOf(intent[a])
                                   ELSE IF a \in unsaved THEN apps[a] ELSE started[a]]
        /\ subs' = [a \in Apps |-> IF a \in {c \in Apps : started[c].status = "enabled"}
                                   THEN 1 ELSE 0]
        /\ jobs' = {c \in Apps : started[c].status = "enabled"}
        /\ acked' = [a \in Apps |-> IF clashed[a] \/ unread THEN None ELSE acked[a]]
        /\ clashed' = [a \in Apps |-> a \in unsaved]
        /\ UNCHANGED <<req, toggles>>
        /\ failures' \in Nat
    <3>1. failures' \in Nat
      BY FailureType DEF Boot, TypeOK
    <3> QED BY <3>1, Zenon DEF Boot
  <2>4. started \in [Apps -> Record \union {None}]
    BY <2>2, Zenon
  <2> HIDE DEF started, intent
  <2>5. apps' \in [Apps -> Record \union {None}]
    BY <2>2, <2>3 DEF TypeOK
  <2>6. acked' \in [Apps -> BOOLEAN \union {None}]
    BY <2>3, Zenon DEF TypeOK
  <2>7. clashed' \in [Apps -> BOOLEAN]
    BY <2>3
  <2> QED BY <2>3, <2>4, <2>5, <2>6, <2>7 DEF TypeOK
<1>2. CASE Crash
  <2>1. failures' \in Nat
    BY <1>2, FailureType DEF Crash
  <2>2. up' \in BOOLEAN /\ subs' \in [Apps -> Nat] /\ jobs' \subseteq Apps
    BY <1>2 DEF Crash
  <2>3. req' \in [Requests -> Request]
    BY <1>2, IdleType DEF Crash
  <2> QED BY <1>2, <2>1, <2>2, <2>3, Zenon DEF Crash, history, TypeOK
<1>3. ASSUME NEW w \in Requests, SetAppEnabled(w) PROVE TypeOK'
  <2>1. ASSUME NEW a \in Apps, NEW want \in BOOLEAN, Send(w, a, want) PROVE TypeOK'
    <3>1. [IdleRequest EXCEPT !.pc = "update", !.app = a, !.want = want] \in Request
      BY DEF IdleRequest, Request, Awaits
    <3>2. \A c \in Apps : (clashed[c] \/ On(c) # {}) \in BOOLEAN
      OBVIOUS
    <3> QED BY <2>1, <3>1, <3>2 DEF Send, runtime, TypeOK
  <2>2. CASE Update(w)
    <3>1. req[w].app \in Apps /\ StatusOf(req[w].want) \in Record
      BY <2>2, Waiting, RecordType DEF Update, At, TypeOK, Request
    <3> QED BY <2>2, <3>1, GotoType DEF Update, Awaits, runtime, history, TypeOK
  <2>3. CASE UpdateFails(w)
    <3>1. failures' \in Nat
      BY <2>3, FailureType DEF UpdateFails
    <3>2. clashed' \in [Apps -> BOOLEAN]
      BY <2>3 DEF UpdateFails, TypeOK
    <3>3. req' \in [Requests -> Request]
      BY <2>3, IdleType DEF UpdateFails, TypeOK
    <3> QED BY <2>3, <3>1, <3>2, <3>3, Zenon DEF UpdateFails, runtime, TypeOK
  <2>4. CASE Toggle(w)
    <3>1. req[w].app \in Apps /\ StatusOf(req[w].want) \in Record
      BY <2>4, Waiting, RecordType DEF Toggle, At, TypeOK, Request
    <3>2. req' \in [Requests -> Request] /\ acked' \in [Apps -> BOOLEAN \union {None}]
      BY <2>4, <3>1, GotoType, ReturnType DEF Toggle, Awaits, TypeOK
    <3> QED BY <2>4, <3>1, <3>2 DEF Toggle, Released, TypeOK
  <2>5. CASE MigrationFails(w)
    <3>1. req[w].app \in Apps /\ InError(record[req[w].app]) \in Record
      BY <2>5, Waiting DEF MigrationFails, At
    <3>2. req' \in [Requests -> Request] /\ record' \in [Apps -> Record \union {None}]
      BY <2>5, <3>1, MarkedType DEF MigrationFails
    <3> QED BY <2>5, <3>2 DEF MigrationFails, Failure, runtime, history, TypeOK
  <2>6. CASE Migrated(w)
    <3>1. req[w].app \in Apps /\ InError(record[req[w].app]) \in Record
      BY <2>6, Waiting DEF Migrated, At
    <3> QED BY <2>6, <3>1, ActivateType DEF Migrated, TypeOK
  <2>7. CASE Persist(w)
    <3>1. req[w].app \in Apps /\ req[w].write \in Record \union {None}
      BY <2>7, Waiting DEF Persist, At, TypeOK, Request
    <3> QED BY <2>7, <3>1, GotoType DEF Persist, Awaits, runtime, history, TypeOK
  <2>8. CASE PersistFails(w)
    <3>1. failures' \in Nat
      BY <2>8, FailureType DEF PersistFails
    <3>2. clashed' \in [Apps -> BOOLEAN]
      BY <2>8 DEF PersistFails, TypeOK
    <3>3. req' \in [Requests -> Request]
      BY <2>8, GotoType DEF PersistFails, Awaits
    <3> QED BY <2>8, <3>1, <3>2, <3>3, Zenon DEF PersistFails, runtime, TypeOK
  <2>9. CASE AfterError(w)
    <3>1. req[w].app \in Apps /\ InError(record[req[w].app]) \in Record
      BY <2>9, Waiting DEF AfterError, At
    <3>2. CASE Activate(w) \/ Skip(w)
      BY <2>9, <3>1, <3>2, ActivateType DEF AfterError, TypeOK
    <3>3. CASE Released(req[w].app) /\ Return(w) /\ UNCHANGED <<record, failures>>
      BY <2>9, <3>1, <3>3, ReturnType DEF AfterError, Released, TypeOK
    <3> QED BY <2>9, <3>2, <3>3 DEF AfterError
  <2> QED BY <1>3, <2>1, <2>2, <2>3, <2>4, <2>5, <2>6, <2>7, <2>8, <2>9 DEF SetAppEnabled
<1>4. CASE UNCHANGED lifecycleVars
  BY <1>4 DEF lifecycleVars, TypeOK
<1> QED BY <1>1, <1>2, <1>3, <1>4 DEF LifecycleNext
-----------------------------------------------------------------------------
(***************************************************************************)
(* A step of a request touches one app.                                    *)
(***************************************************************************)
\* Nothing of the app and of its requests changes.
Untouched(b) ==
    /\ up' = up
    /\ record'[b] = record[b] /\ apps'[b] = apps[b] /\ subs'[b] = subs[b]
    /\ b \in jobs' <=> b \in jobs
    /\ acked'[b] = acked[b] /\ clashed'[b] = clashed[b]
    /\ \A v \in Requests : req'[v].app = b \/ req[v].app = b => req'[v] = req[v]

\* The step is request w's, and about app a.
Local(w, a) ==
    /\ up /\ up'
    /\ \A b \in Apps \ {a} :
          /\ record'[b] = record[b] /\ apps'[b] = apps[b] /\ subs'[b] = subs[b]
          /\ b \in jobs' <=> b \in jobs
          /\ acked'[b] = acked[b] /\ clashed'[b] = clashed[b]
    /\ \A v \in Requests \ {w} : req'[v] = req[v]
    /\ req[w].app \in {a, None} /\ req'[w].app \in {a, None}
    /\ clashed[a] => clashed'[a]

\* An app that is not touched is as right as before.
LEMMA Frame ==
    ASSUME NEW b \in Apps, AppOK(b), Untouched(b)
    PROVE  AppOK(b)'
<1>1. On(b)' = On(b)
  BY DEF Untouched, On
<1>2. Accurate(b)' = Accurate(b)
  BY DEF Untouched, Accurate, Running, Quiet
<1>3. \A v \in Requests : req'[v].app = b => req[v].app = b /\ Fits(req[v], b)' = Fits(req[v], b)
  BY <1>2 DEF Untouched, Fits, Quiet
<1> QED BY <1>1, <1>2, <1>3 DEF Untouched, AppOK

\* So a step of a request leaves the other apps alone.
LEMMA Others ==
    ASSUME LInv, NEW w \in Requests, NEW a \in Apps, Local(w, a), NEW b \in Apps, b # a
    PROVE  AppOK(b)'
<1>1. Untouched(b)
  BY AppsAssumption DEF Local, Untouched
<1> QED BY <1>1, Frame DEF LInv

\* A request without rival is the only one on its app, and nothing is acknowledged yet.
LEMMA Alone ==
    ASSUME LInv, NEW w \in Requests, NEW a \in Apps, req[w].app = a, ~clashed[a]
    PROVE  On(a) = {w} /\ acked[a] = None /\ Fits(req[w], a)
BY DEF LInv, AppOK, On

\* A request that goes on waiting on its app.
LEMMA Stays ==
    ASSUME LInv, NEW w \in Requests, NEW a \in Apps, Local(w, a), req'[w].app = a,
           ~clashed'[a] => On(a) \subseteq {w} /\ acked'[a] = None /\ Fits(req[w], a)'
    PROVE  \A b \in Apps : AppOK(b)'
<1>1. AppOK(a)'
  <2>1. ~clashed'[a] => \A v \in Requests : req'[v].app = a => v = w
    BY DEF Local, On
  <2>2. w \in On(a)'
    BY DEF On
  <2> QED BY <2>1, <2>2 DEF AppOK
<1> QED BY <1>1, Others

\* A request that is answered.
LEMMA Leaves ==
    ASSUME LInv, NEW w \in Requests, NEW a \in Apps, Local(w, a), req'[w].app = None,
           ~clashed'[a] => /\ On(a) \subseteq {w}
                           /\ apps'[a] = record'[a] /\ Accurate(a)'
                           /\ acked'[a] # None => apps'[a] # None /\ apps'[a].enabled = acked'[a]
    PROVE  \A b \in Apps : AppOK(b)'
<1>1. AppOK(a)'
  <2>1. ~clashed'[a] => \A v \in Requests : req'[v].app # a
    BY AppsAssumption DEF Local, On
  <2>2. ~clashed'[a] => On(a)' = {}
    BY <2>1 DEF On
  <2> QED BY <2>1, <2>2 DEF AppOK
<1> QED BY <1>1, Others

\* Whether the server knows its apps and serves nobody when it is down.
LEMMA StillServing ==
    ASSUME LInv, NEW w \in Requests, NEW a \in Apps, Local(w, a),
           req'[w].pc = "idle" <=> req'[w].app = None,
           req'[w].pc = "mark" => req'[w].write # None,
           record'[a] # None, ~clashed'[a] => apps'[a] # None
    PROVE  ServingOK'
BY DEF LInv, ServingOK, Local

\* Resources of a disabled app, on a step about one app.
LEMMA StillQuiet ==
    ASSUME LInv, NEW w \in Requests, NEW a \in Apps, Local(w, a),
           record'[a].status = "disabled" => Quiet(a)'
    PROVE  DisabledIsQuiet'
BY DEF LInv, DisabledIsQuiet, Local, Quiet

-----------------------------------------------------------------------------
(***************************************************************************)
(* The steps of setAppEnabled.                                             *)
(***************************************************************************)
Kept == ServingOK' /\ DisabledIsQuiet' /\ \A b \in Apps : AppOK(b)'

\* A new request: its app is as it was, and clashes if another one is under way.
LEMMA SendKept ==
    ASSUME LInv, NEW w \in Requests, NEW a \in Apps, NEW want \in BOOLEAN, Send(w, a, want)
    PROVE  Kept
<1> DEFINE x == [IdleRequest EXCEPT !.pc = "update", !.app = a, !.want = want]
<1>1. x.pc = "update" /\ x.app = a
  BY DEF IdleRequest
<1>2. req' = [req EXCEPT ![w] = x] /\ req'[w] = x
  BY DEF Send, LInv, TypeOK
<1> HIDE DEF x
<1>3. req[w].app = None
  BY DEF Send, At, LInv, ServingOK
<1>4. clashed' = [clashed EXCEPT ![a] = clashed[a] \/ On(a) # {}]
  BY DEF Send
<1>5. clashed'[a] <=> clashed[a] \/ On(a) # {}
  BY <1>4, Zenon DEF LInv, TypeOK
<1>6. Local(w, a)
  BY <1>1, <1>2, <1>3, <1>4, <1>5 DEF Send, At, Local, runtime, LInv, TypeOK
<1>7. ~clashed'[a] => apps[a] = record[a] /\ Accurate(a)
  BY <1>5 DEF Send, At, LInv, AppOK
<1>8. Accurate(a)' = Accurate(a)
  BY DEF Send, runtime, Accurate, Running, Quiet
<1>9. ~clashed'[a] => Fits(req[w], a)'
  BY <1>1, <1>2, <1>7, <1>8 DEF Send, Fits
<1>10. \A b \in Apps : AppOK(b)'
  BY <1>1, <1>2, <1>5, <1>6, <1>9, Stays DEF Send, LInv, TypeOK
<1>11. ServingOK'
  BY <1>1, <1>2, <1>5, <1>6, AppsAssumption, StillServing DEF Send, At, LInv, ServingOK
<1>12. DisabledIsQuiet'
  BY DEF Send, runtime, LInv, DisabledIsQuiet
<1> QED BY <1>10, <1>11, <1>12 DEF Kept

\* What the two states of a toggled app say.
LEMMA StatusFacts ==
    /\ \A enabled \in BOOLEAN :
          /\ StatusOf(enabled).enabled = enabled
          /\ StatusOf(enabled).status = (IF enabled THEN "enabled" ELSE "disabled")
          /\ StatusOf(enabled) # None
    /\ \A old \in Record : /\ InError(old).enabled = old.enabled
                           /\ InError(old).status = "error"
                           /\ InError(old) # None
BY RecordType, AppsAssumption DEF StatusOf, InError, Record

\* The UPDATE of the intent is executed: core.apps is ahead of the record.
LEMMA UpdateKept ==
    ASSUME LInv, NEW w \in Requests, NEW a \in Apps, req[w].app = a, Update(w)
    PROVE  Kept
<1>1. a # None /\ req[w].want \in BOOLEAN
  BY AppsAssumption DEF LInv, TypeOK, Request
<1>2. req'[w].pc = "updated" /\ req'[w].app = a /\ req'[w].want = req[w].want
  BY DEF Update, Goto, LInv, TypeOK, Request
<1>3. Local(w, a)
  BY <1>1, <1>2 DEF Update, At, Goto, Local, runtime, history, LInv, TypeOK
<1>4. ~clashed'[a] => apps'[a] = StatusOf(req[w].want) /\ apps'[a] # None
  BY <1>1, StatusFacts DEF Update, At, history, LInv, TypeOK, ServingOK
<1>5. ~clashed'[a] => Fits(req[w], a)'
  BY <1>2, <1>4 DEF Fits
<1>6. \A b \in Apps : AppOK(b)'
  BY <1>1, <1>2, <1>3, <1>5, Stays, Alone DEF Update, history
<1>7. ServingOK' /\ DisabledIsQuiet'
  BY <1>1, <1>2, <1>3, <1>4, StillServing, StillQuiet
     DEF Update, At, runtime, Quiet, LInv, ServingOK, DisabledIsQuiet
<1> QED BY <1>6, <1>7 DEF Kept

\* The end of a request: it is idle, and an acknowledgement is what it asked for.
LEMMA ReturnFacts ==
    ASSUME LInv, NEW w \in Requests, Return(w), req[w].app \in Apps
    PROVE  /\ req'[w].pc = "idle" /\ req'[w].app = None
           /\ \A v \in Requests \ {w} : req'[v] = req[v]
           /\ acked'[req[w].app] \in {req[w].want, None}
           /\ \A b \in Apps \ {req[w].app} : acked'[b] = acked[b]
BY DEF Return, IdleRequest, LInv, TypeOK

\* The write of persistEnabled failed, or its answer is lost: the app counts as clashed.
LEMMA UpdateFailsKept ==
    ASSUME LInv, NEW w \in Requests, NEW a \in Apps, req[w].app = a, UpdateFails(w)
    PROVE  Kept
<1>1. a # None
  BY AppsAssumption
<1>2. req'[w].pc = "idle" /\ req'[w].app = None /\ clashed'[a]
  BY <1>1 DEF UpdateFails, IdleRequest, LInv, TypeOK
<1>3. Local(w, a)
  BY <1>1, <1>2 DEF UpdateFails, At, Local, runtime, LInv, TypeOK
<1>4. \A b \in Apps : AppOK(b)'
  BY <1>1, <1>2, <1>3, Leaves
<1>5. ServingOK' /\ DisabledIsQuiet'
  BY <1>1, <1>2, <1>3, StillServing, StillQuiet
     DEF UpdateFails, At, runtime, Quiet, LInv, ServingOK, DisabledIsQuiet
<1> QED BY <1>4, <1>5 DEF Kept

\* Its answer: the record follows, and nothing of the app is registered any more.
LEMMA ToggleKept ==
    ASSUME LInv, NEW w \in Requests, NEW a \in Apps, req[w].app = a, Toggle(w)
    PROVE  Kept
<1>1. a # None /\ req[w].want \in BOOLEAN
  BY AppsAssumption DEF LInv, TypeOK, Request
<1>2. record'[a] = StatusOf(req[w].want) /\ record'[a] # None /\ Quiet(a)' /\ apps' = apps
  BY <1>1, StatusFacts DEF Toggle, Released, Quiet, LInv, TypeOK
<1>3. ~clashed'[a] => /\ ~clashed[a] /\ On(a) = {w} /\ acked[a] = None
                      /\ apps'[a] = StatusOf(req[w].want)
  BY <1>1, Alone DEF Toggle, At, Fits
<1>4. ~clashed'[a] => apps'[a] # None
  BY <1>1, <1>2 DEF Toggle, At, LInv, ServingOK
<1>5. CASE req[w].want
  <2>1. /\ req'[w].pc = "migrate" /\ req'[w].app = a /\ req'[w].want
        /\ req' = [req EXCEPT ![w].pc = "migrate"] /\ acked' = acked
    BY <1>5 DEF Toggle, Goto, LInv, TypeOK, Request
  <2>2. Local(w, a)
    BY <1>1, <2>1 DEF Toggle, At, Released, Local, LInv, TypeOK
  <2>3. ~clashed'[a] => Fits(req[w], a)'
    BY <1>1, <1>2, <1>3, <1>5, <2>1 DEF Fits
  <2>4. \A b \in Apps : AppOK(b)'
    BY <1>1, <1>3, <2>1, <2>2, <2>3, Stays
  <2>5. ServingOK' /\ DisabledIsQuiet'
    BY <1>1, <1>2, <1>4, <2>1, <2>2, StillServing, StillQuiet
  <2> QED BY <2>4, <2>5 DEF Kept
<1>6. CASE ~req[w].want
  <2>1. Return(w)
    BY <1>6 DEF Toggle
  <2>2. Local(w, a)
    BY <1>1, <2>1, ReturnFacts DEF Toggle, At, Released, Local, LInv, TypeOK
  <2>3. record'[a].status = "disabled" /\ record'[a].enabled = req[w].want
    BY <1>1, <1>2, <1>6, StatusFacts
  <2>4. Accurate(a)'
    BY <1>2, <2>3 DEF Accurate
  <2>5. \A b \in Apps : AppOK(b)'
    BY <1>1, <1>2, <1>3, <1>4, <2>1, <2>2, <2>3, <2>4, ReturnFacts, Leaves
  <2>6. ServingOK' /\ DisabledIsQuiet'
    BY <1>1, <1>2, <1>4, <2>1, <2>2, ReturnFacts, StillServing, StillQuiet
  <2> QED BY <2>5, <2>6 DEF Kept
<1> QED BY <1>5, <1>6

\* markError: the request waits for its write, and so may have left resources behind.
LEMMA MarkedKept ==
    ASSUME LInv, NEW w \in Requests, NEW a \in Apps, req[w].app = a,
           NEW then \in {"activate", "release"}, Marked(w, then), up, up', apps' = apps,
           UNCHANGED <<acked, clashed>>,
           \A b \in Apps \ {a} : subs'[b] = subs[b] /\ (b \in jobs' <=> b \in jobs),
           ~clashed[a] => /\ req[w].want /\ apps[a].enabled
                          /\ record[a] = StatusOf(TRUE)
                          /\ then = "activate" => Quiet(a)'
    PROVE  Kept
<1>1. a # None /\ record[a] \in Record /\ req[w].pc # "idle"
  BY AppsAssumption DEF LInv, TypeOK, ServingOK
<1>2. /\ req'[w].pc = "mark" /\ req'[w].app = a /\ req'[w].want = req[w].want
      /\ req'[w].then = then /\ req'[w].write = InError(record[a])
      /\ \A v \in Requests \ {w} : req'[v] = req[v]
  BY DEF Marked, LInv, TypeOK, Request
<1>3. /\ record'[a] = InError(record[a]) /\ record'[a].status = "error" /\ record'[a] # None
      /\ \A b \in Apps \ {a} : record'[b] = record[b]
  BY <1>1, StatusFacts DEF Marked, LInv, TypeOK
<1>4. Local(w, a)
  BY <1>2, <1>3 DEF Local
<1>5. ~clashed'[a] => Fits(req[w], a)'
  BY <1>2, <1>3 DEF Fits
<1>6. \A b \in Apps : AppOK(b)'
  BY <1>2, <1>4, <1>5, Stays, Alone
<1>7. (~clashed'[a] => apps'[a] # None) /\ InError(record[a]) # None
  BY <1>1, StatusFacts DEF LInv, ServingOK
<1>8. ServingOK' /\ DisabledIsQuiet'
  BY <1>1, <1>2, <1>3, <1>4, <1>7, StillServing, StillQuiet
<1> QED BY <1>6, <1>8 DEF Kept

\* A failed migration has registered nothing.
LEMMA MigrationFailsKept ==
    ASSUME LInv, NEW w \in Requests, NEW a \in Apps, req[w].app = a, MigrationFails(w)
    PROVE  Kept
<1>1. ~clashed[a] => /\ req[w].want /\ Quiet(a) /\ record[a] = StatusOf(TRUE)
                     /\ apps[a].enabled
  BY Alone, StatusFacts DEF MigrationFails, At, Fits
<1>2. Quiet(a)' = Quiet(a)
  BY DEF MigrationFails, runtime, Quiet
<1> QED BY <1>1, <1>2, MarkedKept DEF MigrationFails, At, runtime, history

\* activateApp, or the return without it, when what is recorded agrees.
LEMMA ActivateKept ==
    ASSUME LInv, NEW w \in Requests, NEW a \in Apps, req[w].app = a,
           Activate(w) \/ Skip(w), up, UNCHANGED <<up, apps, clashed>>,
           ~clashed[a] => req[w].want /\ apps[a] = record[a] /\ apps[a].enabled
                          /\ (record[a].status = "enabled" => record[a] = StatusOf(TRUE))
                          /\ Quiet(a)
    PROVE  Kept
<1>1. /\ a # None /\ record[a] # None /\ req[w].want \in BOOLEAN
      /\ ~clashed[a] => apps[a] # None
  BY AppsAssumption DEF LInv, ServingOK, TypeOK, Request
<1>2. CASE HookThrows(w) /\ record[a].status = "enabled"
  <2>1. \A b \in Apps \ {a} : subs'[b] = subs[b] /\ (b \in jobs' <=> b \in jobs)
    BY <1>2 DEF HookThrows, LInv, TypeOK
  <2> QED BY <1>2, <2>1, MarkedKept DEF HookThrows
<1>3. CASE Activated(w) /\ record[a].status = "enabled"
  <2>1. Return(w) /\ record' = record /\ Running(a)'
    BY <1>3 DEF Activated, Running, LInv, TypeOK
  <2>2. Local(w, a)
    BY <1>1, <1>3, <2>1, ReturnFacts DEF Activated, Local, LInv, TypeOK
  <2>3. Accurate(a)'
    BY <1>3, <2>1 DEF Accurate
  <2>4. \A b \in Apps : AppOK(b)'
    BY <1>1, <2>1, <2>2, <2>3, ReturnFacts, Alone, Leaves
  <2>5. ServingOK' /\ DisabledIsQuiet'
    BY <1>1, <1>3, <2>1, <2>2, ReturnFacts, StillServing, StillQuiet
  <2> QED BY <2>4, <2>5 DEF Kept
<1>4. CASE Skip(w)
  <2>1. Return(w) /\ record' = record /\ Quiet(a)' = Quiet(a)
    BY <1>4 DEF Skip, runtime, Quiet
  <2>2. Local(w, a)
    BY <1>1, <1>4, <2>1, ReturnFacts DEF Skip, runtime, Local, LInv, TypeOK
  <2>3. ~clashed'[a] => Accurate(a)'
    BY <1>4, <2>1 DEF Accurate, Skip
  <2>4. \A b \in Apps : AppOK(b)'
    BY <1>1, <2>1, <2>2, <2>3, ReturnFacts, Alone, Leaves
  <2>5. ServingOK' /\ DisabledIsQuiet'
    BY <1>1, <1>4, <2>1, <2>2, ReturnFacts, StillServing, StillQuiet
       DEF LInv, DisabledIsQuiet, Quiet
  <2> QED BY <2>4, <2>5 DEF Kept
<1> QED BY <1>2, <1>3, <1>4 DEF Activate

\* A migration that is over.
LEMMA MigratedKept ==
    ASSUME LInv, NEW w \in Requests, NEW a \in Apps, req[w].app = a, Migrated(w)
    PROVE  Kept
<1>1. ~clashed[a] => /\ req[w].want /\ Quiet(a) /\ record[a] = StatusOf(TRUE)
                     /\ apps[a] = StatusOf(TRUE)
  BY Alone DEF Migrated, At, Fits
<1>2. StatusOf(TRUE).enabled
  BY DEF StatusOf
<1> QED BY <1>1, <1>2, ActivateKept DEF Migrated, At

\* The write of markError is executed.
LEMMA PersistKept ==
    ASSUME LInv, NEW w \in Requests, NEW a \in Apps, req[w].app = a, Persist(w)
    PROVE  Kept
<1>1. a # None
  BY AppsAssumption
<1>2. /\ req'[w].pc = "marked" /\ req'[w].app = a /\ req'[w].want = req[w].want
      /\ req'[w].then = req[w].then
      /\ \A v \in Requests \ {w} : req'[v] = req[v]
  BY DEF Persist, Goto, LInv, TypeOK, Request
<1>3. apps'[a] = req[w].write /\ req[w].write # None
  BY DEF Persist, At, LInv, TypeOK, ServingOK
<1>4. Local(w, a)
  BY <1>1, <1>2 DEF Persist, At, Local, runtime, history, LInv, TypeOK
<1>5. ~clashed[a] => Fits(req[w], a)'
  BY <1>2, <1>3, Alone DEF Persist, At, runtime, Fits, Quiet
<1>6. \A b \in Apps : AppOK(b)'
  BY <1>2, <1>4, <1>5, Stays, Alone DEF Persist, history
<1>7. ServingOK' /\ DisabledIsQuiet'
  BY <1>1, <1>2, <1>3, <1>4, StillServing, StillQuiet
     DEF Persist, At, runtime, Quiet, LInv, ServingOK, DisabledIsQuiet
<1> QED BY <1>6, <1>7 DEF Kept

\* Or fails: the app counts as clashed.
LEMMA PersistFailsKept ==
    ASSUME LInv, NEW w \in Requests, NEW a \in Apps, req[w].app = a, PersistFails(w)
    PROVE  Kept
<1>1. a # None
  BY AppsAssumption
<1>2. /\ req'[w].pc = "marked" /\ req'[w].app = a /\ clashed'[a]
      /\ \A v \in Requests \ {w} : req'[v] = req[v]
  BY DEF PersistFails, Goto, LInv, TypeOK, Request
<1>3. Local(w, a)
  BY <1>1, <1>2 DEF PersistFails, At, Local, runtime, LInv, TypeOK
<1>4. \A b \in Apps : AppOK(b)'
  BY <1>2, <1>3, Stays
<1>5. ServingOK' /\ DisabledIsQuiet'
  BY <1>1, <1>2, <1>3, StillServing, StillQuiet
     DEF PersistFails, At, runtime, Quiet, LInv, ServingOK, DisabledIsQuiet
<1> QED BY <1>4, <1>5 DEF Kept

\* After markError the failed activation is undone, or activation is tried.
LEMMA AfterErrorKept ==
    ASSUME LInv, NEW w \in Requests, NEW a \in Apps, req[w].app = a, AfterError(w)
    PROVE  Kept
<1>1. /\ a # None /\ record[a] # None /\ req[w].want \in BOOLEAN
      /\ record[a] \in Record /\ (~clashed[a] => apps[a] # None)
  BY AppsAssumption DEF AfterError, At, LInv, ServingOK, TypeOK, Request
<1>2. ~clashed[a] => /\ req[w].want /\ record[a] = InError(StatusOf(TRUE)) /\ apps[a] = record[a]
                     /\ req[w].then = "activate" => Quiet(a)
  BY Alone DEF AfterError, At, Fits
<1>3. ~clashed[a] => apps[a].enabled /\ record[a].status = "error" /\ record[a].enabled
  BY <1>2, StatusFacts, RecordType
<1>4. CASE req[w].then = "activate" /\ (Activate(w) \/ Skip(w))
  BY <1>2, <1>3, <1>4, ActivateKept DEF AfterError, At
<1>5. CASE Released(a) /\ Return(w) /\ UNCHANGED <<record, failures>>
  <2>1. Quiet(a)'
    BY <1>5 DEF Released, Quiet, LInv, TypeOK
  <2>2. Local(w, a)
    BY <1>1, <1>5, ReturnFacts DEF AfterError, At, Released, Local, LInv, TypeOK
  <2>3. ~clashed'[a] => Accurate(a)'
    BY <1>3, <1>5, <2>1 DEF AfterError, Accurate
  <2>4. \A b \in Apps : AppOK(b)'
    BY <1>1, <1>2, <1>3, <1>5, <2>2, <2>3, ReturnFacts, Alone, Leaves DEF AfterError
  <2>5. ServingOK' /\ DisabledIsQuiet'
    BY <1>1, <1>5, <2>1, <2>2, ReturnFacts, StillServing, StillQuiet DEF AfterError
  <2> QED BY <2>4, <2>5 DEF Kept
<1> QED BY <1>4, <1>5 DEF AfterError

\* Every step of a request.
LEMMA RequestKept ==
    ASSUME LInv, NEW w \in Requests, SetAppEnabled(w)
    PROVE  Kept
<1>1. CASE \E a \in Apps, want \in BOOLEAN : Send(w, a, want)
  BY <1>1, SendKept
<1>2. CASE ~At(w, "idle") /\ up
  <2>1. req[w].app \in Apps
    BY <1>2, Waiting DEF At
  <2>2. PICK a \in Apps : req[w].app = a
    BY <2>1
  <2> QED
    BY <1>2, <2>2, UpdateKept, UpdateFailsKept, ToggleKept, MigrationFailsKept, MigratedKept,
       PersistKept, PersistFailsKept, AfterErrorKept DEF SetAppEnabled, Send
<1>3. \/ \E a \in Apps, want \in BOOLEAN : Send(w, a, want)
      \/ ~At(w, "idle") /\ up
  BY DEF SetAppEnabled, Update, UpdateFails, Toggle, MigrationFails, Migrated, Persist,
         PersistFails, AfterError, At
<1> QED BY <1>1, <1>2, <1>3
-----------------------------------------------------------------------------
(***************************************************************************)
(* Start and crash.                                                        *)
(***************************************************************************)
\* A start writes what it shows, and registers for the enabled apps only.
LEMMA StartKept == LInv /\ Start => Kept
<1> SUFFICES ASSUME LInv, Start PROVE Kept
  OBVIOUS
<1> PICK default \in [Apps -> BOOLEAN], unread \in BOOLEAN, failing \in SUBSET Apps,
         unsaved \in SUBSET Apps, late \in SUBSET Apps :
           late \subseteq failing \intersect unsaved /\ Boot(default, unread, failing, unsaved, late)
  BY DEF Start
<1> DEFINE intent == [a \in Apps |->
              IF unread \/ apps[a] = None THEN default[a] ELSE apps[a].enabled]
           started == [a \in Apps |-> Started(intent[a], a \in failing)]
<1>1. /\ ~up /\ up' = TRUE /\ record' = started
      /\ apps' = [a \in Apps |-> IF a \in late THEN StatusOf(intent[a])
                                 ELSE IF a \in unsaved THEN apps[a] ELSE started[a]]
      /\ subs' = [a \in Apps |-> IF a \in {c \in Apps : started[c].status = "enabled"}
                                 THEN 1 ELSE 0]
      /\ jobs' = {c \in Apps : started[c].status = "enabled"}
      /\ acked' = [a \in Apps |-> IF clashed[a] \/ unread THEN None ELSE acked[a]]
      /\ clashed' = [a \in Apps |-> a \in unsaved]
      /\ req' = req
  BY Zenon DEF Boot
<1>2. \A a \in Apps : intent[a] \in BOOLEAN
  BY DEF LInv, TypeOK, Record
<1>3. \A a \in Apps : started[a] # None /\ started[a].enabled = intent[a]
  <2> TAKE a \in Apps
  <2>1. (a \in failing) \in BOOLEAN
    OBVIOUS
  <2>2. intent[a] \in BOOLEAN
    BY <1>2
  <2>3. started[a] = Started(intent[a], a \in failing)
    OBVIOUS
  <2> HIDE DEF intent, started
  <2>4. Started(intent[a], a \in failing) \in Record
    BY <2>1, <2>2, RecordType, Zenon
  <2>5. StatusOf(intent[a]) \in Record
    BY <2>2, RecordType, Zenon
  <2>6. StatusOf(intent[a]).enabled = intent[a]
    BY <2>2, StatusFacts, Zenon
  <2>7. Started(intent[a], a \in failing).enabled = intent[a]
    BY <2>5, <2>6, StatusFacts, Zenon DEF Started
  <2> QED BY <2>3, <2>4, <2>7, AppsAssumption
<1>4. \A a \in Apps : acked'[a] # None =>
          acked[a] # None /\ acked'[a] = acked[a] /\ ~clashed[a] /\ ~unread
  BY <1>1
<1>5. \A a \in Apps : acked'[a] # None => intent[a] = acked[a]
  BY <1>4 DEF LInv, AppOK
<1> HIDE DEF intent, started
<1>6. \A w \in Requests : req'[w].app = None
  BY <1>1 DEF LInv, ServingOK
<1>7. \A a \in Apps : On(a)' = {}
  BY <1>6, AppsAssumption DEF On
<1>8. \A a \in Apps : Accurate(a)'
  BY <1>1 DEF Accurate, Running, Quiet
<1>9. \A a \in Apps : ~clashed'[a] => apps'[a] = record'[a]
  <2> TAKE a \in Apps
  <2>1. clashed'[a] <=> a \in unsaved
    BY <1>1
  <2> QED BY <1>1, <2>1
<1>10. ASSUME NEW a \in Apps PROVE AppOK(a)'
  <2>1. \A w \in Requests : req'[w].app # a
    BY <1>6, AppsAssumption
  <2>2. ~clashed'[a] /\ acked'[a] # None => apps'[a] # None /\ apps'[a].enabled = acked'[a]
    BY <1>1, <1>3, <1>4, <1>5, <1>9
  <2> QED BY <1>7, <1>8, <1>9, <2>1, <2>2 DEF AppOK
<1>11. ServingOK'
  BY <1>1, <1>3, <1>6, <1>9 DEF LInv, ServingOK
<1>12. DisabledIsQuiet'
  BY <1>8 DEF DisabledIsQuiet, Accurate, Quiet
<1> QED BY <1>10, <1>11, <1>12 DEF Kept

\* A crash leaves core.apps as the last executed write did.
LEMMA CrashKept == LInv /\ Crash => Kept
<1> SUFFICES ASSUME LInv, Crash PROVE Kept
  OBVIOUS
<1>1. \A w \in Requests : req'[w].app = None /\ req'[w].pc = "idle"
  BY DEF Crash, IdleRequest
<1>2. ~up' /\ apps' = apps /\ acked' = acked /\ clashed' = clashed
  BY DEF Crash, history
<1>3. \A a \in Apps : On(a)' = {}
  BY <1>1, AppsAssumption DEF On
<1>4. ASSUME NEW a \in Apps PROVE AppOK(a)'
  <2>1. \A w \in Requests : req'[w].app # a
    BY <1>1, AppsAssumption
  <2>2. ~clashed'[a] /\ acked'[a] # None => apps'[a] # None /\ apps'[a].enabled = acked'[a]
    BY <1>2 DEF LInv, AppOK
  <2> QED BY <1>2, <1>3, <2>1, <2>2 DEF AppOK
<1> QED BY <1>1, <1>2, <1>4 DEF Kept, ServingOK, DisabledIsQuiet

\* A stuttering step.
LEMMA StutterKept == LInv /\ UNCHANGED lifecycleVars => Kept
<1> SUFFICES ASSUME LInv, UNCHANGED lifecycleVars PROVE Kept
  OBVIOUS
<1>1. ASSUME NEW a \in Apps PROVE AppOK(a)'
  BY Frame DEF Untouched, lifecycleVars, LInv
<1> QED BY <1>1 DEF Kept, lifecycleVars, LInv, ServingOK, DisabledIsQuiet

\* Before the first start nothing runs and nothing was asked for.
LEMMA InitKept == Init => LInv
<1> SUFFICES ASSUME Init PROVE LInv
  OBVIOUS
<1>1. TypeOK
  BY IdleType DEF Init, TypeOK
<1>2. \A w \in Requests : req[w].app = None /\ req[w].pc = "idle"
  BY DEF Init, IdleRequest
<1>3. ASSUME NEW a \in Apps PROVE AppOK(a)
  <2>1. \A w \in Requests : req[w].app # a
    BY <1>2, AppsAssumption
  <2> QED BY <2>1 DEF Init, AppOK
<1> QED BY <1>1, <1>2, <1>3 DEF LInv, ServingOK, DisabledIsQuiet, Init

\* LInv is inductive.
THEOREM LifecycleInductive == LifecycleSpec => []LInv
<1>1. LInv /\ [LifecycleNext]_lifecycleVars => LInv'
  <2> SUFFICES ASSUME LInv, [LifecycleNext]_lifecycleVars PROVE LInv'
    OBVIOUS
  <2>1. TypeOK'
    BY TypeStep
  <2>2. Kept
    BY StartKept, CrashKept, RequestKept, StutterKept DEF LifecycleNext
  <2> QED BY <2>1, <2>2 DEF Kept, LInv
<1> QED BY <1>1, InitKept, PTL DEF LifecycleSpec
-----------------------------------------------------------------------------
(***************************************************************************)
(* What the module promises of platform.ts.                                *)
(***************************************************************************)
\* The state of the backend has its types.
THEOREM LifecycleTypes == LifecycleSpec => []TypeOK
<1>1. LInv => TypeOK
  BY DEF LInv
<1> QED BY <1>1, LifecycleInductive, PTL

\* A disabled app never has a job or a subscription: whatever overlaps with the toggle.
THEOREM DisabledStaysQuiet == LifecycleSpec => []DisabledIsQuiet
<1>1. LInv => DisabledIsQuiet
  BY DEF LInv
<1> QED BY <1>1, LifecycleInductive, PTL

\* When the toggles of an app are over, core.apps holds what the API shows and exactly an
\* enabled app runs: no failed hook or migration leaves resources behind.
THEOREM ResourcesFollowStatus == LifecycleSpec => []RunsWhileEnabled
<1>1. LInv => RunsWhileEnabled
  BY DEF LInv, AppOK, RunsWhileEnabled, Settled, Accurate, Running, Quiet
<1> QED BY <1>1, LifecycleInductive, PTL

\* The intent of an acknowledged toggle is never lost: not by a failed activation, a crash
\* or a restart.
THEOREM IntentSurvives == LifecycleSpec => []IntentKept
<1>1. LInv => IntentKept
  BY DEF LInv, AppOK, IntentKept
<1> QED BY <1>1, LifecycleInductive, PTL
=============================================================================
