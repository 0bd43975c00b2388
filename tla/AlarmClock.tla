----------------------------- MODULE AlarmClock -----------------------------
(***************************************************************************)
(* The alarms of the clock: rows of the server and a page that rings them  *)
(* (AlarmSection.tsx, timeMath.ts, apps/clock/index.ts).  Time runs in     *)
(* parts of a minute; the page looks at it when its timer fires, which a   *)
(* hidden tab may delay, and knows the rows only from its last list.  A    *)
(* list, or the answer to a write, may be older than what the server has   *)
(* when it comes.  Requests that are equal in everything are one.          *)
(***************************************************************************)
EXTENDS Integers, FiniteSets, FiniteSetsExt

CONSTANTS
    Alarms,        \* alarm ids
    Minute,        \* parts of a minute
    DayMinutes,    \* minutes of a day
    Week,          \* days of a week
    Schedules,     \* minutes of the day with repeat days, as a page or a device may set them
    MaxTime,       \* bound: parts of a minute that pass
    MaxAlarmEdits, \* bound: writes of the user and of other devices
    MaxAlarmFaults, \* bound: calls that fail
    MaxMounts      \* bound: times the page is opened

ASSUME AlarmAssumption ==
    /\ Minute \in Nat \ {0} /\ DayMinutes \in Nat \ {0} /\ Week \in Nat \ {0}
    /\ Schedules \subseteq (0..(DayMinutes - 1)) \X SUBSET (0..(Week - 1))
    /\ MaxTime \in Nat /\ MaxAlarmEdits \in Nat /\ MaxAlarmFaults \in Nat /\ MaxMounts \in Nat

\* No row yet, and no row any more: an id is not used again.
NoAlarm == [is |-> "none"]
Deleted == [is |-> "deleted"]

VARIABLES
    time,        \* wall clock
    alarm,       \* clock.alarms: minute of the day, repeat days, enabled, and its hash
    alarmPage,   \* the page: how often mounted, the list, its now, the run of useAsync and
                 \* what it was given, the versions it listed, what it fired
    alarmCalls,  \* requests on their way, or answers: each with the hash the page knew
    nextHash,    \* hashes are not reused
    alarmEdits, alarmFaults,
    rang,        \* history: versions of one-shot alarms that rang
    unspent,     \* history: those whose request was lost, and that did not ring again
    setAs        \* history: the version in which a user or a device last set the alarm

alarmVars == <<time, alarm, alarmPage, alarmCalls, nextHash, alarmEdits, alarmFaults, rang, unspent, setAs>>

Day == Minute * DayMinutes
NoRows == [a \in Alarms |-> NoAlarm]
Closed(mount) ==
    [open |-> FALSE, mount |-> mount, list |-> NoRows, now |-> 0, fetch |-> "none", got |-> NoRows,
     seen |-> {}, fired |-> {}]
AlarmRow(minute, repeat, on, hash) ==
    [is |-> "row", minute |-> minute, repeat |-> repeat, on |-> on, hash |-> hash]

AlarmInit ==
    /\ time = Day - 1
    /\ alarm \in [Alarms -> {NoAlarm} \union {AlarmRow(s[1], s[2], TRUE, 0) : s \in Schedules}]
    /\ alarmPage = Closed(0) /\ alarmCalls = {} /\ nextHash = 1 /\ alarmEdits = 0 /\ alarmFaults = 0
    /\ rang = {} /\ unspent = {} /\ setAs = [a \in Alarms |-> 0]

AlarmFault == alarmFaults < MaxAlarmFaults /\ alarmFaults' = alarmFaults + 1
AlarmEdit == alarmEdits < MaxAlarmEdits /\ alarmEdits' = alarmEdits + 1
Exists(row) == row.is = "row"

(* The instants at which an alarm is due. *)
OnDay(row, day) == day * Day + row.minute * Minute
Repeats(row, day) == row.repeat = {} \/ day % Week \in row.repeat

(* nextAlarmOccurrence: the first of the coming days, or Never. *)
Never == 0 - 1
nextAlarmOccurrence(row, now) ==
    LET today == now \div Day
        coming == {d \in today..(today + Week) : OnDay(row, d) > now /\ Repeats(row, d)}
    IN  IF ~row.on \/ coming = {} THEN Never ELSE OnDay(row, Min(coming))
-----------------------------------------------------------------------------
(* A request names the alarm, the hash the page knew and the columns it writes.      *)
Call(is, mount, a, hash, minute, repeat, on) ==
    [is |-> is, mount |-> mount, id |-> a, hash |-> hash, minute |-> minute, repeat |-> repeat,
     on |-> on, pc |-> "asked"]
NoSchedule == <<0, {}>>

(* The effect on [now, items]: what is due within its minute rings, once per       *)
(* occurrence and mount, and a one-shot alarm is switched off by a request.        *)
OpenWindow(now, at) == now - at > 0 /\ now - at < Minute
InWindow(now, at) == now - at >= 0 /\ now - at < Minute
Due(v) ==
    {a \in Alarms : LET row == v.list[a]  day == v.now \div Day IN
        /\ Exists(row) /\ row.on
        /\ InWindow(v.now, OnDay(row, day)) /\ Repeats(row, day)
        /\ <<a, OnDay(row, day)>> \notin v.fired}
Fire(v) ==
    LET once == {a \in Due(v) : v.list[a].repeat = {}}
        ringing == {<<a, v.list[a].hash>> : a \in once}
    IN
    /\ alarmPage' = [v EXCEPT !.fired = @ \union {<<a, OnDay(v.list[a], v.now \div Day)>> : a \in Due(v)}]
    /\ alarmCalls' = alarmCalls \union
           {Call("spend", v.mount, a, v.list[a].hash, 0, {}, FALSE) : a \in once}
    /\ rang' = rang \union ringing /\ unspent' = unspent \ ringing

Pass ==
    /\ time < MaxTime /\ time' = time + 1
    /\ UNCHANGED <<alarm, alarmPage, alarmCalls, nextHash, alarmEdits, alarmFaults, rang, unspent, setAs>>

(* The timer of useClockNow, or the tab shown again. *)
Tick ==
    /\ alarmPage.open /\ alarmPage.now # time /\ Fire([alarmPage EXCEPT !.now = time])
    /\ UNCHANGED <<time, alarm, nextHash, alarmEdits, alarmFaults, setAs>>

(* A run of useAsync: the list is read, and arrives unless another run began or it   *)
(* failed, which leaves the one before.                                              *)
Reading(v) == [v EXCEPT !.fetch = "asked", !.got = NoRows]
OpenClock ==
    /\ ~alarmPage.open
    /\ alarmPage' = Reading([Closed(alarmPage.mount + 1) EXCEPT !.open = TRUE, !.now = time])
    /\ UNCHANGED <<time, alarm, alarmCalls, nextHash, alarmEdits, alarmFaults, rang, unspent, setAs>>

CloseClock ==
    /\ alarmPage.open /\ alarmPage.mount < MaxMounts /\ alarmPage' = Closed(alarmPage.mount)
    /\ UNCHANGED <<time, alarm, alarmCalls, nextHash, alarmEdits, alarmFaults, rang, unspent, setAs>>

(* SYNC_DATA_CHANGED, the button to retry, the editor's reload.                      *)
RefreshAlarms ==
    /\ alarmPage.open /\ alarmPage' = Reading(alarmPage)
    /\ UNCHANGED <<time, alarm, alarmCalls, nextHash, alarmEdits, alarmFaults, rang, unspent, setAs>>

ServeAlarms ==
    /\ alarmPage.fetch = "asked" /\ alarmPage' = [alarmPage EXCEPT !.fetch = "served", !.got = alarm]
    /\ UNCHANGED <<time, alarm, alarmCalls, nextHash, alarmEdits, alarmFaults, rang, unspent, setAs>>

Listed(list) == {<<a, list[a].hash>> : a \in {b \in Alarms : Exists(list[b])}}
AlarmsArrive ==
    /\ alarmPage.fetch = "served"
    /\ Fire([alarmPage EXCEPT !.fetch = "none", !.got = NoRows, !.list = alarmPage.got,
                              !.seen = @ \union Listed(alarmPage.got)])
    /\ UNCHANGED <<time, alarm, nextHash, alarmEdits, alarmFaults, setAs>>

AlarmsFail ==
    /\ alarmPage.fetch # "none" /\ AlarmFault
    /\ alarmPage' = [alarmPage EXCEPT !.fetch = "none", !.got = NoRows]
    /\ UNCHANGED <<time, alarm, alarmCalls, nextHash, alarmEdits, rang, unspent, setAs>>

(* The toggle sends what the list says of the alarm; the editor and the delete       *)
(* dialog may hold a version of an earlier list.                                     *)
Ask(is, a, hash, s, on) ==
    /\ alarmPage.open /\ AlarmEdit
    /\ alarmCalls' = alarmCalls \union {Call(is, alarmPage.mount, a, hash, s[1], s[2], on)}
    /\ UNCHANGED <<time, alarm, alarmPage, nextHash, alarmFaults, rang, unspent, setAs>>
toggle(a) ==
    Exists(alarmPage.list[a]) /\ Ask("toggle", a, alarmPage.list[a].hash, NoSchedule, ~alarmPage.list[a].on)
SaveEdit(a, hash, s) == <<a, hash>> \in alarmPage.seen /\ Ask("edit", a, hash, s, FALSE)
RemoveAlarm(a, hash) == <<a, hash>> \in alarmPage.seen /\ Ask("remove", a, hash, NoSchedule, FALSE)
SaveNew(a, s) ==
    /\ alarm[a] = NoAlarm /\ ~(\E c \in alarmCalls : c.id = a)
    /\ Ask("add", a, 0, s, TRUE)
-----------------------------------------------------------------------------
(* POST, PATCH and DELETE: an update keeps the columns the request does not name.    *)
ChangedIfTrue(row, c) ==
    CASE c.is = "edit" -> [row EXCEPT !.minute = c.minute, !.repeat = c.repeat]
      [] c.is \in {"spend", "toggle"} -> IF c.on THEN [row EXCEPT !.on = TRUE] ELSE row
Changed(row, c) ==
    CASE c.is = "edit" -> [row EXCEPT !.minute = c.minute, !.repeat = c.repeat]
      [] c.is \in {"spend", "toggle"} -> [row EXCEPT !.on = c.on]
Written(c) ==
    CASE c.is = "add" -> AlarmRow(c.minute, c.repeat, TRUE, nextHash)
      [] c.is = "remove" -> Deleted
      [] OTHER -> [Changed(alarm[c.id], c) EXCEPT !.hash = nextHash]

(* The hash of a request on a row is compared, whether anything is linked or not.    *)
Accepted(c) == c.is = "add" \/ (Exists(alarm[c.id]) /\ c.hash = alarm[c.id].hash)

Unspent(c) == IF c.is = "spend" THEN {<<c.id, c.hash>>} ELSE {}
ServeAlarm(c) ==
    /\ c \in alarmCalls /\ c.pc = "asked"
    /\ \/ /\ Accepted(c)
          /\ alarm' = [alarm EXCEPT ![c.id] = Written(c)] /\ nextHash' = nextHash + 1
          /\ setAs' = IF c.is = "spend" THEN setAs ELSE [setAs EXCEPT ![c.id] = nextHash]
          /\ alarmCalls' = (alarmCalls \ {c}) \union {[c EXCEPT !.pc = "done"]}
       \/ /\ ~Accepted(c)
          /\ alarmCalls' = (alarmCalls \ {c}) \union {[c EXCEPT !.pc = "refused"]}
          /\ UNCHANGED <<alarm, nextHash, setAs>>
    /\ UNCHANGED <<time, alarmPage, alarmEdits, alarmFaults, rang, unspent>>

(* Who reloads the list afterwards: a toggle whatever the answer, the others on      *)
(* success; and nobody for a page that has been left.                                *)
Answered(c, ok) ==
    /\ alarmCalls' = alarmCalls \ {c}
    /\ alarmPage' = IF alarmPage.open /\ c.mount = alarmPage.mount /\ (ok \/ c.is = "toggle")
                     THEN Reading(alarmPage) ELSE alarmPage

AnswerComes(c) ==
    /\ c \in alarmCalls /\ c.pc \in {"done", "refused"} /\ Answered(c, c.pc = "done")
    /\ UNCHANGED <<time, alarm, nextHash, alarmEdits, alarmFaults, rang, unspent, setAs>>

(* The request is lost, or its answer. *)
CallFails(c) ==
    /\ c \in alarmCalls /\ AlarmFault /\ Answered(c, FALSE)
    /\ unspent' = IF c.pc = "asked" THEN unspent \union Unspent(c) ELSE unspent
    /\ UNCHANGED <<time, alarm, nextHash, alarmEdits, rang, setAs>>

(* Another device of the user, or a cycle that applies what another server published. *)
Elsewhere(a, row) ==
    /\ AlarmEdit /\ alarm[a] # Deleted /\ ~(\E c \in alarmCalls : c.is = "add" /\ c.id = a)
    /\ alarm' = [alarm EXCEPT ![a] = row] /\ nextHash' = nextHash + 1
    /\ setAs' = [setAs EXCEPT ![a] = nextHash]
    /\ UNCHANGED <<time, alarmPage, alarmCalls, alarmFaults, rang, unspent>>
RowsElsewhere == {Deleted} \union {AlarmRow(s[1], s[2], on, nextHash) : s \in Schedules, on \in BOOLEAN}

AlarmNext ==
    \/ Pass \/ Tick \/ OpenClock \/ CloseClock
    \/ RefreshAlarms \/ ServeAlarms \/ AlarmsArrive \/ AlarmsFail
    \/ \E a \in Alarms : toggle(a) \/ (\E s \in Schedules : SaveNew(a, s))
    \/ \E k \in alarmPage.seen : RemoveAlarm(k[1], k[2]) \/ (\E s \in Schedules : SaveEdit(k[1], k[2], s))
    \/ \E a \in Alarms, row \in RowsElsewhere : Elsewhere(a, row)
    \/ \E c \in alarmCalls : ServeAlarm(c) \/ AnswerComes(c) \/ CallFails(c)

AlarmSpec == AlarmInit /\ [][AlarmNext]_alarmVars
-----------------------------------------------------------------------------
(* AlarmSection.tsx:94 and timeMath.ts:200: the page rings what it announced.  *)
(* Whenever its clock moves, an alarm of the list rings if the occurrence the  *)
(* page called the next one has just come, within its minute, and no alarm     *)
(* rings at an instant the page would not have announced before.               *)
RingsAsAnnounced ==
    [][(alarmPage.open /\ alarmPage'.open /\ alarmPage'.now # alarmPage.now) =>
          \A a \in Alarms : Exists(alarmPage.list[a]) =>
             LET row == alarmPage.list[a]
                 next == nextAlarmOccurrence(row, alarmPage.now)
                 now == alarmPage'.now
                 new == {k \in alarmPage'.fired \ alarmPage.fired : k[1] = a}
             IN  /\ next # Never /\ next <= now /\ now < next + Minute => <<a, next>> \in alarmPage'.fired
                 /\ \A k \in new : k[2] > alarmPage.now /\ nextAlarmOccurrence(row, k[2] - 1) = k[2]]_alarmVars

(* AlarmSection.tsx:51: "One-shot alarms (no repeat days) disable themselves    *)
(* after ringing."  Of a version that rang, the alarm is off or gone, or a user *)
(* or a device has set it since that version; else its request is still on its  *)
(* way, or was lost and the alarm has not rung again.  So a request that the    *)
(* server refuses (clock/index.ts:299) has missed nothing: with pages, edits    *)
(* and other devices writing at once, an alarm never stays on for the reason    *)
(* alone that another request had changed it first.                             *)
SetSince(r) == setAs[r[1]] > r[2]
SpentAsRung ==
    \A r \in rang \ unspent :
       \/ ~Exists(alarm[r[1]]) \/ ~alarm[r[1]].on \/ SetSince(r)
       \/ \E c \in alarmCalls : c.is = "spend" /\ c.pc = "asked" /\ <<c.id, c.hash>> = r
=============================================================================
