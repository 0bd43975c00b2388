----------------------------- MODULE PlatformDay -----------------------------
(***************************************************************************)
(* The platform's timezone and what "today" is in it: core/time/index.ts,   *)
(* the setting platform.timezone of core/platform.ts, which is stored and   *)
(* applied to the running service apart, and the zone that the daily job of *)
(* the tasks app was registered with.  Time is in ticks; a zone changes its *)
(* clocks once, by a tick.                                                  *)
(***************************************************************************)
EXTENDS Integers

CONSTANTS
    DayLength,     \* ticks of a day that keeps its clocks
    Eastward,      \* the offset of every zone before its change
    Changes,       \* instants at which clocks change, by a tick either way
    NoChange,      \* an instant beyond all that are asked about
    ZoneRequests,  \* requests of the administrators
    MaxZonePuts,   \* bound: changes of the setting
    MaxZoneFaults  \* bound: failed requests and failed reads

ASSUME PlatformDayAssumption ==
    /\ DayLength \in Nat /\ DayLength >= 4 /\ DayLength % 2 = 0
    /\ Eastward \in 0..(DayLength - 1)
    /\ Changes \subseteq (2 * DayLength)..(3 * DayLength - 1)
    /\ NoChange \in Nat /\ NoChange > 6 * DayLength
    /\ MaxZonePuts \in Nat /\ MaxZoneFaults \in Nat

Zone(at, shift) == [before |-> Eastward, at |-> at, after |-> Eastward + shift]
Unchanging == Zone(NoChange, 0)
Zones == {Unchanging} \cup {Zone(at, shift) : at \in Changes, shift \in {-1, 1}}

-----------------------------------------------------------------------------
(* The local day. *)
timezoneOffset(z, t) == IF t < z.at THEN z.before ELSE z.after

\* localDateString, localDayKey: Intl gives the calendar day itself.
LocalDate(z, t) == (t + timezoneOffset(z, t)) \div DayLength

Midnight(t, offset) == ((t + offset) \div DayLength) * DayLength - offset

\* Mutant: the offset of now is taken for that of midnight.
OnePass(z, t) == Midnight(t, timezoneOffset(z, t))
startOfLocalDay(z, t) == Midnight(t, timezoneOffset(z, Midnight(t, timezoneOffset(z, t))))

localDayRangeUtc(z, t) ==
    LET start == startOfLocalDay(z, t)
    IN [start |-> start, end |-> startOfLocalDay(z, start + (3 * DayLength) \div 2)]

\* Yesterday is the day of the last instant before today.
dayKeys(z, start) == [todayKey |-> LocalDate(z, start), yesterdayKey |-> LocalDate(z, start - 1)]

-----------------------------------------------------------------------------
(* The setting. *)
NoSetting == Zone(-1, 0) \* no row: not a zone
NoZonePut == [pc |-> "idle", zone |-> Unchanging, alone |-> FALSE]

VARIABLES
    zoneSetting, \* core.settings: platform.timezone
    timezone,    \* PlatformTimeService.current
    jobZone,     \* the zone tasks.overdue_check was registered with
    zonePut,     \* PUT /settings/platform.timezone: where it stands, its value, whether it overlapped none
    zonePuts, zoneFaults,
    drifted,     \* history: changes overlapped, or one was stored and not answered, or a start could not read
    hotApplied   \* history: the zone was changed after the job was registered

platformDayVars == <<zoneSetting, timezone, jobZone, zonePut, zonePuts, zoneFaults, drifted, hotApplied>>

PlatformDayInit ==
    /\ zoneSetting = NoSetting /\ timezone = Unchanging /\ jobZone = Unchanging
    /\ zonePut = [w \in ZoneRequests |-> NoZonePut]
    /\ zonePuts = 0 /\ zoneFaults = 0 /\ drifted = FALSE /\ hotApplied = FALSE

InFlight == {w \in ZoneRequests : zonePut[w].pc # "idle"}
ZoneFault == zoneFaults < MaxZoneFaults /\ zoneFaults' = zoneFaults + 1

\* A name Intl knows, or the request is answered 422 and nothing is sent.
putTimezone(w, z) ==
    /\ zonePut[w].pc = "idle" /\ zonePuts < MaxZonePuts
    /\ zonePut' = [v \in ZoneRequests |->
                      IF v = w THEN [pc |-> "sent", zone |-> z, alone |-> InFlight = {}]
                      ELSE [zonePut[v] EXCEPT !.alone = FALSE]]
    /\ zonePuts' = zonePuts + 1
    /\ UNCHANGED <<zoneSetting, timezone, jobZone, zoneFaults, drifted, hotApplied>>

StoreTimezone(w) ==
    /\ zonePut[w].pc = "sent"
    /\ zoneSetting' = zonePut[w].zone
    /\ zonePut' = [zonePut EXCEPT ![w].pc = "stored"]
    /\ UNCHANGED <<timezone, jobZone, zonePuts, zoneFaults, drifted, hotApplied>>

\* The write is answered: the service follows, its jobs do not.
setTimezone(w) ==
    /\ zonePut[w].pc = "stored"
    /\ timezone' = zonePut[w].zone
    /\ drifted' = ~zonePut[w].alone
    /\ hotApplied' = TRUE
    /\ zonePut' = [zonePut EXCEPT ![w] = NoZonePut]
    /\ UNCHANGED <<zoneSetting, jobZone, zonePuts, zoneFaults>>

PutTimezoneFails(w) ==
    /\ w \in InFlight /\ ZoneFault
    /\ drifted' = (drifted \/ zonePut[w].pc = "stored")
    /\ zonePut' = [zonePut EXCEPT ![w] = NoZonePut]
    /\ UNCHANGED <<zoneSetting, timezone, jobZone, zonePuts, hotApplied>>

\* Disabled and enabled again: activateApp registers the job anew.
ReenableTasks ==
    /\ jobZone' = timezone /\ hotApplied' = FALSE
    /\ UNCHANGED <<zoneSetting, timezone, zonePut, zonePuts, zoneFaults, drifted>>

\* Mutant: the configuration wins over the setting.
ConfigWins(read) == Unchanging
Restored(read) == IF read /\ zoneSetting # NoSetting THEN zoneSetting ELSE Unchanging

(* The backend stops and starts: the service is seeded from the configuration, takes *)
(* the setting if it can be read, and the apps then register their jobs.             *)
RestartPlatform(read) ==
    /\ IF read THEN UNCHANGED zoneFaults ELSE ZoneFault
    /\ timezone' = Restored(read) /\ jobZone' = timezone'
    /\ zonePut' = [w \in ZoneRequests |-> NoZonePut]
    /\ drifted' = ~read /\ hotApplied' = FALSE
    /\ UNCHANGED <<zoneSetting, zonePuts>>

PlatformDayNext ==
    \/ \E w \in ZoneRequests :
          \/ (\E z \in Zones : putTimezone(w, z))
          \/ StoreTimezone(w) \/ setTimezone(w) \/ PutTimezoneFails(w)
    \/ ReenableTasks \/ (\E read \in BOOLEAN : RestartPlatform(read))

PlatformDaySpec == PlatformDayInit /\ [][PlatformDayNext]_platformDayVars

-----------------------------------------------------------------------------
\* The instants asked about: the days around every change.
Asked == DayLength..(5 * DayLength - 1)
SameDay(z, t) == {u \in 0..(6 * DayLength) : LocalDate(z, u) = LocalDate(z, t)}

\* The last tick of a day whose clocks went back: by the clock of its morning it is over.
ExtraTick(z, t) ==
    /\ z.after < z.before /\ z.at <= t /\ LocalDate(z, z.at) = LocalDate(z, t)
    /\ (t + z.before) \div DayLength # LocalDate(z, t)

\* A zone that sets its clocks back to a midnight it has had, and the two days beside it.
TwoMidnights(z, t) ==
    /\ z.after < z.before /\ (z.at + z.after) % DayLength = 0
    /\ LocalDate(z, t) \in {LocalDate(z, z.at) - 1, LocalDate(z, z.at)}

\* The day of t, from its first instant to its last, and the names of it and of the day before.
DayExact(z, t) ==
    LET range == localDayRangeUtc(z, t)  keys == dayKeys(z, range.start) IN
    /\ range.start..(range.end - 1) = SameDay(z, t)
    /\ keys = [todayKey |-> LocalDate(z, t), yesterdayKey |-> LocalDate(z, t) - 1]

\* The zones whose every day is told right, but for those two cases.
ExactZones == {z \in Zones : \A t \in Asked : ~ExtraTick(z, t) /\ ~TwoMidnights(z, t) => DayExact(z, t)}

(* "start and end are the actual local midnights" (core/time/index.ts:63): today is   *)
(* every instant of the local date of now and no other, 23, 24 or 25 hours of them,   *)
(* and yesterday's key is the day before, also on the days that change their clocks   *)
(* (localDayRangeUtc, dayKeys).  Two cases are excepted: the last hour of a day of 25 *)
(* (ExtraTick), and the two days beside a midnight that comes twice (TwoMidnights).   *)
TodayIsTheLocalDate == timezone \in ExactZones

(* "the user's runtime choice survives restarts" (core/platform.ts:73) and is applied *)
(* live: once the changes of the setting are over, the service is in the zone that is *)
(* stored; and a job that was registered after the last change runs in it too.        *)
TimezoneApplied ==
    /\ InFlight = {} /\ ~drifted => timezone = IF zoneSetting = NoSetting THEN Unchanging ELSE zoneSetting
    /\ ~hotApplied => jobZone = timezone

(* Both: what every app calls today is the local day of the zone that is set. *)
TodayFollowsSetting == TodayIsTheLocalDate /\ TimezoneApplied
=============================================================================
