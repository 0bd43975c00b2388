------------------------------ MODULE SyncPage ------------------------------
(***************************************************************************)
(* The sync controller of one open page (shared/sync.ts, SyncController)   *)
(* and the provider that owns it (shell/SyncContext.tsx).  The page keeps  *)
(* the last status it learned, at most one timer, one cycle in flight and  *)
(* a lane in which cycles and the user's actions run one after the other.  *)
(* Status reads run beside the lane.  Other tabs, other devices and the    *)
(* server change the status and take the Web Lock: they are OtherWrites,   *)
(* Hint and the outcome "locked".                                          *)
(*                                                                         *)
(* Time runs in ticks.  A cycle is due `due` ticks from now and allowed    *)
(* `backoff` ticks from now; MinDelay ticks are the 1,000 ms under which   *)
(* arm() sets no timer, Interval ticks are every longer wait.              *)
(***************************************************************************)
EXTENDS Naturals, Sequences

CONSTANTS UserActions,  \* what the user may do, among the kinds of Works
          Interval,     \* ticks between two cycles, and of a backoff
          MinDelay,     \* ticks of the shortest timer
          FollowLimit,  \* cycles that continue a first sync
          MaxStatus,    \* bound: versions of the server's status
          MaxLane       \* bound: works that wait in the lane

Works == {"cycle", "manual", "configure", "link", "enable", "unlink", "resolve", "adopt"}

ASSUME SyncPageAssumption ==
    /\ UserActions \subseteq {"manual", "configure", "link", "unlink", "resolve"}
    /\ {Interval, MinDelay, FollowLimit, MaxStatus, MaxLane} \subseteq Nat
    /\ 0 < MinDelay /\ MinDelay <= Interval

VARIABLES server,  \* the status the server would answer now
          ctl,     \* the fields of the controller
          pull,    \* the status read of pullStatus
          peer,    \* the status read a hint of another tab asked for
          lane,    \* works waiting for their turn
          work,    \* the work that runs in the lane
          covered  \* history: a peer read replaced a newer status

syncPageVars == <<server, ctl, pull, peer, lane, work, covered>>

NoStatus == [rev |-> 0, auto |-> FALSE, boot |-> FALSE]
NoTimer == [in |-> 0, kind |-> "none"]
NoWork == [kind |-> "none", got |-> NoStatus]
NoPull == [by |-> "none", got |-> NoStatus]
NoPeer == [pc |-> "none", fresh |-> FALSE, again |-> FALSE, got |-> NoStatus]

\* A controller that has not started, or was stopped: the provider makes a new one.
NewController == [alive |-> FALSE, shown |-> NoStatus, timer |-> NoTimer, flight |-> FALSE,
                  due |-> 0, backoff |-> 0, follow |-> 0, retry |-> FALSE]

Longer(a, b) == IF a > b THEN a ELSE b
Limit(c) == Longer(c.due, c.backoff)

\* shouldCycleNow, followCanRun and delayUntilDue; a manual interval has no delay.
ShouldCycle(c) == c.alive /\ c.shown.auto /\ Limit(c) = 0
FollowRuns(c) == c.alive /\ c.follow > 0 /\ c.shown.auto /\ c.shown.boot /\ c.backoff = 0
DelayUntilDue(c) == IF c.shown.auto THEN Limit(c) ELSE 0

\* arm: a timer for MinDelay or more, none for less; a first sync that goes on is
\* continued sooner, or given up when sync is not automatic.
Arm(c, delay) ==
    LET follows == c.follow > 0 /\ c.shown.boot
        wait == IF ~follows THEN delay
                ELSE IF c.shown.auto THEN Longer(MinDelay, c.backoff) ELSE 0
        armed == wait >= MinDelay
        kind == IF c.retry THEN "status" ELSE "cycle"
    IN  [c EXCEPT !.timer = IF armed THEN [in |-> wait, kind |-> kind] ELSE NoTimer,
                  !.retry = @ /\ ~armed,
                  !.follow = IF follows /\ ~c.shown.auto THEN 0 ELSE @]
ArmWhenDue(c) == Arm(c, DelayUntilDue(c))

\* adopt: every write of the status makes a peer read that started before it stale.
Shows(c, s) == [c EXCEPT !.shown = s]
Stale(p) == [p EXCEPT !.fresh = FALSE]

SyncPageInit ==
    /\ server \in [rev : {1}, auto : BOOLEAN, boot : BOOLEAN]
    /\ ctl = NewController
    /\ pull = NoPull /\ peer = NoPeer
    /\ lane = <<>> /\ work = NoWork
    /\ covered = FALSE

Enqueued(kind) == lane' = Append(lane, kind)
HasRoom == Len(lane) < MaxLane

\* runCycle: a second call joins the flight.
RunCycle(c, kind) ==
    IF c.flight THEN ctl' = c /\ UNCHANGED lane
    ELSE ctl' = [c EXCEPT !.flight = TRUE] /\ Enqueued(kind)
CycleOrArm(c) ==
    IF ShouldCycle(c) THEN RunCycle(c, "cycle") ELSE ctl' = ArmWhenDue(c) /\ UNCHANGED lane

AskPull(by) == pull = NoPull /\ pull' = [NoPull EXCEPT !.by = by]

\* start, and SyncContext's effect that makes a controller for the signed-in user.
Start ==
    /\ ~ctl.alive
    /\ AskPull("page")
    /\ ctl' = [ctl EXCEPT !.alive = TRUE]
    /\ UNCHANGED <<server, peer, lane, work, covered>>

\* stop: on logout, on another user, on a 401.  Answers of its requests are dropped.
Stop ==
    /\ ctl.alive
    /\ ctl' = NewController
    /\ pull' = NoPull /\ peer' = NoPeer /\ lane' = <<>> /\ work' = NoWork
    /\ UNCHANGED <<server, covered>>

\* The window gets the focus, the page becomes visible or goes online.
Nudge ==
    /\ ctl.alive /\ HasRoom
    /\ IF ShouldCycle(ctl) THEN RunCycle(ctl, "cycle") /\ UNCHANGED pull
       ELSE AskPull("nudge") /\ UNCHANGED <<ctl, lane>>
    /\ UNCHANGED <<server, peer, work, covered>>

Refresh ==
    /\ ctl.alive
    /\ AskPull("page")
    /\ UNCHANGED <<server, ctl, peer, lane, work, covered>>

\* The server answers the status read; the answer travels.
ServePull ==
    /\ pull.by # "none" /\ pull.got = NoStatus
    /\ pull' = [pull EXCEPT !.got = server]
    /\ UNCHANGED <<server, ctl, peer, lane, work, covered>>

\* pullStatus goes on: it asks for its generation, not for the epoch.
PullArrives ==
    /\ pull.got # NoStatus /\ HasRoom
    /\ CycleOrArm(Shows(ctl, pull.got))
    /\ pull' = NoPull /\ peer' = Stale(peer)
    /\ UNCHANGED <<server, work, covered>>

\* A failed read is tried again, except that nudge() arms its own timer after it.
PullFails ==
    /\ pull.by # "none"
    /\ LET c == Arm([ctl EXCEPT !.retry = TRUE], Interval)
       IN  ctl' = IF pull.by = "nudge" THEN ArmWhenDue(c) ELSE c
    /\ pull' = NoPull
    /\ UNCHANGED <<server, peer, lane, work, covered>>

TimerFires ==
    LET c == [ctl EXCEPT !.timer = NoTimer]
    IN  /\ ctl.timer.kind # "none" /\ ctl.timer.in = 0 /\ HasRoom
        /\ IF ctl.timer.kind = "status" THEN AskPull("page") /\ ctl' = c /\ UNCHANGED lane
           ELSE /\ IF FollowRuns(c) THEN RunCycle(c, "cycle") ELSE CycleOrArm(c)
                /\ UNCHANGED pull
        /\ UNCHANGED <<server, peer, work, covered>>

\* syncNow, setEnabled, setIntervalSeconds, createIdentity, joinIdentity, unlink, resolve.
UserAsks(kind) ==
    /\ ctl.alive /\ HasRoom
    /\ IF kind = "manual" THEN RunCycle(ctl, kind) ELSE Enqueued(kind) /\ UNCHANGED ctl
    /\ UNCHANGED <<server, pull, peer, work, covered>>

\* The lane is free and its next work begins.
Begins(kind) ==
    /\ work = NoWork /\ lane # <<>> /\ Head(lane) = kind
    /\ lane' = Tail(lane)

\* executeCycle: an automatic cycle that is no longer due only arms; without the
\* Web Lock of the user it backs off; otherwise the request goes out.
Cycle(kind, c) ==
    IF kind = "cycle" /\ ~ShouldCycle(c) /\ ~FollowRuns(c)
    THEN ctl' = ArmWhenDue([c EXCEPT !.flight = FALSE]) /\ work' = NoWork
    ELSE \/ /\ ctl' = Arm([c EXCEPT !.flight = FALSE, !.backoff = Interval], Interval)
            /\ work' = NoWork
         \/ /\ ctl' = c
            /\ work' = [NoWork EXCEPT !.kind = kind]

BeginCycle ==
    /\ \E kind \in {"cycle", "manual"} : Begins(kind) /\ Cycle(kind, ctl)
    /\ UNCHANGED <<server, pull, peer, covered>>

BeginAction ==
    /\ \E kind \in {"configure", "link", "unlink", "resolve"} :
          Begins(kind) /\ work' = [NoWork EXCEPT !.kind = kind]
    /\ UNCHANGED <<server, ctl, pull, peer, covered>>

\* What the server's status is after it served a work: create and join link the user,
\* a cycle may finish the first sync, the rest sets what it says.
AutoAfter(kind) ==
    CASE kind = "enable" -> {TRUE} [] kind \in {"unlink", "link"} -> {FALSE}
      [] kind = "configure" -> BOOLEAN [] OTHER -> {server.auto}
BootAfter(kind) ==
    CASE kind = "link" -> {TRUE} [] kind = "unlink" -> {FALSE} [] OTHER -> {FALSE, server.boot}
Served(kind) ==
    {[rev |-> server.rev + 1, auto |-> a, boot |-> b] : a \in AutoAfter(kind), b \in BootAfter(kind)}

Serve ==
    /\ work.kind # "none" /\ work.got = NoStatus /\ server.rev < MaxStatus
    /\ \E s \in Served(work.kind) : server' = s /\ work' = [work EXCEPT !.got = s]
    /\ UNCHANGED <<ctl, pull, peer, lane, covered>>

\* The answer of a cycle: status, schedule, and whether the first sync goes on.
CycleAnswered(c, s) ==
    LET goesOn == c.follow > 0 /\ s.auto /\ s.boot
    IN  ArmWhenDue([c EXCEPT !.shown = s, !.flight = FALSE, !.due = Interval, !.backoff = 0,
                             !.follow = IF goesOn THEN @ - 1 ELSE 0])

\* A work is answered.  configure and the second half of linkAndCycle go on with a
\* cycle in the same turn of the lane.
Arrives ==
    LET s == work.got
        c == Shows(ctl, s)
    IN  /\ s # NoStatus
        /\ peer' = Stale(peer)
        /\ CASE work.kind \in {"cycle", "manual"} -> ctl' = CycleAnswered(ctl, s) /\ work' = NoWork
             [] work.kind = "link" -> ctl' = c /\ work' = [NoWork EXCEPT !.kind = "enable"]
             [] work.kind = "enable" -> Cycle("manual", [c EXCEPT !.follow = FollowLimit])
             [] work.kind = "configure" ->
                  LET d == [c EXCEPT !.follow = IF s.auto THEN @ ELSE 0]
                  IN  IF ShouldCycle(d) THEN Cycle("cycle", d)
                      ELSE ctl' = ArmWhenDue(d) /\ work' = NoWork
             [] work.kind = "unlink" -> ctl' = [c EXCEPT !.follow = 0] /\ work' = NoWork
             [] OTHER -> ctl' = c /\ work' = NoWork
        /\ UNCHANGED <<server, pull, lane, covered>>

\* A cycle that failed backs off; a failed action only reports (enqueue).
WorkFails ==
    /\ work.kind # "none"
    /\ ctl' = IF work.kind \notin {"cycle", "manual"} THEN ctl
              ELSE Arm([ctl EXCEPT !.flight = FALSE, !.backoff = Interval],
                       IF ctl.shown.auto THEN Interval ELSE 0)
    /\ work' = NoWork
    /\ UNCHANGED <<server, pull, peer, lane, covered>>

\* A message of another tab: a hint to read the status (requestPeerRefresh).
Hint(cycled) ==
    /\ ctl.alive
    /\ ctl' = IF cycled THEN [ctl EXCEPT !.due = Interval] ELSE ctl
    /\ peer' = IF peer.pc = "none" THEN [NoPeer EXCEPT !.pc = "asked", !.fresh = TRUE]
               ELSE [peer EXCEPT !.again = TRUE]
    /\ UNCHANGED <<server, pull, lane, work, covered>>

\* The finally block: one more read if a hint came meanwhile.
PeerOver == IF peer.again THEN [NoPeer EXCEPT !.pc = "asked", !.fresh = TRUE] ELSE NoPeer

ServePeer ==
    /\ peer.pc = "asked"
    /\ peer' = [peer EXCEPT !.pc = "served", !.got = server]
    /\ UNCHANGED <<server, ctl, pull, lane, work, covered>>

\* The first comparison of the epoch: a read older than a local write is dropped.
PeerArrives ==
    /\ peer.pc = "served" /\ HasRoom
    /\ IF peer.fresh THEN Enqueued("adopt") /\ peer' = [peer EXCEPT !.pc = "queued"]
       ELSE peer' = PeerOver /\ UNCHANGED lane
    /\ UNCHANGED <<server, ctl, pull, work, covered>>

PeerFails ==
    /\ peer.pc \in {"asked", "served"}
    /\ peer' = PeerOver
    /\ UNCHANGED <<server, ctl, pull, lane, work, covered>>

\* The epoch is compared again when the lane is free: works before it may have written.
StillFreshUnchecked(p) == TRUE
StillFresh(p) == p.fresh

AdoptPeer ==
    /\ Begins("adopt")
    /\ ctl' = IF StillFresh(peer) THEN ArmWhenDue(Shows(ctl, peer.got)) ELSE ctl
    /\ covered' = (covered \/ (StillFresh(peer) /\ peer.got.rev < ctl.shown.rev))
    /\ peer' = PeerOver
    /\ UNCHANGED <<server, pull, work>>

\* Environment: another tab, another device, or the server's own clock.
OtherWrites ==
    /\ server.rev < MaxStatus
    /\ \E a \in BOOLEAN : server' = [server EXCEPT !.rev = @ + 1, !.auto = a]
    /\ UNCHANGED <<ctl, pull, peer, lane, work, covered>>

Less(n) == IF n = 0 THEN 0 ELSE n - 1
PageTick ==
    /\ ctl.alive
    /\ ctl' = [ctl EXCEPT !.due = Less(@), !.backoff = Less(@), !.timer.in = Less(@)]
    /\ ctl' # ctl
    /\ UNCHANGED <<server, pull, peer, lane, work, covered>>

SyncPageNext ==
    \/ Start \/ Stop \/ Nudge \/ Refresh \/ ServePull \/ PullArrives \/ PullFails
    \/ TimerFires \/ (\E kind \in UserActions : UserAsks(kind))
    \/ BeginCycle \/ BeginAction \/ Serve \/ Arrives \/ WorkFails
    \/ (\E cycled \in BOOLEAN : Hint(cycled)) \/ ServePeer \/ PeerArrives \/ PeerFails
    \/ AdoptPeer \/ OtherWrites \/ PageTick

SyncPageSpec == SyncPageInit /\ [][SyncPageNext]_syncPageVars

\* A status read that another tab's message asked for never covers a newer status:
\* one that started before a local write is dropped, also when the write happened
\* while the read waited for its turn in the lane (the mutationEpoch of
\* requestPeerRefresh and runPeerRefresh).
PeerReadNotOlder == ~covered

\* A page that shows automatic sync and has nothing under way has a timer for its
\* next cycle (arm, delayUntilDue): "Default interval is 120 seconds".
AutomaticIsScheduled ==
    ctl.alive /\ ctl.shown.auto /\ pull = NoPull /\ peer = NoPeer /\ lane = <<>> /\ work = NoWork
        => ctl.timer # NoTimer
=============================================================================
