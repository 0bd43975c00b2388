----------------------------- MODULE PageProofs -----------------------------
(***************************************************************************)
(* Theorems about the page: its sync controller (SyncPage), the record     *)
(* editors (RecordEditor), the focus views (FocusView, FocusAlerts), its   *)
(* session (PageSession), the nicknames of the apps (AppShelf), the lists  *)
(* (FilteredList), the board of the game (Tiles2048) and the dashboard     *)
(* (DashboardLayout).                                                      *)
(***************************************************************************)
EXTENDS SyncPage, RecordEditor, FocusView, PageSession, AppShelf, FilteredList, Tiles2048,
        DashboardLayout, TLAPS, WellFoundedInduction, FiniteSetTheorems, SequenceTheorems

-----------------------------------------------------------------------------
(* The sync controller: a read asked for by another tab is no older.       *)

StatusRec == [rev : Nat, auto : BOOLEAN, boot : BOOLEAN]
TimerRec == [in : Nat, kind : {"none", "status", "cycle"}]
ControlRec ==
    [alive : BOOLEAN, shown : StatusRec, timer : TimerRec, flight : BOOLEAN,
     due : Nat, backoff : Nat, follow : Nat, retry : BOOLEAN]
PeerRec ==
    [pc : {"none", "asked", "served", "queued"}, fresh : BOOLEAN, again : BOOLEAN, got : StatusRec]

SyncPageType ==
    /\ server \in StatusRec /\ ctl \in ControlRec
    /\ pull \in [by : {"none", "page", "nudge"}, got : StatusRec]
    /\ peer \in PeerRec
    /\ lane \in Seq(Works)
    /\ work \in [kind : Works \cup {"none"}, got : StatusRec]
    /\ covered \in BOOLEAN

\* Nothing the page holds is newer than the server, and a peer read that is still
\* fresh is no older than what is shown.
NothingNewer ==
    /\ ctl.shown.rev <= server.rev /\ pull.got.rev <= server.rev
    /\ work.got.rev <= server.rev /\ peer.got.rev <= server.rev
    /\ peer.fresh /\ peer.pc \in {"served", "queued"} => ctl.shown.rev <= peer.got.rev

\* The lane holds one adoption at most, and only of a read that has been served.
AdoptOnce ==
    \A i \in DOMAIN lane : lane[i] = "adopt" =>
        /\ peer.pc = "queued"
        /\ \A j \in DOMAIN lane : lane[j] = "adopt" => j = i

SyncPageInv == SyncPageType /\ NothingNewer /\ AdoptOnce /\ ~covered

\* arm and the delays only move the timer: what is shown stays.
LEMMA DelaysAreNat ==
    ASSUME NEW c \in ControlRec
    PROVE  Limit(c) \in Nat /\ DelayUntilDue(c) \in Nat
BY DEF Limit, Longer, DelayUntilDue, ControlRec

LEMMA ArmKeepsShown ==
    ASSUME NEW c \in ControlRec, NEW delay \in Nat
    PROVE  Arm(c, delay) \in ControlRec /\ Arm(c, delay).shown = c.shown
<1> DEFINE follows == c.follow > 0 /\ c.shown.boot
           wait == IF ~follows THEN delay
                   ELSE IF c.shown.auto THEN Longer(MinDelay, c.backoff) ELSE 0
           armed == wait >= MinDelay
           timer == IF armed THEN [in |-> wait, kind |-> IF c.retry THEN "status" ELSE "cycle"]
                    ELSE NoTimer
           retry == c.retry /\ ~armed
           follow == IF follows /\ ~c.shown.auto THEN 0 ELSE c.follow
           c1 == [c EXCEPT !.timer = timer]
           c2 == [c1 EXCEPT !.retry = retry]
           c3 == [c2 EXCEPT !.follow = follow]
<1>1. MinDelay \in Nat /\ c.backoff \in Nat /\ c.follow \in Nat /\ c.retry \in BOOLEAN
    BY SyncPageAssumption DEF ControlRec
<1>2. wait \in Nat
    BY <1>1 DEF Longer
<1>3. timer \in TimerRec
    BY <1>2 DEF TimerRec, NoTimer
<1>4. retry \in BOOLEAN /\ follow \in Nat
    BY <1>1
<1>5. Arm(c, delay) = c3
    BY DEF Arm, ControlRec
<1> HIDE DEF timer, retry, follow
<1>6. c1 \in ControlRec /\ c1.shown = c.shown
    BY <1>3 DEF ControlRec
<1>7. c2 \in ControlRec /\ c2.shown = c.shown
  <2> HIDE DEF c1
  <2> QED BY <1>4, <1>6 DEF ControlRec
<1>8. c3 \in ControlRec /\ c3.shown = c.shown
  <2> HIDE DEF c1, c2
  <2> QED BY <1>4, <1>7 DEF ControlRec
<1> QED BY <1>5, <1>8

LEMMA ArmWhenDueKeepsShown ==
    ASSUME NEW c \in ControlRec
    PROVE  ArmWhenDue(c) \in ControlRec /\ ArmWhenDue(c).shown = c.shown
BY DelaysAreNat, ArmKeepsShown DEF ArmWhenDue

\* What a turn may do to the lane: nothing, or a work of this page at its end.
LaneGrows == lane' = lane \/ \E kind \in Works \ {"adopt"} : lane' = Append(lane, kind)

LEMMA LaneGrowsKeeps ==
    ASSUME lane \in Seq(Works), AdoptOnce, LaneGrows, peer'.pc = peer.pc
    PROVE  lane' \in Seq(Works) /\ AdoptOnce'
<1>1. CASE lane' = lane
    BY <1>1 DEF AdoptOnce
<1>2. CASE \E kind \in Works \ {"adopt"} : lane' = Append(lane, kind)
  <2>1. PICK kind \in Works \ {"adopt"} : lane' = Append(lane, kind)
      BY <1>2
  <2>2. lane' \in Seq(Works)
      BY <2>1
  <2>3. \A i \in DOMAIN lane' : lane'[i] = "adopt" => i \in DOMAIN lane /\ lane'[i] = lane[i]
      BY <2>1
  <2> QED BY <2>2, <2>3 DEF AdoptOnce
<1> QED BY <1>1, <1>2 DEF LaneGrows

LEMMA LaneTurns ==
    ASSUME lane \in Seq(Works), AdoptOnce, NEW kind, Begins(kind)
    PROVE  /\ lane' \in Seq(Works)
           /\ kind \in Works
           /\ kind = "adopt" => peer.pc = "queued" /\ \A i \in DOMAIN lane' : lane'[i] # "adopt"
           /\ peer'.pc = peer.pc => AdoptOnce'
<1>1. lane # <<>> /\ lane[1] = kind /\ lane' = Tail(lane)
    BY DEF Begins
<1>2. lane' \in Seq(Works) /\ kind \in Works /\ 1 \in DOMAIN lane
    BY <1>1
<1>3. \A i \in DOMAIN lane' : i + 1 \in DOMAIN lane /\ lane'[i] = lane[i + 1] /\ i \in Nat /\ i + 1 # 1
    BY <1>1
<1>4. kind = "adopt" => peer.pc = "queued" /\ \A i \in DOMAIN lane' : lane'[i] # "adopt"
    BY <1>1, <1>2, <1>3 DEF AdoptOnce
<1>5. ASSUME peer'.pc = peer.pc  PROVE AdoptOnce'
  <2>1. \A i, j \in DOMAIN lane' : lane'[i] = "adopt" /\ lane'[j] = "adopt" => j = i
    <3> SUFFICES ASSUME NEW i \in DOMAIN lane', NEW j \in DOMAIN lane', lane'[i] = "adopt", lane'[j] = "adopt"
                 PROVE  j = i
        OBVIOUS
    <3>1. j + 1 = i + 1
        BY <1>3 DEF AdoptOnce
    <3> QED BY <3>1, <1>3
  <2>2. \A i \in DOMAIN lane' : lane'[i] = "adopt" => peer'.pc = "queued"
      BY <1>3, <1>5 DEF AdoptOnce
  <2> QED BY <2>1, <2>2 DEF AdoptOnce
<1> QED BY <1>2, <1>4, <1>5

LEMMA RunCycleKeeps ==
    ASSUME NEW c \in ControlRec, NEW kind \in Works \ {"adopt"}, RunCycle(c, kind)
    PROVE  ctl' \in ControlRec /\ ctl'.shown = c.shown /\ LaneGrows
BY DEF RunCycle, Enqueued, LaneGrows, ControlRec

LEMMA CycleOrArmKeeps ==
    ASSUME NEW c \in ControlRec, CycleOrArm(c)
    PROVE  ctl' \in ControlRec /\ ctl'.shown = c.shown /\ LaneGrows
<1>1. "cycle" \in Works \ {"adopt"}
    BY DEF Works
<1> QED BY <1>1, RunCycleKeeps, ArmWhenDueKeepsShown DEF CycleOrArm, LaneGrows

\* The step of an action in which a status s of the server, or the one shown, is shown.
LEMMA SyncPageMoves ==
    ASSUME SyncPageInv,
           server' \in StatusRec, server.rev <= server'.rev,
           ctl' \in ControlRec,
           \/ ctl'.shown = ctl.shown /\ peer' = peer
           \/ ctl'.shown.rev <= server'.rev /\ peer' = Stale(peer),
           pull' \in [by : {"none", "page", "nudge"}, got : StatusRec], pull'.got.rev <= server'.rev,
           work' \in [kind : Works \cup {"none"}, got : StatusRec], work'.got.rev <= server'.rev,
           lane' \in Seq(Works), AdoptOnce', covered' = covered
    PROVE  SyncPageInv'
<1>1. peer' \in PeerRec /\ peer'.got = peer.got /\ peer'.pc = peer.pc /\ (peer' = peer \/ ~peer'.fresh)
    BY DEF SyncPageInv, SyncPageType, PeerRec, Stale
<1>2. SyncPageType'
    BY <1>1 DEF SyncPageInv, SyncPageType
<1>3. NothingNewer'
  <2>1. /\ server.rev \in Nat /\ server'.rev \in Nat /\ ctl.shown.rev \in Nat /\ ctl'.shown.rev \in Nat
        /\ pull'.got.rev \in Nat /\ work'.got.rev \in Nat /\ peer.got.rev \in Nat
      BY DEF SyncPageInv, SyncPageType, StatusRec, ControlRec, PeerRec
  <2>2. ctl'.shown.rev <= server'.rev
      BY <2>1 DEF SyncPageInv, NothingNewer
  <2>3. peer'.got.rev <= server'.rev
      BY <2>1, <1>1 DEF SyncPageInv, NothingNewer
  <2>4. peer'.fresh /\ peer'.pc \in {"served", "queued"} => ctl'.shown.rev <= peer'.got.rev
      BY <1>1 DEF SyncPageInv, NothingNewer, Stale, PeerRec, SyncPageType
  <2> QED BY <2>2, <2>3, <2>4 DEF NothingNewer
<1> QED BY <1>2, <1>3 DEF SyncPageInv

\* What the constants of the page are.
LEMMA NothingAsked ==
    /\ NoStatus \in StatusRec /\ NoStatus.rev = 0
    /\ NoPull \in [by : {"none", "page", "nudge"}, got : StatusRec] /\ NoPull.got.rev = 0
    /\ NoWork \in [kind : Works \cup {"none"}, got : StatusRec] /\ NoWork.got.rev = 0
    /\ NoPeer \in PeerRec /\ NoPeer.pc = "none" /\ NoPeer.got.rev = 0
    /\ NewController \in ControlRec /\ NewController.shown.rev = 0
BY DEF NoStatus, NoPull, NoWork, NoPeer, NewController, NoTimer, StatusRec, PeerRec, ControlRec, TimerRec

LEMMA AskPullKeeps ==
    ASSUME NEW by \in {"page", "nudge"}, AskPull(by)
    PROVE  pull' \in [by : {"none", "page", "nudge"}, got : StatusRec] /\ pull'.got.rev = 0
BY DEF AskPull, NoPull, NoStatus, StatusRec

\* A cycle begins, backs off, or only arms.
LEMMA CycleKeeps ==
    ASSUME NEW c \in ControlRec, NEW kind \in Works, Cycle(kind, c)
    PROVE  /\ ctl' \in ControlRec /\ ctl'.shown = c.shown
           /\ work' \in [kind : Works \cup {"none"}, got : StatusRec] /\ work'.got.rev = 0
<1> DEFINE landed == [c EXCEPT !.flight = FALSE]
           away == [landed EXCEPT !.backoff = Interval]
<1>1. Interval \in Nat
    BY SyncPageAssumption
<1>2. landed \in ControlRec /\ landed.shown = c.shown
    BY DEF ControlRec
<1>3. away \in ControlRec /\ away.shown = c.shown
  <2> HIDE DEF landed
  <2> QED BY <1>1, <1>2 DEF ControlRec
<1>4. [c EXCEPT !.flight = FALSE, !.backoff = Interval] = away
    BY DEF ControlRec
<1>5. \/ ctl' = ArmWhenDue(landed) /\ work' = NoWork
      \/ ctl' = Arm(away, Interval) /\ work' = NoWork
      \/ ctl' = c /\ work' = [NoWork EXCEPT !.kind = kind]
    BY <1>4 DEF Cycle
<1>6. /\ [NoWork EXCEPT !.kind = kind] \in [kind : Works \cup {"none"}, got : StatusRec]
      /\ [NoWork EXCEPT !.kind = kind].got.rev = 0
    BY NothingAsked DEF NoWork
<1> HIDE DEF landed, away
<1> QED BY <1>1, <1>2, <1>3, <1>5, <1>6, NothingAsked, ArmKeepsShown, ArmWhenDueKeepsShown

\* The facts every case below starts from.
LEMMA SyncPageFacts ==
    ASSUME SyncPageInv
    PROVE  /\ server \in StatusRec /\ server.rev \in Nat /\ server.rev <= server.rev
           /\ ctl \in ControlRec /\ ctl.shown \in StatusRec /\ ctl.shown.rev <= server.rev
           /\ pull \in [by : {"none", "page", "nudge"}, got : StatusRec] /\ pull.got.rev <= server.rev
           /\ work \in [kind : Works \cup {"none"}, got : StatusRec] /\ work.got.rev <= server.rev
           /\ peer \in PeerRec /\ peer.got.rev <= server.rev
           /\ lane \in Seq(Works) /\ AdoptOnce
           /\ 0 <= server.rev
BY DEF SyncPageInv, SyncPageType, NothingNewer, StatusRec, ControlRec

LEMMA StartKeeps == ASSUME SyncPageInv, Start PROVE SyncPageInv'
<1>1. ctl' \in ControlRec /\ ctl'.shown = ctl.shown /\ peer' = peer /\ lane' = lane /\ AdoptOnce'
    BY SyncPageFacts DEF Start, ControlRec, AdoptOnce
<1> QED BY <1>1, SyncPageFacts, AskPullKeeps, SyncPageMoves DEF Start

LEMMA StopKeeps == ASSUME SyncPageInv, Stop PROVE SyncPageInv'
<1>1. ctl' = NewController /\ pull' = NoPull /\ peer' = NoPeer /\ lane' = <<>> /\ work' = NoWork
      /\ server' = server /\ covered' = covered
    BY DEF Stop
<1>2. SyncPageType' /\ NothingNewer' /\ AdoptOnce'
    BY <1>1, NothingAsked, SyncPageFacts DEF SyncPageInv, SyncPageType, NothingNewer, AdoptOnce
<1> QED BY <1>1, <1>2 DEF SyncPageInv

LEMMA NudgeKeeps == ASSUME SyncPageInv, Nudge PROVE SyncPageInv'
<1>1. UNCHANGED <<server, peer, work, covered>>
    BY DEF Nudge
<1>2. ctl' \in ControlRec /\ ctl'.shown = ctl.shown /\ LaneGrows
      /\ pull' \in [by : {"none", "page", "nudge"}, got : StatusRec] /\ pull'.got.rev <= server'.rev
  <2>1. CASE ShouldCycle(ctl)
      BY <2>1, SyncPageFacts, RunCycleKeeps DEF Nudge, Works
  <2>2. CASE ~ShouldCycle(ctl)
      BY <2>2, SyncPageFacts, AskPullKeeps DEF Nudge, LaneGrows
  <2> QED BY <2>1, <2>2
<1>3. lane' \in Seq(Works) /\ AdoptOnce'
    BY <1>1, <1>2, SyncPageFacts, LaneGrowsKeeps
<1> QED BY <1>1, <1>2, <1>3, SyncPageFacts, SyncPageMoves

LEMMA RefreshKeeps == ASSUME SyncPageInv, Refresh PROVE SyncPageInv'
<1>1. AdoptOnce'
    BY SyncPageFacts DEF Refresh, AdoptOnce
<1> QED BY <1>1, SyncPageFacts, AskPullKeeps, SyncPageMoves DEF Refresh

LEMMA ServePullKeeps == ASSUME SyncPageInv, ServePull PROVE SyncPageInv'
<1>1. AdoptOnce' /\ pull' \in [by : {"none", "page", "nudge"}, got : StatusRec] /\ pull'.got.rev <= server'.rev
    BY SyncPageFacts DEF ServePull, AdoptOnce
<1> QED BY <1>1, SyncPageFacts, SyncPageMoves DEF ServePull

LEMMA ShownIsControl ==
    ASSUME NEW c \in ControlRec, NEW s \in StatusRec
    PROVE  Shows(c, s) \in ControlRec /\ Shows(c, s).shown = s
BY DEF Shows, ControlRec

LEMMA PullArrivesKeeps == ASSUME SyncPageInv, PullArrives PROVE SyncPageInv'
<1> DEFINE c == Shows(ctl, pull.got)
<1>1. pull' = NoPull /\ peer' = Stale(peer) /\ CycleOrArm(c) /\ UNCHANGED <<server, work, covered>>
    BY DEF PullArrives
<1>2. c \in ControlRec /\ c.shown = pull.got
    BY SyncPageFacts, ShownIsControl
<1>3. ctl' \in ControlRec /\ ctl'.shown = pull.got /\ LaneGrows
  <2> HIDE DEF c
  <2> QED BY <1>1, <1>2, CycleOrArmKeeps
<1>4. peer'.pc = peer.pc
    BY <1>1, SyncPageFacts DEF Stale, PeerRec
<1>5. lane' \in Seq(Works) /\ AdoptOnce'
    BY <1>3, <1>4, SyncPageFacts, LaneGrowsKeeps
<1> QED BY <1>1, <1>3, <1>5, SyncPageFacts, NothingAsked, SyncPageMoves

LEMMA PullFailsKeeps == ASSUME SyncPageInv, PullFails PROVE SyncPageInv'
<1> DEFINE again == [ctl EXCEPT !.retry = TRUE]
           c == Arm(again, Interval)
<1>1. again \in ControlRec /\ again.shown = ctl.shown
    BY SyncPageFacts DEF ControlRec
<1>2. c \in ControlRec /\ c.shown = ctl.shown
  <2> HIDE DEF again
  <2> QED BY <1>1, ArmKeepsShown, SyncPageAssumption
<1>3. ctl' = IF pull.by = "nudge" THEN ArmWhenDue(c) ELSE c
    BY DEF PullFails
<1>4. ctl' \in ControlRec /\ ctl'.shown = ctl.shown
  <2> HIDE DEF c
  <2> QED BY <1>2, <1>3, ArmWhenDueKeepsShown
<1>5. pull' = NoPull /\ UNCHANGED <<server, peer, lane, work, covered>> /\ AdoptOnce'
    BY SyncPageFacts DEF PullFails, AdoptOnce
<1> QED BY <1>4, <1>5, SyncPageFacts, NothingAsked, SyncPageMoves

LEMMA TimerFiresKeeps == ASSUME SyncPageInv, TimerFires PROVE SyncPageInv'
<1> DEFINE c == [ctl EXCEPT !.timer = NoTimer]
<1>1. UNCHANGED <<server, peer, work, covered>>
    BY DEF TimerFires
<1>2. c \in ControlRec /\ c.shown = ctl.shown
    BY SyncPageFacts DEF ControlRec, TimerRec, NoTimer
<1>3. \/ AskPull("page") /\ ctl' = c /\ UNCHANGED lane
      \/ (RunCycle(c, "cycle") \/ CycleOrArm(c)) /\ UNCHANGED pull
    BY DEF TimerFires
<1>4. "cycle" \in Works \ {"adopt"}
    BY DEF Works
<1>5. /\ ctl' \in ControlRec /\ ctl'.shown = ctl.shown /\ LaneGrows
      /\ pull' \in [by : {"none", "page", "nudge"}, got : StatusRec] /\ pull'.got.rev <= server'.rev
  <2> HIDE DEF c
  <2>1. CASE AskPull("page") /\ ctl' = c /\ UNCHANGED lane
      BY <2>1, <1>1, <1>2, AskPullKeeps, SyncPageFacts DEF LaneGrows
  <2>2. CASE RunCycle(c, "cycle") /\ UNCHANGED pull
      BY <2>2, <1>1, <1>2, <1>4, RunCycleKeeps, SyncPageFacts
  <2>3. CASE CycleOrArm(c) /\ UNCHANGED pull
      BY <2>3, <1>1, <1>2, CycleOrArmKeeps, SyncPageFacts
  <2> QED BY <1>3, <2>1, <2>2, <2>3
<1>6. lane' \in Seq(Works) /\ AdoptOnce'
    BY <1>1, <1>5, SyncPageFacts, LaneGrowsKeeps
<1> QED BY <1>1, <1>5, <1>6, SyncPageFacts, SyncPageMoves

LEMMA UserAsksKeeps ==
    ASSUME SyncPageInv, NEW kind \in UserActions, UserAsks(kind)
    PROVE  SyncPageInv'
<1>1. kind \in Works \ {"adopt"}
    BY SyncPageAssumption DEF Works
<1>2. UNCHANGED <<server, pull, peer, work, covered>>
    BY DEF UserAsks
<1>3. ctl' \in ControlRec /\ ctl'.shown = ctl.shown /\ LaneGrows
    BY <1>1, SyncPageFacts, RunCycleKeeps DEF UserAsks, Enqueued, LaneGrows
<1>4. lane' \in Seq(Works) /\ AdoptOnce'
    BY <1>2, <1>3, SyncPageFacts, LaneGrowsKeeps
<1> QED BY <1>2, <1>3, <1>4, SyncPageFacts, SyncPageMoves

LEMMA BeginCycleKeeps == ASSUME SyncPageInv, BeginCycle PROVE SyncPageInv'
<1>1. PICK kind \in {"cycle", "manual"} : Begins(kind) /\ Cycle(kind, ctl)
    BY DEF BeginCycle
<1>2. UNCHANGED <<server, pull, peer, covered>>
    BY DEF BeginCycle
<1>3. lane' \in Seq(Works) /\ kind \in Works /\ AdoptOnce'
    BY <1>1, <1>2, SyncPageFacts, LaneTurns
<1>4. /\ ctl' \in ControlRec /\ ctl'.shown = ctl.shown
      /\ work' \in [kind : Works \cup {"none"}, got : StatusRec] /\ work'.got.rev <= server'.rev
    BY <1>1, <1>2, <1>3, SyncPageFacts, CycleKeeps
<1> QED BY <1>2, <1>3, <1>4, SyncPageFacts, SyncPageMoves

LEMMA BeginActionKeeps == ASSUME SyncPageInv, BeginAction PROVE SyncPageInv'
<1>1. PICK kind \in {"configure", "link", "unlink", "resolve"} :
         Begins(kind) /\ work' = [NoWork EXCEPT !.kind = kind]
    BY DEF BeginAction
<1>2. UNCHANGED <<server, ctl, pull, peer, covered>>
    BY DEF BeginAction
<1>3. lane' \in Seq(Works) /\ kind \in Works /\ AdoptOnce'
    BY <1>1, <1>2, SyncPageFacts, LaneTurns
<1>4. work' \in [kind : Works \cup {"none"}, got : StatusRec] /\ work'.got.rev <= server'.rev
    BY <1>1, <1>2, <1>3, SyncPageFacts, NothingAsked DEF NoWork
<1> QED BY <1>2, <1>3, <1>4, SyncPageFacts, SyncPageMoves

LEMMA ServeWorkKeeps == ASSUME SyncPageInv, Serve PROVE SyncPageInv'
<1>1. PICK s \in Served(work.kind) : server' = s /\ work' = [work EXCEPT !.got = s]
    BY DEF Serve
<1>2. UNCHANGED <<ctl, pull, peer, lane, covered>> /\ AdoptOnce'
    BY SyncPageFacts DEF Serve, AdoptOnce
<1>3. PICK a, b : s = [rev |-> server.rev + 1, auto |-> a, boot |-> b] /\ a \in BOOLEAN /\ b \in BOOLEAN
  <2>1. server.auto \in BOOLEAN /\ server.boot \in BOOLEAN
      BY SyncPageFacts DEF StatusRec
  <2>2. \A a \in AutoAfter(work.kind) : a \in BOOLEAN
      BY <2>1 DEF AutoAfter
  <2>3. \A b \in BootAfter(work.kind) : b \in BOOLEAN
      BY <2>1 DEF BootAfter
  <2>4. PICK a \in AutoAfter(work.kind), b \in BootAfter(work.kind) :
           s = [rev |-> server.rev + 1, auto |-> a, boot |-> b]
      BY DEF Served
  <2> QED BY <2>2, <2>3, <2>4
<1>4. s \in StatusRec /\ s.rev = server.rev + 1
    BY <1>3, SyncPageFacts DEF StatusRec
<1>5. server' \in StatusRec /\ server.rev <= server'.rev
      /\ work' \in [kind : Works \cup {"none"}, got : StatusRec] /\ work'.got.rev <= server'.rev
    BY <1>1, <1>4, SyncPageFacts
<1>6. pull'.got.rev <= server'.rev
    BY <1>1, <1>2, <1>4, SyncPageFacts DEF StatusRec
<1> QED BY <1>2, <1>5, <1>6, SyncPageFacts, SyncPageMoves

LEMMA CycleAnsweredShows ==
    ASSUME NEW c \in ControlRec, NEW s \in StatusRec
    PROVE  CycleAnswered(c, s) \in ControlRec /\ CycleAnswered(c, s).shown = s
<1> DEFINE follow == IF c.follow > 0 /\ s.auto /\ s.boot THEN c.follow - 1 ELSE 0
           c1 == [c EXCEPT !.shown = s]
           c2 == [c1 EXCEPT !.flight = FALSE]
           c3 == [c2 EXCEPT !.due = Interval]
           c4 == [c3 EXCEPT !.backoff = 0]
           c5 == [c4 EXCEPT !.follow = follow]
<1>1. follow \in Nat /\ Interval \in Nat
    BY SyncPageAssumption DEF ControlRec
<1>2. CycleAnswered(c, s) = ArmWhenDue(c5)
    BY DEF CycleAnswered, ControlRec
<1> HIDE DEF follow
<1>3. c1 \in ControlRec /\ c1.shown = s
    BY DEF ControlRec
<1>4. c2 \in ControlRec /\ c2.shown = s
  <2> HIDE DEF c1
  <2> QED BY <1>3 DEF ControlRec
<1>5. c3 \in ControlRec /\ c3.shown = s
  <2> HIDE DEF c2
  <2> QED BY <1>1, <1>4 DEF ControlRec
<1>6. c4 \in ControlRec /\ c4.shown = s
  <2> HIDE DEF c3
  <2> QED BY <1>5 DEF ControlRec
<1>7. c5 \in ControlRec /\ c5.shown = s
  <2> HIDE DEF c4
  <2> QED BY <1>1, <1>6 DEF ControlRec
<1> HIDE DEF c5
<1> QED BY <1>2, <1>7, ArmWhenDueKeepsShown

\* The answer of each kind of work shows the status it carries.
LEMMA ArrivesShows ==
    ASSUME SyncPageInv, Arrives
    PROVE  /\ ctl' \in ControlRec /\ ctl'.shown = work.got
           /\ work' \in [kind : Works \cup {"none"}, got : StatusRec] /\ work'.got.rev = 0
<1> DEFINE s == work.got
           c == Shows(ctl, s)
           d == [c EXCEPT !.follow = IF s.auto THEN @ ELSE 0]
           f == [c EXCEPT !.follow = FollowLimit]
           u == [c EXCEPT !.follow = 0]
<1>1. s \in StatusRec /\ ctl \in ControlRec
    BY SyncPageFacts
<1>2. c \in ControlRec /\ c.shown = s
    BY <1>1, ShownIsControl
<1>3. /\ d \in ControlRec /\ d.shown = s
      /\ f \in ControlRec /\ f.shown = s
      /\ u \in ControlRec /\ u.shown = s
  <2> HIDE DEF c, s
  <2>1. FollowLimit \in Nat /\ c.follow \in Nat
      BY <1>2, SyncPageAssumption DEF ControlRec
  <2> QED BY <1>2, <2>1 DEF ControlRec
<1>4. \/ ctl' = CycleAnswered(ctl, s) /\ work' = NoWork
      \/ ctl' = c /\ work' = [NoWork EXCEPT !.kind = "enable"]
      \/ Cycle("manual", f)
      \/ Cycle("cycle", d)
      \/ ctl' = ArmWhenDue(d) /\ work' = NoWork
      \/ ctl' = u /\ work' = NoWork
      \/ ctl' = c /\ work' = NoWork
    BY DEF Arrives
<1>5. /\ [NoWork EXCEPT !.kind = "enable"] \in [kind : Works \cup {"none"}, got : StatusRec]
      /\ [NoWork EXCEPT !.kind = "enable"].got.rev = 0
      /\ "manual" \in Works /\ "cycle" \in Works
    BY NothingAsked DEF NoWork, Works
<1> HIDE DEF c, d, f, u, s
<1>6. CASE Cycle("manual", f)
    BY <1>6, <1>3, <1>5, CycleKeeps DEF s
<1>7. CASE Cycle("cycle", d)
    BY <1>7, <1>3, <1>5, CycleKeeps DEF s
<1>8. CASE ctl' = ArmWhenDue(d) /\ work' = NoWork
    BY <1>8, <1>3, NothingAsked, ArmWhenDueKeepsShown DEF s
<1>9. CASE ctl' = CycleAnswered(ctl, s) /\ work' = NoWork
    BY <1>9, <1>1, NothingAsked, CycleAnsweredShows DEF s
<1> QED BY <1>2, <1>3, <1>4, <1>5, <1>6, <1>7, <1>8, <1>9, NothingAsked DEF s

LEMMA ArrivesKeeps == ASSUME SyncPageInv, Arrives PROVE SyncPageInv'
<1>1. peer' = Stale(peer) /\ UNCHANGED <<server, pull, lane, covered>>
    BY DEF Arrives
<1>2. peer'.pc = peer.pc
    BY <1>1, SyncPageFacts DEF Stale, PeerRec
<1>3. AdoptOnce'
    BY <1>1, <1>2, SyncPageFacts DEF AdoptOnce
<1>4. /\ ctl' \in ControlRec /\ ctl'.shown = work.got
      /\ work' \in [kind : Works \cup {"none"}, got : StatusRec] /\ work'.got.rev = 0
    BY ArrivesShows
<1> QED BY <1>1, <1>3, <1>4, SyncPageFacts, SyncPageMoves

LEMMA WorkFailsKeeps == ASSUME SyncPageInv, WorkFails PROVE SyncPageInv'
<1> DEFINE landed == [ctl EXCEPT !.flight = FALSE]
           away == [landed EXCEPT !.backoff = Interval]
           delay == IF ctl.shown.auto THEN Interval ELSE 0
<1>1. Interval \in Nat /\ delay \in Nat
    BY SyncPageAssumption
<1>2. landed \in ControlRec /\ landed.shown = ctl.shown
    BY SyncPageFacts DEF ControlRec
<1>3. away \in ControlRec /\ away.shown = ctl.shown
  <2> HIDE DEF landed
  <2> QED BY <1>1, <1>2 DEF ControlRec
<1>4. ctl' = ctl \/ ctl' = Arm(away, delay)
    BY SyncPageFacts DEF WorkFails, ControlRec
<1>5. ctl' \in ControlRec /\ ctl'.shown = ctl.shown
  <2> HIDE DEF away, delay
  <2> QED BY <1>1, <1>3, <1>4, ArmKeepsShown, SyncPageFacts
<1>6. work' = NoWork /\ UNCHANGED <<server, pull, peer, lane, covered>> /\ AdoptOnce'
    BY SyncPageFacts DEF WorkFails, AdoptOnce
<1> QED BY <1>5, <1>6, SyncPageFacts, NothingAsked, SyncPageMoves

LEMMA HintKeeps == ASSUME SyncPageInv, NEW cycled \in BOOLEAN, Hint(cycled) PROVE SyncPageInv'
<1> DEFINE asked == [NoPeer EXCEPT !.pc = "asked", !.fresh = TRUE]
<1>1. UNCHANGED <<server, pull, lane, work, covered>>
    BY DEF Hint
<1>2. ctl' \in ControlRec /\ ctl'.shown = ctl.shown
  <2>1. Interval \in Nat
      BY SyncPageAssumption
  <2> QED BY <2>1, SyncPageFacts DEF Hint, ControlRec
<1>3. \/ peer.pc = "none" /\ peer' = asked
      \/ peer.pc # "none" /\ peer' = [peer EXCEPT !.again = TRUE]
    BY DEF Hint
<1>4. asked \in PeerRec /\ asked.pc = "asked" /\ asked.got.rev = 0
    BY NothingAsked DEF NoPeer, PeerRec
<1>5. /\ peer' \in PeerRec /\ peer'.got.rev <= server'.rev
      /\ peer.pc = "queued" => peer'.pc = "queued"
      /\ peer'.fresh /\ peer'.pc \in {"served", "queued"} => ctl.shown.rev <= peer'.got.rev
  <2> HIDE DEF asked
  <2>1. CASE peer.pc = "none" /\ peer' = asked
      BY <2>1, <1>1, <1>4, SyncPageFacts
  <2>2. CASE peer' = [peer EXCEPT !.again = TRUE]
      BY <2>2, <1>1, SyncPageFacts DEF PeerRec, SyncPageInv, NothingNewer
  <2> QED BY <1>3, <2>1, <2>2
<1>6. SyncPageType' /\ NothingNewer'
    BY <1>1, <1>2, <1>5, SyncPageFacts DEF SyncPageInv, SyncPageType, NothingNewer
<1>7. AdoptOnce'
    BY <1>1, <1>5 DEF SyncPageInv, AdoptOnce
<1> QED BY <1>1, <1>6, <1>7 DEF SyncPageInv

\* The step of an action on the peer read alone.
LEMMA PeerMoves ==
    ASSUME SyncPageInv, UNCHANGED <<server, ctl, pull, work, covered>>,
           peer' \in PeerRec, peer'.got.rev <= server.rev,
           peer'.fresh /\ peer'.pc \in {"served", "queued"} => ctl.shown.rev <= peer'.got.rev,
           lane' \in Seq(Works), AdoptOnce'
    PROVE  SyncPageInv'
BY DEF SyncPageInv, SyncPageType, NothingNewer

LEMMA PeerOverIsPeer ==
    PeerOver \in PeerRec /\ PeerOver.got.rev = 0 /\ PeerOver.pc \in {"none", "asked"}
BY NothingAsked DEF PeerOver, NoPeer, PeerRec

LEMMA ServePeerKeeps == ASSUME SyncPageInv, ServePeer PROVE SyncPageInv'
<1> DEFINE p1 == [peer EXCEPT !.pc = "served"]
           p2 == [p1 EXCEPT !.got = server]
<1>1. peer.pc = "asked" /\ peer' = p2 /\ UNCHANGED <<server, ctl, pull, lane, work, covered>>
    BY SyncPageFacts DEF ServePeer, PeerRec
<1>2. p1 \in PeerRec /\ p1.pc = "served"
    BY SyncPageFacts DEF PeerRec
<1>3. p2 \in PeerRec /\ p2.got = server
  <2> HIDE DEF p1
  <2> QED BY <1>2, SyncPageFacts DEF PeerRec
<1>4. AdoptOnce'
    BY <1>1, SyncPageFacts DEF AdoptOnce
<1> HIDE DEF p2
<1> QED BY <1>1, <1>3, <1>4, SyncPageFacts, PeerMoves

LEMMA PeerArrivesKeeps == ASSUME SyncPageInv, PeerArrives PROVE SyncPageInv'
<1>1. peer.pc = "served" /\ UNCHANGED <<server, ctl, pull, work, covered>>
    BY DEF PeerArrives
<1>2. \A i \in DOMAIN lane : lane[i] # "adopt"
    BY <1>1, SyncPageFacts DEF AdoptOnce
<1>3. CASE peer.fresh
  <2>1. lane' = Append(lane, "adopt") /\ peer' = [peer EXCEPT !.pc = "queued"]
      BY <1>3 DEF PeerArrives, Enqueued
  <2>2. peer' \in PeerRec /\ peer'.pc = "queued" /\ peer'.got = peer.got /\ ctl.shown.rev <= peer'.got.rev
      BY <1>1, <1>3, <2>1, SyncPageFacts DEF PeerRec, SyncPageInv, NothingNewer
  <2>3. lane' \in Seq(Works)
      BY <2>1, SyncPageFacts DEF Works
  <2>4. \A i \in DOMAIN lane' : lane'[i] = "adopt" => i = Len(lane) + 1
      BY <1>2, <2>1, SyncPageFacts
  <2>5. AdoptOnce'
      BY <2>2, <2>4 DEF AdoptOnce
  <2> QED BY <1>1, <2>2, <2>3, <2>5, SyncPageFacts, PeerMoves
<1>4. CASE ~peer.fresh
  <2>1. peer' = PeerOver /\ UNCHANGED lane /\ AdoptOnce'
      BY <1>2, <1>4 DEF PeerArrives, AdoptOnce
  <2> QED BY <1>1, <2>1, PeerOverIsPeer, SyncPageFacts, PeerMoves
<1> QED BY <1>3, <1>4

LEMMA PeerFailsKeeps == ASSUME SyncPageInv, PeerFails PROVE SyncPageInv'
<1>1. peer.pc # "queued" /\ peer' = PeerOver /\ UNCHANGED <<server, ctl, pull, lane, work, covered>>
    BY DEF PeerFails
<1>2. AdoptOnce'
    BY <1>1, SyncPageFacts DEF AdoptOnce
<1> QED BY <1>1, <1>2, PeerOverIsPeer, SyncPageFacts, PeerMoves

LEMMA AdoptPeerKeeps == ASSUME SyncPageInv, AdoptPeer PROVE SyncPageInv'
<1>1. Begins("adopt") /\ peer' = PeerOver /\ UNCHANGED <<server, pull, work>>
    BY DEF AdoptPeer
<1>2. lane' \in Seq(Works) /\ peer.pc = "queued" /\ \A i \in DOMAIN lane' : lane'[i] # "adopt"
    BY <1>1, SyncPageFacts, LaneTurns
<1>3. AdoptOnce'
    BY <1>2 DEF AdoptOnce
<1>4. ctl' \in ControlRec /\ ctl'.shown.rev <= server.rev
  <2>1. Shows(ctl, peer.got) \in ControlRec /\ Shows(ctl, peer.got).shown = peer.got
      BY SyncPageFacts, ShownIsControl DEF PeerRec
  <2> QED BY <2>1, SyncPageFacts, ArmWhenDueKeepsShown DEF AdoptPeer
<1>5. covered' = FALSE
  <2>1. peer.fresh => ctl.shown.rev <= peer.got.rev
      BY <1>2 DEF SyncPageInv, NothingNewer
  <2>2. ctl.shown.rev \in Nat /\ peer.got.rev \in Nat
      BY SyncPageFacts DEF StatusRec, PeerRec
  <2>3. ~(peer.fresh /\ peer.got.rev < ctl.shown.rev)
      BY <2>1, <2>2
  <2>4. covered' = (covered \/ (peer.fresh /\ peer.got.rev < ctl.shown.rev)) /\ ~covered
      BY DEF AdoptPeer, StillFresh, SyncPageInv
  <2> QED BY Zenon, <2>3, <2>4
<1>6. SyncPageType'
    BY <1>1, <1>2, <1>4, <1>5, PeerOverIsPeer, SyncPageFacts DEF SyncPageType
<1>7. NothingNewer'
    BY <1>1, <1>4, PeerOverIsPeer, SyncPageFacts DEF NothingNewer
<1> QED BY <1>3, <1>5, <1>6, <1>7 DEF SyncPageInv

LEMMA OtherWritesKeeps == ASSUME SyncPageInv, OtherWrites PROVE SyncPageInv'
<1> DEFINE s1 == [server EXCEPT !.rev = server.rev + 1]
<1>1. PICK a \in BOOLEAN : server' = [s1 EXCEPT !.auto = a]
    BY SyncPageFacts DEF OtherWrites, StatusRec
<1>2. s1 \in StatusRec /\ s1.rev = server.rev + 1
    BY SyncPageFacts DEF StatusRec
<1>3. server' \in StatusRec /\ server'.rev = server.rev + 1
  <2> HIDE DEF s1
  <2> QED BY <1>1, <1>2 DEF StatusRec
<1>4. UNCHANGED <<ctl, pull, peer, lane, work, covered>> /\ AdoptOnce'
    BY SyncPageFacts DEF OtherWrites, AdoptOnce
<1>5. server.rev <= server'.rev /\ pull'.got.rev <= server'.rev /\ work'.got.rev <= server'.rev
    BY <1>3, <1>4, SyncPageFacts DEF StatusRec
<1> QED BY <1>3, <1>4, <1>5, SyncPageFacts, SyncPageMoves

LEMMA PageTickKeeps == ASSUME SyncPageInv, PageTick PROVE SyncPageInv'
<1> DEFINE c1 == [ctl EXCEPT !.due = Less(ctl.due)]
           c2 == [c1 EXCEPT !.backoff = Less(ctl.backoff)]
           c3 == [c2 EXCEPT !.timer = [ctl.timer EXCEPT !.in = Less(ctl.timer.in)]]
<1>1. ctl \in ControlRec /\ ctl' = c3
    BY SyncPageFacts DEF PageTick, ControlRec
<1>2. /\ Less(ctl.due) \in Nat /\ Less(ctl.backoff) \in Nat
      /\ [ctl.timer EXCEPT !.in = Less(ctl.timer.in)] \in TimerRec
    BY <1>1 DEF Less, ControlRec, TimerRec
<1>3. c1 \in ControlRec /\ c1.shown = ctl.shown
    BY <1>1, <1>2 DEF ControlRec
<1>4. c2 \in ControlRec /\ c2.shown = ctl.shown
  <2> HIDE DEF c1
  <2> QED BY <1>2, <1>3 DEF ControlRec
<1>5. c3 \in ControlRec /\ c3.shown = ctl.shown
  <2> HIDE DEF c2
  <2> QED BY <1>2, <1>4 DEF ControlRec
<1>6. UNCHANGED <<server, pull, peer, lane, work, covered>> /\ AdoptOnce'
    BY SyncPageFacts DEF PageTick, AdoptOnce
<1> HIDE DEF c3
<1> QED BY <1>1, <1>5, <1>6, SyncPageFacts, SyncPageMoves

LEMMA SyncPageInitInv == SyncPageInit => SyncPageInv
<1> SUFFICES ASSUME SyncPageInit PROVE SyncPageInv
    OBVIOUS
<1>1. server \in StatusRec /\ server.rev = 1
    BY DEF SyncPageInit, StatusRec
<1>2. ctl = NewController /\ pull = NoPull /\ peer = NoPeer /\ lane = <<>> /\ work = NoWork /\ covered = FALSE
    BY DEF SyncPageInit
<1>3. SyncPageType
  <2>1. <<>> \in Seq(Works)
      OBVIOUS
  <2> QED BY <1>1, <1>2, <2>1, NothingAsked DEF SyncPageType
<1>4. NothingNewer
    BY <1>1, <1>2, NothingAsked DEF NothingNewer
<1>5. AdoptOnce
    BY <1>2 DEF AdoptOnce
<1> QED BY <1>2, <1>3, <1>4, <1>5 DEF SyncPageInv

LEMMA SyncPageStep == SyncPageInv /\ [SyncPageNext]_syncPageVars => SyncPageInv'
<1> SUFFICES ASSUME SyncPageInv, [SyncPageNext]_syncPageVars PROVE SyncPageInv'
    OBVIOUS
<1>1. CASE UNCHANGED syncPageVars
    BY <1>1 DEF syncPageVars, SyncPageInv, SyncPageType, NothingNewer, AdoptOnce
<1>2. CASE SyncPageNext
    BY <1>2, StartKeeps, StopKeeps, NudgeKeeps, RefreshKeeps, ServePullKeeps, PullArrivesKeeps,
       PullFailsKeeps, TimerFiresKeeps, UserAsksKeeps, BeginCycleKeeps, BeginActionKeeps,
       ServeWorkKeeps, ArrivesKeeps, WorkFailsKeeps, HintKeeps, ServePeerKeeps, PeerArrivesKeeps,
       PeerFailsKeeps, AdoptPeerKeeps, OtherWritesKeeps, PageTickKeeps
    DEF SyncPageNext
<1> QED BY <1>1, <1>2

\* A status that another tab's message made the page read never takes the place of a
\* newer one, in a lane of any length and for any timing of the timers (mutationEpoch,
\* requestPeerRefresh and runPeerRefresh of shared/sync.ts).
THEOREM PeerNeverOlder == SyncPageSpec => []PeerReadNotOlder
<1>1. SyncPageInv => PeerReadNotOlder
    BY DEF SyncPageInv, PeerReadNotOlder
<1> QED BY <1>1, SyncPageInitInv, SyncPageStep, PTL DEF SyncPageSpec

-----------------------------------------------------------------------------
(* The focus views: what an observer shows never goes back, and a session  *)
(* is announced once.                                                      *)

SessionStatus == {"none", "running", "completed", "cancelled"}
TruthRec == [ver : Nat, active : FocusIds \cup {0}, status : [FocusIds -> SessionStatus]]
ViewRec == [up : BOOLEAN, ver : Nat, active : FocusIds \cup {0}, busy : BOOLEAN,
            pending : SUBSET FocusIds, handled : SUBSET FocusIds]
ReadRec == [pc : {"none", "asked", "served"}, ver : Nat, active : FocusIds \cup {0}]
RequestRec == [pc : {"none", "asked", "served"}, op : {"none", "start", "pause", "stop"},
               base : Nat, ver : Nat, active : FocusIds \cup {0}]

FocusViewType ==
    /\ truth \in TruthRec
    /\ view \in [Observers -> ViewRec]
    /\ read \in [Observers -> ReadRec] /\ late \in [Observers -> ReadRec]
    /\ request \in [Observers -> RequestRec]
    /\ claimed \in SUBSET FocusIds /\ rung \in [FocusIds -> Nat]

\* Of a view, its read and its mutation: each answer under way is at least as new as
\* the view, and a read and a mutation are never under way together.
InOrder(t, v, r, q) ==
    /\ v.ver <= t.ver
    /\ r.pc = "served" => v.ver <= r.ver /\ r.ver <= t.ver
    /\ q.pc = "served" => v.ver <= q.ver /\ q.ver <= t.ver
    /\ q.pc # "none" => v.up /\ v.busy /\ r.pc = "none"
ReadsInOrder == \A o \in Observers : InOrder(truth, view[o], read[o], request[o])

\* An active session is running, and what was announced has completed.
ActiveRuns(t) == t.active # 0 => t.status[t.active] = "running"
Announced(t) ==
    \A s \in FocusIds : /\ s \notin claimed => rung[s] = 0
                        /\ s \in claimed => rung[s] <= 1 /\ t.status[s] = "completed"

FocusViewInv == FocusViewType /\ ReadsInOrder /\ ActiveRuns(truth) /\ Announced(truth) /\ wentBack = FALSE

\* A new state of the server is newer and forgets no completed session.
Follows(t, u) ==
    /\ u \in TruthRec /\ t.ver <= u.ver /\ ActiveRuns(u)
    /\ \A s \in FocusIds : t.status[s] = "completed" => u.status[s] = "completed"

\* A set of naturals that is not empty has a least member.
LEMMA LeastOf ==
    ASSUME NEW T \in SUBSET Nat, T # {}
    PROVE  \E m \in T : \A n \in T : m <= n
<1> DEFINE Before == {pair \in Nat \X Nat : pair[1] < pair[2]}
<1>1. IsWellFoundedOn(Before, Nat)
    BY NatLessThanWellFounded DEF OpToRel
<1> HIDE DEF Before
<1>2. PICK m \in T : \A n \in T : ~(<<n, m>> \in Before)
    BY <1>1, WFMin
<1>3. \A n \in T : ~(n < m)
    BY <1>2 DEF Before
<1> QED BY <1>3

LEMMA FreshIsOne ==
    ASSUME NEW t \in TruthRec, Fresh(t) # {}
    PROVE  NewestFirst(t) \in FocusIds /\ t.status[NewestFirst(t)] = "none"
<1>1. Fresh(t) \in SUBSET Nat
    BY FocusViewAssumption DEF Fresh, FocusIds
<1>2. \E s \in Fresh(t) : \A other \in Fresh(t) : s <= other
    BY <1>1, LeastOf
<1>3. NewestFirst(t) \in Fresh(t)
    BY <1>2 DEF NewestFirst
<1> QED BY <1>3 DEF Fresh

\* A state with another version, another active session and one status changed.
LEMMA StatusMoves ==
    ASSUME NEW t \in TruthRec, NEW s \in FocusIds, t.status[s] # "completed",
           NEW status \in SessionStatus, NEW active \in FocusIds \cup {0},
           active # 0 => active = s /\ status = "running",
           NEW u, u = [ver |-> t.ver + 1, active |-> active, status |-> [t.status EXCEPT ![s] = status]]
    PROVE  Follows(t, u)
<1>1. t.ver \in Nat /\ t.status \in [FocusIds -> SessionStatus]
    BY DEF TruthRec
<1>2. u \in TruthRec /\ u.ver = t.ver + 1 /\ u.active = active /\ u.status = [t.status EXCEPT ![s] = status]
    BY <1>1 DEF TruthRec
<1> QED BY <1>1, <1>2 DEF Follows, ActiveRuns

LEMMA AfterFollows ==
    ASSUME NEW t \in TruthRec, ActiveRuns(t), NEW op, NEW base
    PROVE  Follows(t, After(t, op, base))
<1> SUFFICES ASSUME NEW u, u = After(t, op, base)
             PROVE  Follows(t, u)
    OBVIOUS
<1>1. t.ver \in Nat /\ t.active \in FocusIds \cup {0} /\ t.status \in [FocusIds -> SessionStatus]
    BY DEF TruthRec
<1>2. CASE op = "start" /\ t.active = 0 /\ Fresh(t) # {}
  <2>1. u = [ver |-> t.ver + 1, active |-> NewestFirst(t), status |-> [t.status EXCEPT ![NewestFirst(t)] = "running"]]
      BY <1>2 DEF After
  <2>2. NewestFirst(t) \in FocusIds /\ t.status[NewestFirst(t)] # "completed"
      BY <1>2, FreshIsOne
  <2>3. "running" \in SessionStatus
      BY DEF SessionStatus
  <2> QED BY <1>1, <2>1, <2>2, <2>3, StatusMoves
<1>3. CASE op = "pause" /\ t.active # 0 /\ base = t.ver
  <2>1. u = [t EXCEPT !.ver = t.ver + 1]
      BY <1>3 DEF After
  <2>2. u \in TruthRec /\ u.ver = t.ver + 1 /\ u.active = t.active /\ u.status = t.status
      BY <1>1, <2>1 DEF TruthRec
  <2> QED BY <1>1, <2>2 DEF Follows, ActiveRuns
<1>4. CASE op = "stop" /\ t.active # 0 /\ base = t.ver
  <2>1. u = [ver |-> t.ver + 1, active |-> 0, status |-> [t.status EXCEPT ![t.active] = "cancelled"]]
      BY <1>4 DEF After
  <2>2. t.active \in FocusIds /\ t.status[t.active] # "completed"
      BY <1>1, <1>4 DEF ActiveRuns
  <2>3. "cancelled" \in SessionStatus
      BY DEF SessionStatus
  <2> QED BY <1>1, <2>1, <2>2, <2>3, StatusMoves
<1>5. CASE /\ ~(op = "start" /\ t.active = 0 /\ Fresh(t) # {})
           /\ ~(op = "pause" /\ t.active # 0 /\ base = t.ver)
           /\ ~(op = "stop" /\ t.active # 0 /\ base = t.ver)
  <2>1. u = t
      BY <1>5 DEF After
  <2> QED BY <1>1, <2>1 DEF Follows
<1> QED BY <1>2, <1>3, <1>4, <1>5

\* The step of an action of one observer, on its view, its reads and its mutation.
LEMMA ObserverMoves ==
    ASSUME FocusViewInv, NEW o \in Observers,
           NEW v \in ViewRec, NEW r \in ReadRec, NEW l \in ReadRec, NEW q \in RequestRec,
           view' = [view EXCEPT ![o] = v], read' = [read EXCEPT ![o] = r],
           late' = [late EXCEPT ![o] = l], request' = [request EXCEPT ![o] = q],
           Follows(truth, truth'), InOrder(truth', v, r, q),
           UNCHANGED <<claimed, rung>>, wentBack' = FALSE
    PROVE  FocusViewInv'
<1>1. FocusViewType'
    BY DEF FocusViewInv, FocusViewType, Follows
<1>2. ReadsInOrder'
  <2> SUFFICES ASSUME NEW p \in Observers
               PROVE  InOrder(truth', view'[p], read'[p], request'[p])
      BY DEF ReadsInOrder
  <2>1. CASE p = o
    <3>1. view'[p] = v /\ read'[p] = r /\ request'[p] = q
        BY <2>1 DEF FocusViewInv, FocusViewType
    <3> QED BY <3>1
  <2>2. CASE p # o
    <3>1. view'[p] = view[p] /\ read'[p] = read[p] /\ request'[p] = request[p]
        BY <2>2 DEF FocusViewInv, FocusViewType
    <3>2. InOrder(truth, view[p], read[p], request[p])
        BY DEF FocusViewInv, ReadsInOrder
    <3>3. /\ truth.ver \in Nat /\ truth'.ver \in Nat /\ truth.ver <= truth'.ver
          /\ view[p].ver \in Nat /\ read[p].ver \in Nat /\ request[p].ver \in Nat
        BY DEF FocusViewInv, FocusViewType, Follows, TruthRec, ViewRec, ReadRec, RequestRec
    <3> QED BY <3>1, <3>2, <3>3 DEF InOrder
  <2> QED BY <2>1, <2>2
<1>3. ActiveRuns(truth')
    BY DEF Follows
<1>4. Announced(truth)'
    BY DEF FocusViewInv, Announced, Follows
<1> QED BY <1>1, <1>2, <1>3, <1>4 DEF FocusViewInv

LEMMA FocusViewFacts ==
    ASSUME FocusViewInv, NEW o \in Observers
    PROVE  /\ truth \in TruthRec /\ ActiveRuns(truth) /\ Follows(truth, truth)
           /\ view[o] \in ViewRec /\ read[o] \in ReadRec /\ late[o] \in ReadRec /\ request[o] \in RequestRec
           /\ InOrder(truth, view[o], read[o], request[o])
           /\ view = [view EXCEPT ![o] = view[o]] /\ read = [read EXCEPT ![o] = read[o]]
           /\ late = [late EXCEPT ![o] = late[o]] /\ request = [request EXCEPT ![o] = request[o]]
           /\ truth.ver \in Nat /\ view[o].ver \in Nat /\ read[o].ver \in Nat /\ request[o].ver \in Nat
           /\ wentBack = FALSE
<1>1. truth \in TruthRec /\ ActiveRuns(truth) /\ wentBack = FALSE
      /\ view[o] \in ViewRec /\ read[o] \in ReadRec /\ late[o] \in ReadRec /\ request[o] \in RequestRec
    BY DEF FocusViewInv, FocusViewType
<1>2. Follows(truth, truth)
    BY <1>1 DEF Follows, TruthRec
<1>3. InOrder(truth, view[o], read[o], request[o])
    BY DEF FocusViewInv, ReadsInOrder
<1>4. /\ view = [view EXCEPT ![o] = view[o]] /\ read = [read EXCEPT ![o] = read[o]]
      /\ late = [late EXCEPT ![o] = late[o]] /\ request = [request EXCEPT ![o] = request[o]]
    BY DEF FocusViewInv, FocusViewType
<1>5. truth.ver \in Nat /\ view[o].ver \in Nat /\ read[o].ver \in Nat /\ request[o].ver \in Nat
    BY <1>1 DEF TruthRec, ViewRec, ReadRec, RequestRec
<1> QED BY <1>1, <1>2, <1>3, <1>4, <1>5

\* The same when the server's state stays.
LEMMA ObserverReads ==
    ASSUME FocusViewInv, NEW o \in Observers,
           NEW v \in ViewRec, NEW r \in ReadRec, NEW l \in ReadRec, NEW q \in RequestRec,
           view' = [view EXCEPT ![o] = v], read' = [read EXCEPT ![o] = r],
           late' = [late EXCEPT ![o] = l], request' = [request EXCEPT ![o] = q],
           InOrder(truth, v, r, q), UNCHANGED <<truth, claimed, rung>>, wentBack' = FALSE
    PROVE  FocusViewInv'
<1>1. Follows(truth, truth') /\ InOrder(truth', v, r, q)
    BY FocusViewFacts
<1> QED BY <1>1, ObserverMoves

LEMMA NothingRead ==
    /\ NoRead \in ReadRec /\ NoRead.pc = "none"
    /\ [NoRead EXCEPT !.pc = "asked"] \in ReadRec /\ [NoRead EXCEPT !.pc = "asked"].pc = "asked"
    /\ NoRequest \in RequestRec /\ NoRequest.pc = "none"
    /\ Unmounted \in ViewRec /\ Unmounted.ver = 0 /\ ~Unmounted.up
BY DEF NoRead, NoRequest, Unmounted, ReadRec, RequestRec, ViewRec

LEMMA MountKeeps == ASSUME FocusViewInv, NEW o \in Observers, Mount(o) PROVE FocusViewInv'
<1> DEFINE v == [view[o] EXCEPT !.up = TRUE]
           r == [NoRead EXCEPT !.pc = "asked"]
<1>1. view' = [view EXCEPT ![o] = v] /\ read' = [read EXCEPT ![o] = r] /\ ~view[o].up
      /\ UNCHANGED <<truth, late, request, claimed, rung, wentBack>>
    BY FocusViewFacts DEF Mount
<1>2. v \in ViewRec /\ v.ver = view[o].ver
    BY FocusViewFacts DEF ViewRec
<1>3. InOrder(truth, v, r, request[o])
  <2> HIDE DEF v, r
  <2> QED BY <1>1, <1>2, NothingRead, FocusViewFacts DEF InOrder, r
<1> HIDE DEF v, r
<1>4. r \in ReadRec
    BY NothingRead DEF r
<1>5. late' = [late EXCEPT ![o] = late[o]] /\ request' = [request EXCEPT ![o] = request[o]] /\ wentBack' = FALSE
    BY <1>1, FocusViewFacts
<1> QED BY <1>1, <1>2, <1>3, <1>4, <1>5, FocusViewFacts, ObserverReads

LEMMA UnmountKeeps == ASSUME FocusViewInv, NEW o \in Observers, Unmount(o) PROVE FocusViewInv'
<1>1. /\ view' = [view EXCEPT ![o] = Unmounted] /\ read' = [read EXCEPT ![o] = NoRead]
      /\ late' = [late EXCEPT ![o] = NoRead] /\ request' = [request EXCEPT ![o] = NoRequest]
      /\ UNCHANGED <<truth, claimed, rung, wentBack>>
    BY DEF Unmount
<1>2. truth.ver \in Nat /\ wentBack = FALSE
    BY FocusViewFacts
<1>3. InOrder(truth, Unmounted, NoRead, NoRequest)
    BY <1>2, NothingRead DEF InOrder
<1> QED BY <1>1, <1>2, <1>3, NothingRead, ObserverReads

LEMMA LoadKeeps == ASSUME FocusViewInv, NEW o \in Observers, Load(o) PROVE FocusViewInv'
<1> DEFINE r == [NoRead EXCEPT !.pc = "asked"]
<1>1. /\ late' = [late EXCEPT ![o] = Superseded(o)] /\ read' = [read EXCEPT ![o] = r] /\ ~view[o].busy
      /\ UNCHANGED <<truth, view, request, claimed, rung, wentBack>>
    BY DEF Load
<1>2. Superseded(o) \in ReadRec
    BY FocusViewFacts DEF Superseded
<1>3. r \in ReadRec /\ r.pc = "asked"
    BY NothingRead
<1> HIDE DEF r
<1>4. InOrder(truth, view[o], r, request[o])
    BY <1>1, <1>3, FocusViewFacts DEF InOrder
<1>5. view' = [view EXCEPT ![o] = view[o]] /\ request' = [request EXCEPT ![o] = request[o]] /\ wentBack' = FALSE
    BY <1>1, FocusViewFacts
<1>6. view[o] \in ViewRec /\ request[o] \in RequestRec
    BY FocusViewFacts
<1> QED BY <1>1, <1>2, <1>3, <1>4, <1>5, <1>6, ObserverReads

LEMMA SnapshotIsRead ==
    ASSUME FocusViewInv, NEW r \in ReadRec
    PROVE  Snapshot(r) \in ReadRec /\ Snapshot(r).ver = truth.ver
<1> DEFINE r1 == [r EXCEPT !.pc = "served"]
           r2 == [r1 EXCEPT !.ver = truth.ver]
           r3 == [r2 EXCEPT !.active = truth.active]
<1>1. truth.ver \in Nat /\ truth.active \in FocusIds \cup {0}
    BY DEF FocusViewInv, FocusViewType, TruthRec
<1>2. Snapshot(r) = r3
    BY DEF Snapshot, ReadRec
<1>3. r1 \in ReadRec
    BY DEF ReadRec
<1>4. r2 \in ReadRec /\ r2.ver = truth.ver
  <2> HIDE DEF r1
  <2> QED BY <1>1, <1>3 DEF ReadRec
<1>5. r3 \in ReadRec /\ r3.ver = truth.ver
  <2> HIDE DEF r2
  <2> QED BY <1>1, <1>4 DEF ReadRec
<1> QED BY <1>2, <1>5

LEMMA ServeLoadKeeps == ASSUME FocusViewInv, NEW o \in Observers, ServeLoad(o) PROVE FocusViewInv'
<1>1. UNCHANGED <<truth, view, request, claimed, rung, wentBack>>
    BY DEF ServeLoad
<1>2. view' = [view EXCEPT ![o] = view[o]] /\ request' = [request EXCEPT ![o] = request[o]] /\ wentBack' = FALSE
    BY <1>1, FocusViewFacts
<1>3. CASE read[o].pc = "asked" /\ read' = [read EXCEPT ![o] = Snapshot(@)] /\ UNCHANGED late
  <2>1. read' = [read EXCEPT ![o] = Snapshot(read[o])] /\ late' = [late EXCEPT ![o] = late[o]]
      BY <1>3, FocusViewFacts
  <2>2. Snapshot(read[o]) \in ReadRec /\ Snapshot(read[o]).ver = truth.ver
      BY FocusViewFacts, SnapshotIsRead
  <2>3. InOrder(truth, view[o], read[o], request[o]) /\ truth.ver \in Nat
        /\ view[o] \in ViewRec /\ late[o] \in ReadRec /\ request[o] \in RequestRec
      BY FocusViewFacts
  <2>4. InOrder(truth, view[o], Snapshot(read[o]), request[o])
      BY <1>3, <2>2, <2>3 DEF InOrder
  <2> QED BY <1>1, <1>2, <2>1, <2>2, <2>3, <2>4, ObserverReads
<1>4. CASE late[o].pc = "asked" /\ late' = [late EXCEPT ![o] = Snapshot(@)] /\ UNCHANGED read
  <2>1. late' = [late EXCEPT ![o] = Snapshot(late[o])] /\ read' = [read EXCEPT ![o] = read[o]]
      BY <1>4, FocusViewFacts
  <2>2. Snapshot(late[o]) \in ReadRec
      BY FocusViewFacts, SnapshotIsRead
  <2>3. InOrder(truth, view[o], read[o], request[o])
        /\ view[o] \in ViewRec /\ read[o] \in ReadRec /\ request[o] \in RequestRec
      BY FocusViewFacts
  <2> QED BY <1>1, <1>2, <2>1, <2>2, <2>3, ObserverReads
<1> QED BY <1>3, <1>4 DEF ServeLoad

\* An answer as new as the view is shown.
LEMMA ShowsInOrder ==
    ASSUME FocusViewInv, NEW o \in Observers, NEW answer, NEW idle \in BOOLEAN,
           answer.ver \in Nat, answer.active \in FocusIds \cup {0}, view[o].ver <= answer.ver,
           ViewShows(o, answer, idle)
    PROVE  /\ wentBack' = FALSE
           /\ \E v \in ViewRec : view' = [view EXCEPT ![o] = v] /\ v.ver = answer.ver /\ v.up = view[o].up
<1> DEFINE gone == {view[o].active} \ ({0, answer.active} \cup view[o].handled)
           v1 == [view[o] EXCEPT !.ver = answer.ver]
           v2 == [v1 EXCEPT !.active = answer.active]
           v3 == [v2 EXCEPT !.pending = view[o].pending \cup gone]
           v4 == [v3 EXCEPT !.busy = view[o].busy /\ ~idle]
<1>1. view[o] \in ViewRec /\ view[o].ver \in Nat
    BY FocusViewFacts
<1>2. view[o].pending \cup gone \in SUBSET FocusIds /\ (view[o].busy /\ ~idle) \in BOOLEAN
    BY <1>1 DEF ViewRec
<1>3. Applied(view[o], answer) = v3
    BY <1>1 DEF Applied, ViewRec
<1>4. v1 \in ViewRec /\ v1.ver = answer.ver /\ v1.up = view[o].up /\ v1.busy = view[o].busy
    BY <1>1 DEF ViewRec
<1>5. v2 \in ViewRec /\ v2.ver = answer.ver /\ v2.up = view[o].up /\ v2.busy = view[o].busy
  <2> HIDE DEF v1
  <2> QED BY <1>4 DEF ViewRec
<1>6. v3 \in ViewRec /\ v3.ver = answer.ver /\ v3.up = view[o].up /\ v3.busy = view[o].busy
  <2> HIDE DEF v2, gone
  <2> QED BY <1>2, <1>5 DEF ViewRec
<1> HIDE DEF v3
<1>7. v4 \in ViewRec /\ v4.ver = answer.ver /\ v4.up = view[o].up
    BY <1>2, <1>6 DEF ViewRec
<1>8. view' = [view EXCEPT ![o] = v4]
    BY <1>3, <1>6 DEF ViewShows
<1>9. wentBack' = FALSE
  <2>1. (answer.ver < view[o].ver) = FALSE
      BY <1>1
  <2>2. wentBack' = (wentBack \/ (answer.ver < view[o].ver)) /\ wentBack = FALSE
      BY FocusViewFacts DEF ViewShows
  <2> QED BY <2>1, <2>2
<1> QED BY <1>7, <1>8, <1>9

LEMMA LoadArrivesKeeps == ASSUME FocusViewInv, NEW o \in Observers, LoadArrives(o) PROVE FocusViewInv'
<1>1. /\ read[o].pc = "served" /\ ViewShows(o, read[o], FALSE)
      /\ read' = [read EXCEPT ![o] = NoRead] /\ UNCHANGED <<truth, late, request, claimed, rung>>
    BY DEF LoadArrives
<1>2. /\ read[o].ver \in Nat /\ read[o].active \in FocusIds \cup {0}
      /\ view[o].ver <= read[o].ver /\ read[o].ver <= truth.ver /\ request[o].pc = "none"
      /\ late[o] \in ReadRec /\ request[o] \in RequestRec
      /\ late' = [late EXCEPT ![o] = late[o]] /\ request' = [request EXCEPT ![o] = request[o]]
  <2>1. read[o] \in ReadRec /\ InOrder(truth, view[o], read[o], request[o])
      BY FocusViewFacts
  <2> QED BY <1>1, <2>1, FocusViewFacts DEF InOrder, ReadRec
<1>3. PICK v \in ViewRec : view' = [view EXCEPT ![o] = v] /\ v.ver = read[o].ver /\ v.up = view[o].up
    BY <1>1, <1>2, ShowsInOrder
<1>4. wentBack' = FALSE
    BY <1>1, <1>2, ShowsInOrder
<1>5. InOrder(truth, v, NoRead, request[o])
    BY <1>2, <1>3, NothingRead DEF InOrder
<1> QED BY <1>1, <1>2, <1>3, <1>4, <1>5, NothingRead, ObserverReads

LEMMA LateArrivesKeeps == ASSUME FocusViewInv, NEW o \in Observers, LateArrives(o) PROVE FocusViewInv'
<1>1. late' = [late EXCEPT ![o] = NoRead] /\ UNCHANGED <<truth, view, read, request, claimed, rung, wentBack>>
    BY DEF LateArrives, IsCurrent
<1>2. /\ view' = [view EXCEPT ![o] = view[o]] /\ read' = [read EXCEPT ![o] = read[o]]
      /\ request' = [request EXCEPT ![o] = request[o]] /\ wentBack' = FALSE
      /\ view[o] \in ViewRec /\ read[o] \in ReadRec /\ request[o] \in RequestRec
      /\ InOrder(truth, view[o], read[o], request[o])
    BY <1>1, FocusViewFacts
<1>3. PICK v \in ViewRec, r \in ReadRec, q \in RequestRec :
        /\ view' = [view EXCEPT ![o] = v] /\ read' = [read EXCEPT ![o] = r]
        /\ request' = [request EXCEPT ![o] = q] /\ InOrder(truth, v, r, q)
    BY <1>2
<1> QED BY <1>1, <1>2, <1>3, NothingRead, ObserverReads

LEMMA LoadLostKeeps == ASSUME FocusViewInv, NEW o \in Observers, LoadLost(o) PROVE FocusViewInv'
<1>1. read' = [read EXCEPT ![o] = NoRead] /\ UNCHANGED <<truth, view, late, request, claimed, rung, wentBack>>
    BY DEF LoadLost
<1>2. /\ view' = [view EXCEPT ![o] = view[o]] /\ late' = [late EXCEPT ![o] = late[o]]
      /\ request' = [request EXCEPT ![o] = request[o]] /\ wentBack' = FALSE
      /\ view[o] \in ViewRec /\ late[o] \in ReadRec /\ request[o] \in RequestRec
      /\ InOrder(truth, view[o], read[o], request[o])
    BY <1>1, FocusViewFacts
<1>3. InOrder(truth, view[o], NoRead, request[o])
    BY <1>2, NothingRead DEF InOrder
<1>4. PICK v \in ViewRec, l \in ReadRec, q \in RequestRec :
        /\ view' = [view EXCEPT ![o] = v] /\ late' = [late EXCEPT ![o] = l]
        /\ request' = [request EXCEPT ![o] = q] /\ InOrder(truth, v, NoRead, q)
    BY <1>2, <1>3
<1> QED BY <1>1, <1>2, <1>4, NothingRead, ObserverReads

LEMMA DispatchKeeps ==
    ASSUME FocusViewInv, NEW o \in Observers, NEW op \in {"start", "pause", "stop"}, Dispatch(o, op)
    PROVE  FocusViewInv'
<1> DEFINE v == [view[o] EXCEPT !.busy = TRUE]
           q1 == [NoRequest EXCEPT !.pc = "asked"]
           q2 == [q1 EXCEPT !.op = op]
           q3 == [q2 EXCEPT !.base = view[o].ver]
<1>1. /\ view[o].up /\ view' = [view EXCEPT ![o] = v]
      /\ late' = [late EXCEPT ![o] = Superseded(o)] /\ read' = [read EXCEPT ![o] = NoRead]
      /\ UNCHANGED <<truth, claimed, rung, wentBack>>
    BY FocusViewFacts DEF Dispatch
<1>2. request' = [request EXCEPT ![o] = q3]
    BY DEF Dispatch, NoRequest
<1>3. Superseded(o) \in ReadRec
    BY FocusViewFacts DEF Superseded
<1>4. view[o] \in ViewRec /\ view[o].ver \in Nat /\ view[o].ver <= truth.ver /\ wentBack = FALSE
    BY FocusViewFacts DEF InOrder
<1>5. v \in ViewRec /\ v.ver = view[o].ver /\ v.up /\ v.busy
    BY <1>1, <1>4 DEF ViewRec
<1>6. q1 \in RequestRec /\ q1.pc = "asked"
    BY NothingRead DEF RequestRec
<1>7. q2 \in RequestRec /\ q2.pc = "asked"
  <2> HIDE DEF q1
  <2> QED BY <1>6 DEF RequestRec
<1>8. q3 \in RequestRec /\ q3.pc = "asked"
  <2> HIDE DEF q2
  <2> QED BY <1>4, <1>7 DEF RequestRec
<1> HIDE DEF v, q3
<1>9. InOrder(truth, v, NoRead, q3)
    BY <1>4, <1>5, <1>8, NothingRead DEF InOrder
<1> QED BY <1>1, <1>2, <1>3, <1>4, <1>5, <1>8, <1>9, NothingRead, ObserverReads

LEMMA ServeDispatchKeeps == ASSUME FocusViewInv, NEW o \in Observers, ServeDispatch(o) PROVE FocusViewInv'
<1> DEFINE q1 == [NoRequest EXCEPT !.pc = "served"]
           q2 == [q1 EXCEPT !.ver = truth'.ver]
           q3 == [q2 EXCEPT !.active = truth'.active]
<1>1. /\ request[o].pc = "asked" /\ truth' = After(truth, request[o].op, request[o].base)
      /\ UNCHANGED <<view, read, late, claimed, rung, wentBack>>
    BY DEF ServeDispatch
<1>2. request' = [request EXCEPT ![o] = q3]
    BY DEF ServeDispatch, NoRequest
<1>3. Follows(truth, truth')
    BY <1>1, FocusViewFacts, AfterFollows
<1>4. truth'.ver \in Nat /\ truth'.active \in FocusIds \cup {0} /\ truth.ver <= truth'.ver
    BY <1>3 DEF Follows, TruthRec
<1>5. q1 \in RequestRec /\ q1.pc = "served"
    BY NothingRead DEF RequestRec
<1>6. q2 \in RequestRec /\ q2.pc = "served" /\ q2.ver = truth'.ver
  <2> HIDE DEF q1
  <2> QED BY <1>4, <1>5 DEF RequestRec
<1>7. q3 \in RequestRec /\ q3.pc = "served" /\ q3.ver = truth'.ver
  <2> HIDE DEF q2
  <2> QED BY <1>4, <1>6 DEF RequestRec
<1> HIDE DEF q3
<1>8. /\ view' = [view EXCEPT ![o] = view[o]] /\ read' = [read EXCEPT ![o] = read[o]]
      /\ late' = [late EXCEPT ![o] = late[o]] /\ wentBack' = FALSE
      /\ view[o] \in ViewRec /\ read[o] \in ReadRec /\ late[o] \in ReadRec
      /\ view[o].ver \in Nat /\ truth.ver \in Nat
      /\ InOrder(truth, view[o], read[o], request[o])
    BY <1>1, FocusViewFacts
<1>9. InOrder(truth', view[o], read[o], q3)
    BY <1>1, <1>4, <1>7, <1>8 DEF InOrder
<1> QED BY <1>1, <1>2, <1>3, <1>7, <1>8, <1>9, ObserverMoves

LEMMA DispatchArrivesKeeps == ASSUME FocusViewInv, NEW o \in Observers, DispatchArrives(o) PROVE FocusViewInv'
<1>1. /\ request[o].pc = "served" /\ ViewShows(o, request[o], TRUE)
      /\ request' = [request EXCEPT ![o] = NoRequest] /\ UNCHANGED <<truth, read, late, claimed, rung>>
    BY DEF DispatchArrives
<1>2. /\ request[o].ver \in Nat /\ request[o].active \in FocusIds \cup {0}
      /\ view[o].ver <= request[o].ver /\ request[o].ver <= truth.ver /\ read[o].pc = "none"
      /\ late[o] \in ReadRec /\ read[o] \in ReadRec
      /\ late' = [late EXCEPT ![o] = late[o]] /\ read' = [read EXCEPT ![o] = read[o]]
  <2>1. request[o] \in RequestRec /\ InOrder(truth, view[o], read[o], request[o])
      BY FocusViewFacts
  <2> QED BY <1>1, <2>1, FocusViewFacts DEF InOrder, RequestRec
<1>3. PICK v \in ViewRec : view' = [view EXCEPT ![o] = v] /\ v.ver = request[o].ver /\ v.up = view[o].up
    BY <1>1, <1>2, ShowsInOrder
<1>4. wentBack' = FALSE
    BY <1>1, <1>2, ShowsInOrder
<1>5. InOrder(truth, v, read[o], NoRequest)
    BY <1>2, <1>3, NothingRead DEF InOrder
<1> QED BY <1>1, <1>2, <1>3, <1>4, <1>5, NothingRead, ObserverReads

LEMMA DispatchFailsKeeps == ASSUME FocusViewInv, NEW o \in Observers, DispatchFails(o) PROVE FocusViewInv'
<1> DEFINE v == [view[o] EXCEPT !.busy = FALSE]
<1>1. /\ view' = [view EXCEPT ![o] = v] /\ request' = [request EXCEPT ![o] = NoRequest]
      /\ UNCHANGED <<truth, read, late, claimed, rung, wentBack>>
    BY FocusViewFacts DEF DispatchFails
<1>2. /\ read' = [read EXCEPT ![o] = read[o]] /\ late' = [late EXCEPT ![o] = late[o]] /\ wentBack' = FALSE
      /\ view[o] \in ViewRec /\ read[o] \in ReadRec /\ late[o] \in ReadRec
      /\ InOrder(truth, view[o], read[o], request[o])
    BY <1>1, FocusViewFacts
<1>3. v \in ViewRec /\ v.ver = view[o].ver /\ v.up = view[o].up
    BY <1>2 DEF ViewRec
<1> HIDE DEF v
<1>4. InOrder(truth, v, read[o], NoRequest)
    BY <1>2, <1>3, NothingRead DEF InOrder
<1> QED BY <1>1, <1>2, <1>3, <1>4, NothingRead, ObserverReads

\* A session is claimed by the first observer that learns of its completion.
LEMMA VerifyKeeps ==
    ASSUME FocusViewInv, NEW o \in Observers, NEW s \in FocusIds, Verify(o, s)
    PROVE  FocusViewInv'
<1> DEFINE v1 == [view[o] EXCEPT !.pending = view[o].pending \ {s}]
           v2 == [v1 EXCEPT !.handled = view[o].handled \cup {s}]
<1>1. view[o] \in ViewRec /\ UNCHANGED <<truth, read, late, request, wentBack>>
    BY FocusViewFacts DEF Verify
<1>2. view' = [view EXCEPT ![o] = v2]
    BY <1>1 DEF Verify, FocusViewInv, FocusViewType, ViewRec
<1>3. v1 \in ViewRec /\ v1.ver = view[o].ver /\ v1.up = view[o].up /\ v1.busy = view[o].busy
      /\ v1.handled = view[o].handled
    BY <1>1 DEF ViewRec
<1>4. v2 \in ViewRec /\ v2.ver = view[o].ver /\ v2.up = view[o].up /\ v2.busy = view[o].busy
  <2>1. v1.handled \cup {s} \in SUBSET FocusIds
      BY <1>3 DEF ViewRec
  <2> HIDE DEF v1
  <2> QED BY <1>3, <2>1 DEF ViewRec
<1> HIDE DEF v2
<1>5. ReadsInOrder'
  <2> SUFFICES ASSUME NEW p \in Observers
               PROVE  InOrder(truth', view'[p], read'[p], request'[p])
      BY DEF ReadsInOrder
  <2>1. /\ view'[p].ver = view[p].ver /\ view'[p].up = view[p].up /\ view'[p].busy = view[p].busy
      BY <1>2, <1>4 DEF FocusViewInv, FocusViewType
  <2> QED BY <1>1, <2>1 DEF FocusViewInv, ReadsInOrder, InOrder
<1>6. /\ claimed' \in SUBSET FocusIds /\ rung' \in [FocusIds -> Nat] /\ Announced(truth)'
  <2>1. claimed \in SUBSET FocusIds /\ rung \in [FocusIds -> Nat] /\ Announced(truth)
      BY DEF FocusViewInv, FocusViewType
  <2>2. CASE truth.status[s] = "completed" /\ s \notin claimed
    <3>1. claimed' = claimed \cup {s} /\ rung' = [rung EXCEPT ![s] = rung[s] + 1]
        BY <2>2 DEF Verify, Claims
    <3>2. rung[s] = 0
        BY <2>1, <2>2 DEF Announced
    <3> QED BY <1>1, <2>1, <2>2, <3>1, <3>2 DEF Announced
  <2>3. CASE ~(truth.status[s] = "completed" /\ s \notin claimed)
    <3>1. UNCHANGED <<claimed, rung>>
        BY <2>3 DEF Verify, Claims
    <3> QED BY <1>1, <2>1, <3>1 DEF Announced
  <2> QED BY <2>2, <2>3
<1> QED BY <1>1, <1>2, <1>4, <1>5, <1>6 DEF FocusViewInv, FocusViewType, ActiveRuns

LEMMA OtherDocumentKeeps == ASSUME FocusViewInv, OtherDocument PROVE FocusViewInv'
<1> DEFINE over == [ver |-> truth.ver + 1, active |-> 0,
                    status |-> [truth.status EXCEPT ![truth.active] = "completed"]]
<1>1. truth \in TruthRec /\ ActiveRuns(truth)
    BY DEF FocusViewInv, FocusViewType
<1>2. \/ \E op \in {"start", "pause", "stop"} : truth' = After(truth, op, truth.ver)
      \/ truth.active # 0 /\ truth' = over
    BY DEF OtherDocument
<1>3. Follows(truth, truth')
  <2>1. CASE \E op \in {"start", "pause", "stop"} : truth' = After(truth, op, truth.ver)
      BY <1>1, <2>1, AfterFollows
  <2>2. CASE truth.active # 0 /\ truth' = over
    <3>1. truth.active \in FocusIds /\ truth.status[truth.active] # "completed" /\ "completed" \in SessionStatus
        BY <1>1, <2>2 DEF TruthRec, ActiveRuns, SessionStatus
    <3>2. 0 \in FocusIds \cup {0}
        OBVIOUS
    <3> QED BY <1>1, <2>2, <3>1, <3>2, StatusMoves
  <2> QED BY <1>2, <2>1, <2>2
<1>4. UNCHANGED <<view, read, late, request, claimed, rung, wentBack>>
    BY DEF OtherDocument
<1>5. ReadsInOrder'
  <2> SUFFICES ASSUME NEW p \in Observers
               PROVE  InOrder(truth', view[p], read[p], request[p])
      BY <1>4 DEF ReadsInOrder
  <2>1. InOrder(truth, view[p], read[p], request[p]) /\ truth.ver \in Nat
        /\ view[p].ver \in Nat /\ read[p].ver \in Nat /\ request[p].ver \in Nat
      BY FocusViewFacts
  <2>2. truth'.ver \in Nat /\ truth.ver <= truth'.ver
      BY <1>3 DEF Follows, TruthRec
  <2> QED BY <2>1, <2>2 DEF InOrder
<1>6. Announced(truth)'
    BY <1>3, <1>4 DEF Follows, FocusViewInv, Announced
<1> QED BY <1>3, <1>4, <1>5, <1>6 DEF FocusViewInv, FocusViewType, Follows

LEMMA FocusViewInitInv == FocusViewInit => FocusViewInv
<1> SUFFICES ASSUME FocusViewInit PROVE FocusViewInv
    OBVIOUS
<1>1. truth \in TruthRec /\ truth.ver = 1 /\ truth.active = 0
    BY DEF FocusViewInit, TruthRec, SessionStatus
<1>2. FocusViewType
    BY <1>1, NothingRead DEF FocusViewInit, FocusViewType
<1>3. \A o \in Observers : view[o] = Unmounted /\ read[o] = NoRead /\ request[o] = NoRequest
    BY DEF FocusViewInit
<1>4. ReadsInOrder
    BY <1>1, <1>3, NothingRead DEF ReadsInOrder, InOrder
<1>5. Announced(truth)
    BY DEF FocusViewInit, Announced
<1>6. wentBack = FALSE
    BY DEF FocusViewInit
<1> QED BY <1>1, <1>2, <1>4, <1>5, <1>6 DEF FocusViewInv, ActiveRuns

LEMMA FocusViewStep == FocusViewInv /\ [FocusViewNext]_focusViewVars => FocusViewInv'
<1> SUFFICES ASSUME FocusViewInv, [FocusViewNext]_focusViewVars PROVE FocusViewInv'
    OBVIOUS
<1>1. CASE UNCHANGED focusViewVars
    BY <1>1 DEF focusViewVars, FocusViewInv, FocusViewType, ReadsInOrder, ActiveRuns, Announced
<1>2. CASE FocusViewNext
    BY <1>2, MountKeeps, UnmountKeeps, LoadKeeps, ServeLoadKeeps, LoadArrivesKeeps, LateArrivesKeeps,
       LoadLostKeeps, DispatchKeeps, ServeDispatchKeeps, DispatchArrivesKeeps, DispatchFailsKeeps,
       VerifyKeeps, OtherDocumentKeeps
    DEF FocusViewNext
<1> QED BY <1>1, <1>2

-----------------------------------------------------------------------------
(* The alert controller: late answers of the browser, and the ledger.      *)

AlertsType ==
    /\ listeners \in SUBSET Listeners /\ notices \in SUBSET Verified
    /\ soundOn \in BOOLEAN /\ notesOn \in BOOLEAN /\ wantsSound \in BOOLEAN /\ wantsNotes \in BOOLEAN
    /\ context \in Contexts /\ permission \in Permissions
    /\ audioEpoch \in Nat /\ permissionEpoch \in Nat
    /\ resuming \in SUBSET Nat /\ asking \in SUBSET Nat

\* An answer that is still of the last choice was asked for by it.
SoundAsked ==
    /\ \A g \in resuming : g <= audioEpoch
    /\ audioEpoch \in resuming => wantsSound
    /\ soundOn => wantsSound /\ Heard /\ context # "none"
NotesAsked ==
    /\ \A g \in asking : g <= permissionEpoch
    /\ permissionEpoch \in asking => wantsNotes
    /\ notesOn => wantsNotes

\* A session stands in the ledger as many places from its end as claims have followed.
LedgerType ==
    /\ ledger \in Seq(Verified) /\ Len(ledger) <= LedgerLimit
    /\ since \in [Verified -> Nat]
LedgerHolds ==
    \A s \in Verified : Remembered(s) =>
        /\ since[s] <= Len(ledger)
        /\ ledger[Len(ledger) + 1 - since[s]] = s
LedgerKept == LedgerType /\ LedgerHolds /\ repeated = FALSE

AlertsInv == AlertsType /\ SoundAsked /\ NotesAsked /\ (notices # {} => Heard) /\ LedgerKept

LEMMA AlertsInitInv == AlertsInit => AlertsInv
<1> SUFFICES ASSUME AlertsInit PROVE AlertsInv
    OBVIOUS
<1>1. AlertsType
    BY DEF AlertsInit, AlertsType, Contexts
<1>2. SoundAsked /\ NotesAsked
    BY DEF AlertsInit, SoundAsked, NotesAsked
<1>3. notices # {} => Heard
    BY DEF AlertsInit
<1>4. ledger = <<>> /\ since = [s \in Verified |-> 0] /\ repeated = FALSE
    BY DEF AlertsInit
<1>5. Len(ledger) = 0 /\ ledger \in Seq(Verified)
    BY <1>4
<1>6. LedgerType
    BY <1>4, <1>5, FocusAlertsAssumption DEF LedgerType
<1>7. LedgerHolds
    BY <1>4 DEF LedgerHolds, Remembered
<1> QED BY <1>1, <1>2, <1>3, <1>4, <1>6, <1>7 DEF AlertsInv, LedgerKept

\* What leaves the ledger alone keeps what is known of it.
LEMMA LedgerUntouched ==
    ASSUME AlertsInv, UNCHANGED ledgerVars PROVE LedgerKept'
<1>1. ledger' = ledger /\ since' = since /\ repeated' = repeated
    BY DEF ledgerVars
<1> QED BY <1>1 DEF AlertsInv, LedgerKept, LedgerType, LedgerHolds, Remembered

LEMMA SoundUntouched ==
    ASSUME AlertsInv, UNCHANGED <<soundVars, listeners>> PROVE SoundAsked'
BY DEF AlertsInv, SoundAsked, soundVars, Heard

\* An observer comes, goes, or the document is shown again.
LEMMA ListenersKeep ==
    ASSUME AlertsInv,
           \/ \E o \in Listeners : Subscribe(o) \/ Unsubscribe(o) \/ UnsubscribeLast(o)
           \/ refreshPermission
    PROVE  AlertsInv'
<1>1. CASE \E o \in Listeners : Subscribe(o)
  <2> PICK o \in Listeners : Subscribe(o)
      BY <1>1
  <2>1. LedgerKept'
      BY LedgerUntouched DEF Subscribe
  <2>2. AlertsType'
      BY DEF Subscribe, AlertsInv, AlertsType, soundVars
  <2>3. SoundAsked' /\ NotesAsked' /\ (notices # {} => Heard)'
      BY DEF Subscribe, AlertsInv, AlertsType, SoundAsked, NotesAsked, soundVars, Heard
  <2> QED BY <2>1, <2>2, <2>3 DEF AlertsInv
<1>2. CASE \E o \in Listeners : Unsubscribe(o)
  <2> PICK o \in Listeners : Unsubscribe(o)
      BY <1>2
  <2>1. LedgerKept'
      BY LedgerUntouched DEF Unsubscribe
  <2>2. AlertsType'
      BY DEF Unsubscribe, AlertsInv, AlertsType, soundVars, noteVars
  <2>3. SoundAsked' /\ NotesAsked' /\ (notices # {} => Heard)'
      BY DEF Unsubscribe, AlertsInv, AlertsType, SoundAsked, NotesAsked, soundVars, noteVars, Heard
  <2> QED BY <2>1, <2>2, <2>3 DEF AlertsInv
<1>3. CASE \E o \in Listeners : UnsubscribeLast(o)
  <2> PICK o \in Listeners : UnsubscribeLast(o)
      BY <1>3
  <2>1. LedgerKept'
      BY LedgerUntouched DEF UnsubscribeLast
  <2>2. AlertsType'
    <3>1. listeners' = {} /\ notices' = {} /\ soundOn' = FALSE /\ wantsSound' = FALSE /\ context' = "none"
        BY DEF UnsubscribeLast
    <3>2. /\ audioEpoch' = audioEpoch + 1 /\ permissionEpoch' = permissionEpoch + 1
          /\ UNCHANGED <<resuming, notesOn, asking, wantsNotes, permission>>
        BY DEF UnsubscribeLast
    <3>3. context' \in Contexts
        BY <3>1 DEF Contexts
    <3>4. audioEpoch' \in Nat /\ permissionEpoch' \in Nat
        BY <3>2 DEF AlertsInv, AlertsType
    <3>5. soundOn' \in BOOLEAN /\ wantsSound' \in BOOLEAN
        BY <3>1
    <3>6. listeners' \in SUBSET Listeners /\ notices' \in SUBSET Verified
        BY <3>1
    <3>7. /\ notesOn' \in BOOLEAN /\ wantsNotes' \in BOOLEAN /\ permission' \in Permissions
          /\ resuming' \in SUBSET Nat /\ asking' \in SUBSET Nat
        BY <3>2 DEF AlertsInv, AlertsType
    <3> QED BY <3>3, <3>4, <3>5, <3>6, <3>7 DEF AlertsType
  <2>3. SoundAsked'
      BY DEF UnsubscribeLast, AlertsInv, AlertsType, SoundAsked
  <2>4. NotesAsked' /\ (notices # {} => Heard)'
      BY DEF UnsubscribeLast, AlertsInv, AlertsType, NotesAsked
  <2> QED BY <2>1, <2>2, <2>3, <2>4 DEF AlertsInv
<1>4. CASE refreshPermission
  <2>1. LedgerKept'
      BY <1>4, LedgerUntouched DEF refreshPermission
  <2>2. AlertsType'
      BY <1>4 DEF refreshPermission, AlertsInv, AlertsType, soundVars
  <2>3. SoundAsked' /\ NotesAsked' /\ (notices # {} => Heard)'
      BY <1>4 DEF refreshPermission, AlertsInv, AlertsType, SoundAsked, NotesAsked, soundVars, Heard
  <2> QED BY <2>1, <2>2, <2>3 DEF AlertsInv
<1> QED BY <1>1, <1>2, <1>3, <1>4

\* The choices of the user about the sound, the late answers, the browser's changes.
LEMMA SoundKeeps ==
    ASSUME AlertsInv,
           \/ (\E made \in {"suspended", "running"} : enableSound(made)) \/ NoSound \/ muteSound
           \/ (\E g \in resuming, ok \in BOOLEAN : Resumed(g, ok))
           \/ (\E now \in {"suspended", "running"} : ContextChanges(now)) \/ SoundStops
    PROVE  AlertsInv'
<1>1. UNCHANGED <<listeners, noteVars, permission, notices, ledgerVars>>
    BY DEF enableSound, NoSound, muteSound, Resumed, ContextChanges, SoundStops
<1>2. LedgerKept'
    BY <1>1, LedgerUntouched
<1>3. NotesAsked' /\ (notices # {} => Heard)'
    BY <1>1 DEF AlertsInv, NotesAsked, noteVars, Heard
<1>4. ASSUME soundOn' \in BOOLEAN, wantsSound' \in BOOLEAN, context' \in Contexts,
             audioEpoch' \in Nat, resuming' \in SUBSET Nat
      PROVE  AlertsType'
    BY <1>1, <1>4 DEF AlertsInv, AlertsType, noteVars
<1> DEFINE SoundTyped == /\ soundOn \in BOOLEAN /\ wantsSound \in BOOLEAN /\ context \in Contexts
                         /\ audioEpoch \in Nat /\ resuming \in SUBSET Nat
<1>5. SoundTyped /\ SoundAsked
    BY DEF AlertsInv, AlertsType
<1>6. SoundTyped' /\ SoundAsked'
  <2>1. CASE \E made \in {"suspended", "running"} : enableSound(made)
    <3> PICK made \in {"suspended", "running"} : enableSound(made)
        BY <2>1
    <3> QED BY <1>5 DEF enableSound, SoundAsked, Contexts, Heard
  <2>2. CASE NoSound
    <3>1. /\ Heard /\ audioEpoch' = audioEpoch + 1 /\ wantsSound' = TRUE /\ soundOn' = FALSE
          /\ resuming' = resuming
        BY <2>2 DEF NoSound
    <3>2. context' \in Contexts
        BY <1>5, <2>2 DEF NoSound, Contexts
    <3>3. audioEpoch' \in Nat /\ resuming' \in SUBSET Nat /\ \A g \in resuming' : g <= audioEpoch'
        BY <1>5, <3>1 DEF SoundAsked
    <3>4. soundOn' \in BOOLEAN /\ wantsSound' \in BOOLEAN
        BY <3>1
    <3> QED BY <3>1, <3>2, <3>3, <3>4 DEF SoundAsked
  <2>3. CASE muteSound
    <3>1. /\ audioEpoch' = audioEpoch + 1 /\ wantsSound' = FALSE /\ soundOn' = FALSE
          /\ resuming' = resuming /\ context' = context
        BY <2>3 DEF muteSound
    <3>2. audioEpoch' \notin resuming'
        BY <1>5, <3>1 DEF SoundAsked
    <3>3. audioEpoch' \in Nat /\ resuming' \in SUBSET Nat /\ context' \in Contexts
          /\ \A g \in resuming' : g <= audioEpoch'
        BY <1>5, <3>1 DEF SoundAsked
    <3>4. soundOn' \in BOOLEAN /\ wantsSound' \in BOOLEAN
        BY <3>1
    <3> QED BY <3>1, <3>2, <3>3, <3>4 DEF SoundAsked
  <2>4. CASE \E g \in resuming, ok \in BOOLEAN : Resumed(g, ok)
    <3> PICK g \in resuming, ok \in BOOLEAN : Resumed(g, ok)
        BY <2>4
    <3> QED BY <1>5 DEF Resumed, SoundAsked, IsLast, Heard
  <2>5. CASE \E now \in {"suspended", "running"} : ContextChanges(now)
    <3> PICK now \in {"suspended", "running"} : ContextChanges(now)
        BY <2>5
    <3> QED BY <1>5 DEF ContextChanges, SoundAsked, Contexts, Heard
  <2>6. CASE SoundStops
      BY <1>5, <2>6 DEF SoundStops, SoundAsked
  <2> QED BY <2>1, <2>2, <2>3, <2>4, <2>5, <2>6
<1> QED BY <1>2, <1>3, <1>4, <1>6 DEF AlertsInv

\* The same of the notifications.
LEMMA NotesKeep ==
    ASSUME AlertsInv,
           \/ enableNotifications \/ NoNotifications \/ disableNotifications
           \/ (\E g \in asking, answer \in Permissions : Prompted(g, answer))
           \/ (\E answer \in Permissions : PermissionChanges(answer))
           \/ (\E s \in Verified : NoticeClosed(s))
    PROVE  AlertsInv'
<1>1. UNCHANGED <<listeners, soundVars, ledgerVars>>
    BY DEF enableNotifications, NoNotifications, disableNotifications, Prompted, PermissionChanges,
           NoticeClosed
<1>2. LedgerKept'
    BY <1>1, LedgerUntouched
<1>3. SoundAsked'
    BY <1>1, SoundUntouched
<1> DEFINE NotesTyped == /\ notesOn \in BOOLEAN /\ wantsNotes \in BOOLEAN /\ permission \in Permissions
                         /\ permissionEpoch \in Nat /\ asking \in SUBSET Nat
                         /\ notices \in SUBSET Verified /\ (notices # {} => listeners # {})
<1>4. ASSUME NotesTyped' PROVE AlertsType' /\ (notices # {} => Heard)'
    BY <1>1, <1>4 DEF AlertsInv, AlertsType, soundVars, Heard
<1>5. NotesTyped /\ NotesAsked
    BY DEF AlertsInv, AlertsType, Heard
<1>6. NotesTyped' /\ NotesAsked'
  <2>1. CASE enableNotifications
      BY <1>5, <2>1 DEF enableNotifications, NotesAsked
  <2>2. CASE NoNotifications
      BY <1>5, <2>2 DEF NoNotifications, NotesAsked
  <2>3. CASE disableNotifications
    <3>1. /\ permissionEpoch' = permissionEpoch + 1 /\ wantsNotes' = FALSE /\ notesOn' = FALSE
          /\ UNCHANGED <<asking, permission, notices, listeners>>
        BY <2>3 DEF disableNotifications
    <3>2. permissionEpoch' \notin asking'
        BY <1>5, <3>1 DEF NotesAsked
    <3>3. /\ permissionEpoch' \in Nat /\ asking' \in SUBSET Nat /\ permission' \in Permissions
          /\ notices' \in SUBSET Verified /\ (notices' # {} => listeners' # {})
          /\ \A g \in asking' : g <= permissionEpoch'
        BY <1>5, <3>1 DEF NotesAsked
    <3>4. notesOn' \in BOOLEAN /\ wantsNotes' \in BOOLEAN
        BY <3>1
    <3> QED BY <3>1, <3>2, <3>3, <3>4 DEF NotesAsked
  <2>4. CASE \E g \in asking, answer \in Permissions : Prompted(g, answer)
    <3> PICK g \in asking, answer \in Permissions : Prompted(g, answer)
        BY <2>4
    <3> QED BY <1>5 DEF Prompted, NotesAsked, IsLast
  <2>5. CASE \E answer \in Permissions : PermissionChanges(answer)
      BY <1>5, <2>5 DEF PermissionChanges, NotesAsked, noteVars
  <2>6. CASE \E s \in Verified : NoticeClosed(s)
      BY <1>5, <2>6 DEF NoticeClosed, NotesAsked, noteVars
  <2> QED BY <2>1, <2>2, <2>3, <2>4, <2>5, <2>6
<1> QED BY <1>2, <1>3, <1>4, <1>6 DEF AlertsInv

\* What a claim leaves in the ledger: itself at the end, the others as they stood.
LEMMA RememberPlaces ==
    ASSUME LedgerType, NEW s \in Verified
    PROVE  /\ Remember(s) \in Seq(Verified)
           /\ Len(Remember(s)) \in 1..LedgerLimit /\ Len(Remember(s)) <= Len(ledger) + 1
           /\ Remember(s)[Len(Remember(s))] = s
           /\ \A k \in 1..LedgerLimit - 1 : k <= Len(ledger) =>
                 /\ k + 1 <= Len(Remember(s))
                 /\ Remember(s)[Len(Remember(s)) - k] = ledger[Len(ledger) + 1 - k]
<1> USE FocusAlertsAssumption
<1>1. ledger \in Seq(Verified) /\ Len(ledger) \in Nat /\ Len(ledger) <= LedgerLimit
    BY DEF LedgerType
<1>2. CASE Len(ledger) < LedgerLimit
  <2>1. Remember(s) = Append(ledger, s)
      BY <1>2 DEF Remember
  <2>2. Append(ledger, s) \in Seq(Verified) /\ Len(Append(ledger, s)) = Len(ledger) + 1
      BY <1>1
  <2>3. Append(ledger, s)[Len(ledger) + 1] = s
      BY <1>1
  <2>4. \A i \in 1..Len(ledger) : Append(ledger, s)[i] = ledger[i]
      BY <1>1
  <2> QED BY <1>1, <1>2, <2>1, <2>2, <2>3, <2>4
<1>3. CASE ~(Len(ledger) < LedgerLimit)
  <2>1. Remember(s) = Append(Tail(ledger), s) /\ Len(ledger) = LedgerLimit
      BY <1>1, <1>3 DEF Remember
  <2>2. ledger # <<>>
      BY <1>1, <2>1
  <2>3. /\ Tail(ledger) \in Seq(Verified) /\ Len(Tail(ledger)) = Len(ledger) - 1
        /\ \A i \in 1..Len(ledger) - 1 : Tail(ledger)[i] = ledger[i + 1]
      BY <1>1, <2>2, HeadTailProperties
  <2>4. Append(Tail(ledger), s) \in Seq(Verified) /\ Len(Append(Tail(ledger), s)) = Len(ledger)
      BY <1>1, <2>3
  <2>5. Append(Tail(ledger), s)[Len(ledger)] = s
      BY <1>1, <2>3
  <2>6. \A i \in 1..Len(ledger) - 1 : Append(Tail(ledger), s)[i] = ledger[i + 1]
      BY <1>1, <2>3
  <2> QED BY <1>1, <2>1, <2>4, <2>5, <2>6
<1> QED BY <1>2, <1>3

LEMMA announceKeeps ==
    ASSUME AlertsInv, NEW s \in Verified, NEW played \in BOOLEAN, NEW shown \in BOOLEAN,
           announce(s, played, shown)
    PROVE  AlertsInv'
<1> USE FocusAlertsAssumption
<1>1. LedgerType /\ LedgerHolds /\ repeated = FALSE
    BY DEF AlertsInv, LedgerKept
<1>2. ledger' = Remember(s) /\ ~Claimed(s) /\ (repeated' = (repeated \/ Remembered(s)))
    BY DEF announce
<1>3. ledger \in Seq(Verified) /\ Len(ledger) \in Nat /\ since \in [Verified -> Nat]
    BY <1>1 DEF LedgerType
<1>4. ~Remembered(s)
  <2> SUFFICES ASSUME Remembered(s) PROVE FALSE
      OBVIOUS
  <2>1. since[s] \in Nat /\ since[s] >= 1 /\ since[s] <= Len(ledger)
        /\ ledger[Len(ledger) + 1 - since[s]] = s
      BY <1>1 DEF LedgerHolds, Remembered
  <2>2. Len(ledger) + 1 - since[s] \in 1..Len(ledger)
      BY <1>3, <2>1
  <2> QED BY <1>2, <2>1, <2>2 DEF Claimed
<1>5. repeated' = FALSE
    BY <1>1, <1>2, <1>4
<1>6. since' = [t \in Verified |-> IF t = s THEN 1
                                   ELSE IF Remembered(t) THEN since[t] + 1 ELSE since[t]]
    BY DEF announce
<1>7. since' \in [Verified -> Nat]
    BY <1>3, <1>6
<1>8. LedgerType'
    BY <1>1, <1>2, <1>7, RememberPlaces DEF LedgerType
<1>9. LedgerHolds'
  <2> SUFFICES ASSUME NEW t \in Verified, since'[t] \in 1..LedgerLimit
               PROVE  /\ since'[t] <= Len(ledger')
                      /\ ledger'[Len(ledger') + 1 - since'[t]] = t
      BY DEF LedgerHolds, Remembered
  <2>1. CASE t = s
    <3>1. since'[t] = 1
        BY <1>6, <2>1
    <3>2. Len(ledger') \in 1..LedgerLimit /\ ledger'[Len(ledger')] = s
        BY <1>1, <1>2, RememberPlaces
    <3>3. Len(ledger') + 1 - since'[t] = Len(ledger')
        BY <3>1, <3>2
    <3> QED BY <2>1, <3>1, <3>2, <3>3
  <2>2. CASE t # s
    <3>1. Remembered(t) /\ since'[t] = since[t] + 1
        BY <1>6, <2>2 DEF Remembered
    <3>2. /\ since[t] \in 1..LedgerLimit - 1 /\ since[t] <= Len(ledger)
          /\ ledger[Len(ledger) + 1 - since[t]] = t
        BY <1>1, <1>3, <3>1 DEF LedgerHolds, Remembered
    <3>3. /\ Len(ledger') \in 1..LedgerLimit /\ since[t] + 1 <= Len(ledger')
          /\ ledger'[Len(ledger') - since[t]] = t
        BY <1>1, <1>2, <3>2, RememberPlaces
    <3>4. Len(ledger') + 1 - since'[t] = Len(ledger') - since[t]
        BY <1>3, <3>1, <3>2, <3>3
    <3> QED BY <3>1, <3>3, <3>4
  <2> QED BY <2>1, <2>2
<1>10. AlertsType'
    BY DEF announce, AlertsInv, AlertsType
<1>11. SoundAsked' /\ NotesAsked' /\ (notices # {} => Heard)'
    BY DEF announce, AlertsInv, AlertsType, SoundAsked, NotesAsked, Heard
<1> QED BY <1>5, <1>8, <1>9, <1>10, <1>11 DEF AlertsInv, LedgerKept

LEMMA AlertsStep == AlertsInv /\ [AlertsNext]_alertVars => AlertsInv'
<1> SUFFICES ASSUME AlertsInv, [AlertsNext]_alertVars PROVE AlertsInv'
    OBVIOUS
<1>1. CASE UNCHANGED alertVars
  <2>1. LedgerKept' /\ SoundAsked'
      BY <1>1, LedgerUntouched, SoundUntouched DEF alertVars
  <2> QED BY <1>1, <2>1 DEF alertVars, soundVars, noteVars, AlertsInv, AlertsType, NotesAsked, Heard
<1>2. CASE AlertsNext
    BY <1>2, ListenersKeep, SoundKeeps, NotesKeep, announceKeeps DEF AlertsNext
<1> QED BY <1>1, <1>2

LEMMA AlertsInvMeans == AlertsInv => AlertsAsChosen /\ AnnouncedSeldom
BY DEF AlertsInv, AlertsType, SoundAsked, NotesAsked, LedgerKept, AlertsAsChosen, AnnouncedSeldom

\* No observer of the timer ever shows an older state than the one before, no session is
\* announced twice or before it completed, an answer of the browser that comes late turns no
\* sound or notification on, and the alert controller's ledger keeps what it promises: for any
\* number of observers and sessions, and a ledger of any size (useFocusState.ts: sequence,
\* generation and epoch; useFocusAlerts.ts: audioEpoch, permissionEpoch, claimed).
THEOREM TimerIsHonest == FocusViewSpec /\ AlertsSpec => []ObserversAgree
<1>1. FocusViewInv /\ AlertsInv => ObserversAgree
  <2> SUFFICES ASSUME FocusViewInv, AlertsInv PROVE ObserversAgree
      OBVIOUS
  <2>1. TimerNotOlder
      BY DEF FocusViewInv, TimerNotOlder
  <2>2. AnnouncedOnce
      BY DEF FocusViewInv, FocusViewType, Announced, AnnouncedOnce
  <2> QED BY <2>1, <2>2, AlertsInvMeans DEF ObserversAgree
<1> QED BY <1>1, FocusViewInitInv, FocusViewStep, AlertsInitInv, AlertsStep, PTL
    DEF FocusViewSpec, AlertsSpec

-----------------------------------------------------------------------------
(* The record editors: a save changes what was edited, a draft is kept.    *)

Content == [Fields -> {0, 1}]
EditorRec == [kind : EditorKinds \cup {"none"}, base : Content, form : Content,
              adopt : BOOLEAN, notice : BOOLEAN, asked : BOOLEAN, edited : SUBSET Fields]
FetchRec == [pc : {"none", "asked", "served"}, waiter : BOOLEAN, got : Content]
SavingRec == [pc : {"none", "asked", "done", "refused"}, sent : SUBSET Fields, values : Content,
              base : Content, edited : SUBSET Fields]

\* What was not edited is what the hash stands for.
Coherent(form, base, edited) == \A f \in Fields \ edited : form[f] = base[f]

\* A reload that is still waited for was asked for after the last edit.
EditorOK(e) == e \in EditorRec /\ Coherent(e.form, e.base, e.edited) /\ (e.adopt => e.asked)
SavingOK(s) == s \in SavingRec /\ Coherent(s.values, s.base, s.edited)

EditorInv ==
    /\ record \in Content /\ listed \in Content /\ fetch \in FetchRec
    /\ EditorOK(editor) /\ SavingOK(saving)
    /\ clobbered = FALSE /\ lostEdits = FALSE

LEMMA EditorConstants ==
    /\ EditorOK(NoEditor) /\ NoFetch \in FetchRec /\ SavingOK(NotSaving) /\ [f \in Fields |-> 0] \in Content
<1>1. [f \in Fields |-> 0] \in Content
    BY DEF Content
<1>2. NoEditor \in EditorRec /\ NoFetch \in FetchRec /\ NotSaving \in SavingRec
    BY <1>1 DEF NoEditor, NoFetch, NotSaving, EditorRec, FetchRec, SavingRec
<1> QED BY <1>1, <1>2 DEF EditorOK, SavingOK, Coherent, NoEditor, NotSaving

LEMMA CancelAdoptOK == ASSUME NEW e, EditorOK(e) PROVE EditorOK(CancelAdopt(e))
BY DEF EditorOK, EditorRec, CancelAdopt

LEMMA NoticeOK == ASSUME NEW e, EditorOK(e), NEW b \in BOOLEAN PROVE EditorOK([e EXCEPT !.notice = b])
BY DEF EditorOK, EditorRec

LEMMA MountedOK ==
    ASSUME NEW kind \in EditorKinds \cup {"none"}, NEW r \in Content
    PROVE  EditorOK(Mounted(kind, r)) /\ Mounted(kind, r).edited = {}
<1> DEFINE m1 == [NoEditor EXCEPT !.kind = kind]
           m2 == [m1 EXCEPT !.base = r]
           m3 == [m2 EXCEPT !.form = r]
<1>1. NoEditor \in EditorRec /\ NoEditor.adopt = FALSE /\ NoEditor.edited = {}
    BY EditorConstants DEF EditorOK, NoEditor
<1>2. Mounted(kind, r) = m3
    BY <1>1 DEF Mounted, EditorRec
<1>3. m1 \in EditorRec /\ m1.adopt = FALSE /\ m1.edited = {}
    BY <1>1 DEF EditorRec
<1>4. m2 \in EditorRec /\ m2.adopt = FALSE /\ m2.edited = {} /\ m2.base = r
  <2> HIDE DEF m1
  <2> QED BY <1>3 DEF EditorRec
<1>5. m3 \in EditorRec /\ m3.adopt = FALSE /\ m3.edited = {} /\ m3.base = r /\ m3.form = r
  <2> HIDE DEF m2
  <2> QED BY <1>4 DEF EditorRec
<1> HIDE DEF m3
<1> QED BY <1>2, <1>5 DEF EditorOK, Coherent

LEMMA RerunOK ==
    ASSUME NEW e, EditorOK(e), NEW waiter \in BOOLEAN, Rerun(e, waiter)
    PROVE  EditorOK(editor') /\ fetch' \in FetchRec
<1> DEFINE f1 == [NoFetch EXCEPT !.pc = "asked"]
           f2 == [f1 EXCEPT !.waiter = waiter]
<1>1. fetch' = f2
    BY DEF Rerun, NoFetch
<1>2. f1 \in FetchRec
    BY EditorConstants DEF FetchRec
<1>3. f2 \in FetchRec
  <2> HIDE DEF f1
  <2> QED BY <1>2 DEF FetchRec
<1> QED BY <1>1, <1>3, CancelAdoptOK DEF Rerun

\* The step of an action that neither serves a save nor takes a fetched record.
LEMMA EditorMoves ==
    ASSUME EditorInv, record' \in Content, EditorOK(editor'), fetch' \in FetchRec, SavingOK(saving'),
           UNCHANGED <<listed, clobbered, lostEdits>>
    PROVE  EditorInv'
BY DEF EditorInv, EditorOK, SavingOK, Coherent

LEMMA TypeKeeps == ASSUME EditorInv, NEW f \in Fields, Type(f) PROVE EditorInv'
<1> DEFINE c == CancelAdopt(editor)
           e1 == [c EXCEPT !.asked = FALSE]
           e2 == [e1 EXCEPT !.edited = c.edited \cup {f}]
           e3 == [e2 EXCEPT !.form = [c.form EXCEPT ![f] = 1 - @]]
<1>1. UNCHANGED <<record, listed, fetch, saving, others, clobbered, lostEdits>>
    BY DEF Type
<1>2. c \in EditorRec /\ c.adopt = FALSE /\ Coherent(c.form, c.base, c.edited)
    BY DEF EditorInv, EditorOK, CancelAdopt, EditorRec
<1>3. editor' = e3
    BY <1>2 DEF Type, EditorRec
<1> HIDE DEF c
<1>4. e1 \in EditorRec /\ e1.adopt = FALSE /\ e1.base = c.base /\ e1.form = c.form /\ e1.edited = c.edited
    BY <1>2 DEF EditorRec
<1>5. e2 \in EditorRec /\ e2.adopt = FALSE /\ e2.base = c.base /\ e2.form = c.form /\ e2.edited = c.edited \cup {f}
  <2>1. c.edited \cup {f} \in SUBSET Fields
      BY <1>2 DEF EditorRec
  <2> HIDE DEF e1
  <2> QED BY <1>4, <2>1 DEF EditorRec
<1>6. /\ e3 \in EditorRec /\ e3.adopt = FALSE /\ e3.base = c.base /\ e3.edited = c.edited \cup {f}
      /\ e3.form = [c.form EXCEPT ![f] = 1 - @]
  <2>1. [c.form EXCEPT ![f] = 1 - @] \in Content
      BY <1>2 DEF EditorRec, Content
  <2> HIDE DEF e2
  <2> QED BY <1>5, <2>1 DEF EditorRec
<1> HIDE DEF e3
<1>7. Coherent(e3.form, e3.base, e3.edited)
  <2>1. c.form \in Content
      BY <1>2 DEF EditorRec
  <2> QED BY <1>2, <1>6, <2>1 DEF Coherent, Content
<1>8. EditorOK(editor')
    BY <1>3, <1>6, <1>7 DEF EditorOK
<1> QED BY <1>1, <1>8, EditorMoves DEF EditorInv

LEMMA ReloadDraftKeeps == ASSUME EditorInv, ReloadDraft PROVE EditorInv'
<1> DEFINE e1 == [editor EXCEPT !.adopt = TRUE]
           e2 == [e1 EXCEPT !.asked = TRUE]
<1>1. Rerun(e2, TRUE) /\ UNCHANGED <<record, listed, saving, others, clobbered, lostEdits>>
    BY DEF ReloadDraft, EditorInv, EditorOK, EditorRec
<1>2. e1 \in EditorRec /\ Coherent(e1.form, e1.base, e1.edited)
    BY DEF EditorInv, EditorOK, EditorRec, Coherent
<1>3. EditorOK(e2)
  <2> HIDE DEF e1
  <2> QED BY <1>2 DEF EditorOK, EditorRec, Coherent
<1> HIDE DEF e2
<1> QED BY <1>1, <1>3, RerunOK, EditorMoves DEF EditorInv

LEMMA DataChangedKeeps == ASSUME EditorInv, DataChanged PROVE EditorInv'
<1>1. UNCHANGED <<record, listed, saving, others, clobbered, lostEdits>>
    BY DEF DataChanged
<1>2. EditorOK(editor)
    BY DEF EditorInv
<1>3. EditorOK([editor EXCEPT !.notice = TRUE]) /\ EditorOK([editor EXCEPT !.notice = FALSE])
    BY <1>2, NoticeOK
<1>4. CASE Dirty(editor)
    BY <1>1, <1>3, <1>4, EditorMoves DEF DataChanged, EditorInv
<1>5. CASE ~Dirty(editor)
  <2>1. Rerun([editor EXCEPT !.notice = FALSE], FALSE)
      BY <1>5 DEF DataChanged
  <2>2. EditorOK(editor') /\ fetch' \in FetchRec
      BY <1>3, <2>1, RerunOK
  <2> QED BY <1>1, <2>2, EditorMoves DEF EditorInv
<1> QED BY <1>4, <1>5

LEMMA ServeFetchKeeps == ASSUME EditorInv, ServeFetch PROVE EditorInv'
<1> DEFINE f1 == [fetch EXCEPT !.pc = "served"]
           f2 == [f1 EXCEPT !.got = record]
<1>1. fetch' = f2 /\ UNCHANGED <<record, listed, editor, saving, others, clobbered, lostEdits>>
    BY DEF ServeFetch, EditorInv, FetchRec
<1>2. f1 \in FetchRec
    BY DEF EditorInv, FetchRec
<1>3. f2 \in FetchRec
  <2> HIDE DEF f1
  <2> QED BY <1>2 DEF FetchRec, EditorInv
<1> HIDE DEF f2
<1> QED BY <1>1, <1>3, EditorMoves DEF EditorInv

\* A fetched record takes the place of a dirty draft only if the reload was asked for.
LEMMA FetchArrivesKeeps == ASSUME EditorInv, FetchArrives PROVE EditorInv'
<1>1. /\ listed' = fetch.got /\ editor' = Observed(editor, fetch.got) /\ fetch' = NoFetch
      /\ lostEdits' = (lostEdits \/ (Dirty(editor) /\ ~Dirty(editor') /\ ~editor.asked))
      /\ UNCHANGED <<record, saving, others, clobbered>>
    BY DEF FetchArrives
<1>2. fetch.got \in Content /\ editor \in EditorRec /\ EditorOK(editor) /\ editor.kind \in EditorKinds \cup {"none"}
    BY DEF EditorInv, EditorOK, FetchRec, EditorRec
<1>3. \/ editor' = editor
      \/ (editor.adopt \/ ~Dirty(editor)) /\ editor' = Mounted(editor.kind, fetch.got)
      \/ editor' = [editor EXCEPT !.notice = TRUE]
    BY <1>1 DEF Observed, MarkStale
<1>4. EditorOK(editor')
    BY <1>2, <1>3, MountedOK, NoticeOK
<1>5. ~(Dirty(editor) /\ ~Dirty(editor') /\ ~editor.asked)
  <2>1. [editor EXCEPT !.notice = TRUE].edited = editor.edited
      BY <1>2 DEF EditorRec
  <2> QED BY <1>2, <1>3, <2>1 DEF Dirty, EditorOK
<1>6. lostEdits' = FALSE
  <2>1. lostEdits = FALSE
      BY DEF EditorInv
  <2> QED BY <1>1, <1>5, <2>1
<1>7. listed' \in Content /\ fetch' \in FetchRec /\ SavingOK(saving)' /\ record' \in Content /\ clobbered' = FALSE
    BY <1>1, <1>2, EditorConstants DEF EditorInv, SavingOK, Coherent
<1> QED BY <1>4, <1>6, <1>7 DEF EditorInv, SavingOK, EditorOK, Coherent

LEMMA SaveKeeps == ASSUME EditorInv, Save PROVE EditorInv'
<1> DEFINE m == [pc |-> "asked", sent |-> Sends(editor), values |-> editor.form,
                 base |-> editor.base, edited |-> editor.edited]
<1>1. /\ Open /\ saving' = m
      /\ UNCHANGED <<record, listed, editor, fetch, others, clobbered, lostEdits>>
    BY DEF Save
<1>2. editor.kind \in {"note", "task", "alarm", "item"}
    BY <1>1, EditorAssumption DEF Open, EditorInv, EditorOK, EditorRec
<1>3. Sends(editor) \in SUBSET Fields
    BY <1>2 DEF Sends, NoteSends, ItemSends, TaskSends, AlarmSends
<1>4. m \in SavingRec
    BY <1>3 DEF SavingRec, EditorInv, EditorOK, EditorRec
<1>5. m.values = editor.form /\ m.base = editor.base /\ m.edited = editor.edited
    OBVIOUS
<1> HIDE DEF m
<1>6. SavingOK(m)
    BY <1>4, <1>5 DEF SavingOK, EditorInv, EditorOK
<1> QED BY <1>1, <1>6, EditorMoves DEF EditorInv

\* A save that the server accepts changes nothing that was not edited: what it sends of
\* the other fields is what the hash stood for, and so what the record holds.
LEMMA ServeSaveKeeps == ASSUME EditorInv, ServeSave PROVE EditorInv'
<1>1. UNCHANGED <<listed, editor, fetch, others, lostEdits>>
    BY DEF ServeSave
<1>2. record \in Content /\ saving \in SavingRec /\ Coherent(saving.values, saving.base, saving.edited)
      /\ clobbered = FALSE
    BY DEF EditorInv, SavingOK
<1>3. SavingOK([NotSaving EXCEPT !.pc = "done"]) /\ SavingOK([NotSaving EXCEPT !.pc = "refused"])
    BY EditorConstants DEF NotSaving, SavingOK, SavingRec, Coherent
<1>4. CASE saving.base = record
  <2>1. /\ record' = Patched(saving) /\ saving' = [NotSaving EXCEPT !.pc = "done"]
        /\ clobbered' = (clobbered \/ \E f \in Fields \ saving.edited : record'[f] # record[f])
      BY <1>4 DEF ServeSave
  <2>2. record' \in Content
      BY <1>2, <2>1 DEF Patched, Content, SavingRec
  <2>3. \A f \in Fields \ saving.edited : record'[f] = record[f]
      BY <1>2, <1>4, <2>1 DEF Patched, Coherent
  <2>4. clobbered' = FALSE
      BY <1>2, <2>1, <2>3
  <2> QED BY <1>1, <1>3, <2>1, <2>2, <2>4 DEF EditorInv, EditorOK, Coherent, SavingOK
<1>5. CASE saving.base # record
  <2>1. saving' = [NotSaving EXCEPT !.pc = "refused"] /\ UNCHANGED <<record, clobbered>>
      BY <1>5 DEF ServeSave
  <2>2. SavingOK(saving')
      BY <1>3, <2>1
  <2> QED BY <1>1, <2>1, <2>2, EditorMoves DEF EditorInv
<1> QED BY <1>4, <1>5

LEMMA EditorStep == EditorInv /\ [EditorNext]_editorVars => EditorInv'
<1> SUFFICES ASSUME EditorInv, [EditorNext]_editorVars PROVE EditorInv'
    OBVIOUS
<1>0. EditorOK(editor) /\ EditorOK(CancelAdopt(editor)) /\ EditorOK([editor EXCEPT !.notice = TRUE])
      /\ record \in Content /\ listed \in Content /\ fetch \in FetchRec /\ SavingOK(saving)
    BY CancelAdoptOK, NoticeOK DEF EditorInv
<1>1. CASE UNCHANGED editorVars
    BY <1>0, <1>1, EditorMoves DEF editorVars
<1>2. ASSUME NEW kind \in EditorKinds, OpenEditor(kind) PROVE EditorInv'
  <2>1. EditorOK(editor')
      BY <1>0, <1>2, MountedOK DEF OpenEditor
  <2> QED BY <1>0, <1>2, <2>1, EditorMoves DEF OpenEditor
<1>3. CASE CloseEditor
    BY <1>0, <1>3, EditorConstants, EditorMoves DEF CloseEditor
<1>4. CASE FetchFails
    BY <1>0, <1>4, EditorConstants, EditorMoves DEF FetchFails
<1>5. CASE SaveDone
  <2>1. EditorOK(editor') /\ fetch' \in FetchRec
      BY <1>5, EditorConstants, RerunOK DEF SaveDone
  <2> QED BY <1>0, <1>5, <2>1, EditorConstants, EditorMoves DEF SaveDone
<1>6. CASE SaveRefused
    BY <1>0, <1>6, EditorConstants, EditorMoves DEF SaveRefused
<1>7. CASE SaveFails
    BY <1>0, <1>7, EditorConstants, EditorMoves DEF SaveFails
<1>8. CASE QuickPatch
  <2>1. EditorOK(editor') /\ fetch' \in FetchRec
      BY <1>0, <1>8, RerunOK DEF QuickPatch
  <2>2. record' \in Content
      BY <1>0, <1>8 DEF QuickPatch, Content, Fields
  <2> QED BY <1>0, <1>8, <2>1, <2>2, EditorMoves DEF QuickPatch
<1>9. ASSUME NEW f \in Fields, OthersWrite(f) PROVE EditorInv'
  <2>1. record' \in Content
      BY <1>0, <1>9 DEF OthersWrite, Content
  <2> QED BY <1>0, <1>9, <2>1, EditorMoves DEF OthersWrite
<1> QED BY <1>1, <1>2, <1>3, <1>4, <1>5, <1>6, <1>7, <1>8, <1>9, TypeKeeps, ReloadDraftKeeps, DataChangedKeeps,
           ServeFetchKeeps, FetchArrivesKeeps, SaveKeeps, ServeSaveKeeps
    DEF EditorNext

\* Whatever was fetched, reloaded or written elsewhere, an accepted save changes only
\* fields edited in the draft it was made from, and a fetched record takes the place of an
\* edited draft only after a reload asked for since its last edit, in every kind of editor
\* (useCoherentDraft, sync-guard-client.ts).  A cancelled editor, and one a save closes while
\* its user types on, take their edits with them and are not spoken of; nor is a record
\* that is deleted.
THEOREM DraftsAreHonoured == EditorSpec => []DraftsHonoured
<1>1. EditorInit => EditorInv
  <2> SUFFICES ASSUME EditorInit PROVE EditorInv
      OBVIOUS
  <2> QED BY EditorConstants DEF EditorInit, EditorInv
<1>2. EditorInv => DraftsHonoured
    BY DEF EditorInv, DraftsHonoured, SavesOnlyEdits, DraftKept
<1> QED BY <1>1, <1>2, EditorStep, PTL DEF EditorSpec

-----------------------------------------------------------------------------
(* The session of the page: an outage signs nobody out.                    *)

GateRec == [status : {"loading", "error", "anonymous", "authenticated"}, user : People \cup {Nobody}, busy : BOOLEAN]
CallRec == [is : {"none", "me", "app", "users", "login", "logout"}, cookie : Nat, who : People \cup {Nobody},
            answer : {"none", "ok", "401", "403", "503", "lost"}]

\* A call carries the cookie of a session that was opened, a login names an account, and
\* a read of the user that was answered 401 carries no cookie that still lives.
CallOK(call, opened, alive) ==
    /\ call \in CallRec /\ call.cookie <= opened
    /\ call.is \in {"me", "app"} /\ call.answer = "401" => call.cookie \notin alive
    /\ call.is = "login" /\ call.answer = "none" => call.who \in People

SessionInv ==
    /\ sessions \in Seq(People) /\ live \in SUBSET (1..Len(sessions)) /\ jar \in 0..Len(sessions)
    /\ gate \in GateRec /\ dbUp \in BOOLEAN
    /\ calls \in [Calls -> CallRec]
    /\ \A c \in Calls : CallOK(calls[c], Len(sessions), live)

\* Sessions end, and a new one has an id that no call carries.
SessionsMove ==
    \/ sessions' = sessions /\ live' \subseteq live
    \/ \E who \in People : sessions' = Append(sessions, who) /\ live' = live \cup {Len(sessions')}

LEMMA SessionsGrow ==
    ASSUME SessionInv, SessionsMove
    PROVE  /\ sessions' \in Seq(People) /\ live' \in SUBSET (1..Len(sessions'))
           /\ Len(sessions) \in Nat /\ Len(sessions') \in Nat /\ Len(sessions) <= Len(sessions')
           /\ \A call : CallOK(call, Len(sessions), live) => CallOK(call, Len(sessions'), live')
<1>1. sessions \in Seq(People) /\ live \in SUBSET (1..Len(sessions)) /\ Len(sessions) \in Nat
    BY DEF SessionInv
<1>2. CASE sessions' = sessions /\ live' \subseteq live
  <2>1. \A x \in live' : x \in 1..Len(sessions')
      BY <1>1, <1>2
  <2>2. ASSUME NEW call, CallOK(call, Len(sessions), live) PROVE CallOK(call, Len(sessions'), live')
      BY <1>2, <2>2 DEF CallOK
  <2> QED BY <1>1, <1>2, <2>1, <2>2
<1>3. CASE \E who \in People : sessions' = Append(sessions, who) /\ live' = live \cup {Len(sessions')}
  <2>1. PICK who \in People : sessions' = Append(sessions, who) /\ live' = live \cup {Len(sessions')}
      BY <1>3
  <2>2. sessions' \in Seq(People) /\ Len(sessions') = Len(sessions) + 1
      BY <1>1, <2>1
  <2>3. \A x \in live' : x \in 1..Len(sessions')
      BY <1>1, <2>1, <2>2
  <2>4. ASSUME NEW call, CallOK(call, Len(sessions), live) PROVE CallOK(call, Len(sessions'), live')
      BY <1>1, <2>1, <2>2, <2>4 DEF CallOK, CallRec
  <2> QED BY <1>1, <2>2, <2>3, <2>4
<1> QED BY <1>2, <1>3 DEF SessionsMove

\* The step of an action that changes one call.
LEMMA CallMoves ==
    ASSUME SessionInv, SessionsMove, NEW c \in Calls, NEW call,
           CallOK(call, Len(sessions'), live'), calls' = [calls EXCEPT ![c] = call],
           jar' \in 0..Len(sessions'), gate' \in GateRec, dbUp' \in BOOLEAN
    PROVE  SessionInv'
<1>1. call \in CallRec /\ calls \in [Calls -> CallRec]
    BY DEF CallOK, SessionInv
<1>2. \A d \in Calls : CallOK(calls'[d], Len(sessions'), live')
    BY <1>1, SessionsGrow DEF SessionInv
<1>3. calls' \in [Calls -> CallRec]
    BY <1>1
<1> QED BY <1>2, <1>3, SessionsGrow DEF SessionInv

\* The step of an action that changes no call.
LEMMA CallsStay ==
    ASSUME SessionInv, SessionsMove, calls' = calls,
           jar' \in 0..Len(sessions'), gate' \in GateRec, dbUp' \in BOOLEAN
    PROVE  SessionInv'
<1>1. \A d \in Calls : CallOK(calls'[d], Len(sessions'), live')
    BY SessionsGrow DEF SessionInv
<1> QED BY <1>1, SessionsGrow DEF SessionInv

LEMMA SessionFacts ==
    ASSUME SessionInv
    PROVE  /\ Len(sessions) \in Nat /\ jar \in 0..Len(sessions) /\ jar \in Nat /\ jar <= Len(sessions)
           /\ gate \in GateRec /\ dbUp \in BOOLEAN
           /\ \A c \in Calls : CallOK(calls[c], Len(sessions), live) /\ calls[c] \in CallRec
           /\ Nobody \in People \cup {Nobody}
           /\ \A n : CallOK(NoCall, Len(sessions), n) /\ NoCall.is = "none"
BY DEF SessionInv, CallOK, NoCall, CallRec

\* A request leaves with the cookie of the moment.
LEMMA SendKeeps ==
    ASSUME SessionInv, NEW c \in Calls, NEW is \in {"me", "app", "users", "login", "logout"},
           NEW who \in People \cup {Nobody}, Send(c, is, who), gate' \in GateRec,
           is = "login" => who \in People
    PROVE  SessionInv'
<1> DEFINE s1 == [NoCall EXCEPT !.is = is]
           s2 == [s1 EXCEPT !.cookie = jar]
           s3 == [s2 EXCEPT !.who = who]
<1>1. calls' = [calls EXCEPT ![c] = s3] /\ UNCHANGED <<sessions, live, jar, dbUp, outages>>
    BY DEF Send, NoCall
<1>2. s1 \in CallRec /\ s1.answer = "none" /\ s1.is = is
    BY DEF NoCall, CallRec
<1>3. s2 \in CallRec /\ s2.answer = "none" /\ s2.is = is /\ s2.cookie = jar
  <2> HIDE DEF s1
  <2> QED BY <1>2, SessionFacts DEF CallRec
<1>4. s3 \in CallRec /\ s3.answer = "none" /\ s3.is = is /\ s3.cookie = jar /\ s3.who = who
  <2> HIDE DEF s2
  <2> QED BY <1>3 DEF CallRec
<1> HIDE DEF s3
<1>5. CallOK(s3, Len(sessions'), live') /\ SessionsMove /\ jar' \in 0..Len(sessions') /\ dbUp' \in BOOLEAN
    BY <1>1, <1>4, SessionFacts DEF CallOK, SessionsMove
<1> QED BY <1>1, <1>5, CallMoves

\* An answer other than 401, or one to a request that lost its session.
LEMMA AnswerKeeps ==
    ASSUME SessionInv, NEW c \in Calls, NEW answer \in {"ok", "401", "403", "503", "lost"},
           NEW who \in People \cup {Nobody}, Answer(c, answer, who), SessionsMove,
           UNCHANGED <<sessions, jar, gate, dbUp>>,
           answer = "401" /\ calls[c].is \in {"me", "app"} => calls[c].cookie \notin live
    PROVE  SessionInv'
<1> DEFINE a1 == [calls[c] EXCEPT !.answer = answer]
           a2 == [a1 EXCEPT !.who = who]
<1>1. calls[c] \in CallRec /\ calls[c].cookie <= Len(sessions)
    BY SessionFacts DEF CallOK
<1>2. calls' = [calls EXCEPT ![c] = a2]
    BY <1>1 DEF Answer, SessionInv, CallRec
<1>3. a1 \in CallRec /\ a1.answer = answer /\ a1.is = calls[c].is /\ a1.cookie = calls[c].cookie
    BY <1>1 DEF CallRec
<1>4. a2 \in CallRec /\ a2.answer = answer /\ a2.is = calls[c].is /\ a2.cookie = calls[c].cookie
  <2> HIDE DEF a1
  <2> QED BY <1>3 DEF CallRec
<1> HIDE DEF a2
<1>5. CallOK(a2, Len(sessions), live)
    BY <1>1, <1>4 DEF CallOK
<1>6. CallOK(a2, Len(sessions'), live') /\ jar' \in 0..Len(sessions') /\ gate' \in GateRec /\ dbUp' \in BOOLEAN
    BY <1>5, SessionsGrow, SessionFacts
<1> QED BY <1>2, <1>6, CallMoves

\* An answer is taken.
LEMMA TakeKeeps ==
    ASSUME SessionInv, NEW c \in Calls, NEW is, Take(c, is), UNCHANGED <<sessions, live, dbUp>>,
           jar' \in 0..Len(sessions), gate' \in GateRec
    PROVE  SessionInv'
<1>1. calls' = [calls EXCEPT ![c] = NoCall] /\ SessionsMove /\ dbUp' \in BOOLEAN
    BY SessionFacts DEF Take, SessionsMove
<1>2. CallOK(NoCall, Len(sessions'), live')
    BY SessionFacts
<1>3. jar' \in 0..Len(sessions')
    OBVIOUS
<1> QED BY <1>1, <1>2, <1>3, CallMoves

LEMMA ServeCallKeeps ==
    ASSUME SessionInv, NEW c \in Calls, ServeMe(c) \/ ServeAdmin(c) \/ ServeLogout(c) \/ Lose(c)
    PROVE  SessionInv'
<1>1. CASE ServeMe(c)
  <2> DEFINE answer == resolveOrReject(calls[c].cookie)
             who == IF answer = "ok" THEN Owner(calls[c].cookie) ELSE Nobody
  <2>1. Answer(c, answer, who) /\ UNCHANGED <<sessions, live, jar, dbUp, gate, outages>>
      BY <1>1 DEF ServeMe
  <2>2. answer \in {"ok", "401", "503"} /\ (answer = "ok" => calls[c].cookie \in live)
        /\ (answer = "401" => calls[c].cookie \notin live)
      BY DEF resolveOrReject
  <2>3. who \in People \cup {Nobody}
    <3>1. \A s \in live : sessions[s] \in People
      <4>1. sessions \in Seq(People) /\ live \in SUBSET (1..Len(sessions))
          BY DEF SessionInv
      <4> QED BY <4>1
    <3> QED BY <2>2, <3>1 DEF Owner
  <2> HIDE DEF answer, who
  <2>4. SessionsMove
      BY <2>1 DEF SessionsMove
  <2> QED BY <2>1, <2>2, <2>3, <2>4, AnswerKeeps
<1>2. CASE ServeAdmin(c)
  <2> DEFINE answer == requireAdmin(calls[c].cookie)
  <2>1. calls[c].is = "users" /\ Answer(c, answer, Nobody) /\ UNCHANGED <<sessions, live, jar, dbUp, gate, outages>>
      BY <1>2 DEF ServeAdmin, Waits
  <2>2. answer \in {"ok", "401", "403", "503"}
      BY DEF requireAdmin, resolveOrReject
  <2> HIDE DEF answer
  <2>3. SessionsMove /\ Nobody \in People \cup {Nobody}
      BY <2>1 DEF SessionsMove
  <2> QED BY <2>1, <2>2, <2>3, AnswerKeeps
<1>3. CASE ServeLogout(c)
  <2>1. Answer(c, "ok", Nobody) /\ UNCHANGED <<sessions, jar, dbUp, gate, outages>>
      BY <1>3 DEF ServeLogout
  <2>2. SessionsMove /\ Nobody \in People \cup {Nobody}
      BY <1>3 DEF ServeLogout, SessionsMove
  <2> QED BY <2>1, <2>2, AnswerKeeps
<1>4. CASE Lose(c)
  <2>1. Answer(c, "lost", Nobody) /\ UNCHANGED <<sessions, live, jar, dbUp, gate>>
      BY <1>4 DEF Lose
  <2>2. SessionsMove /\ Nobody \in People \cup {Nobody}
      BY <2>1 DEF SessionsMove
  <2> QED BY <2>1, <2>2, AnswerKeeps
<1> QED BY <1>1, <1>2, <1>3, <1>4

LEMMA ServeLoginKeeps == ASSUME SessionInv, NEW c \in Calls, ServeLogin(c) PROVE SessionInv'
<1>1. calls[c] \in CallRec /\ calls[c].is = "login" /\ UNCHANGED <<jar, dbUp, gate, outages>>
    BY SessionFacts DEF ServeLogin, Waits
<1>2. CASE /\ sessions' = Append(sessions, calls[c].who) /\ live' = live \union {Len(sessions')}
           /\ calls' = [calls EXCEPT ![c].answer = "ok", ![c].cookie = Len(sessions')]
  <2> DEFINE a1 == [calls[c] EXCEPT !.answer = "ok"]
             a2 == [a1 EXCEPT !.cookie = Len(sessions')]
  <2>1. SessionsMove
    <3>1. CallOK(calls[c], Len(sessions), live) /\ calls[c].answer = "none"
        BY SessionFacts DEF ServeLogin, Waits
    <3>2. calls[c].who \in People
        BY <1>1, <3>1 DEF CallOK
    <3> QED BY <1>2, <3>2 DEF SessionsMove
  <2>2. Len(sessions') \in Nat
      BY <2>1, SessionsGrow
  <2>3. calls' = [calls EXCEPT ![c] = a2]
      BY <1>1, <1>2 DEF SessionInv, CallRec
  <2>4. a1 \in CallRec /\ a1.is = "login" /\ a1.answer = "ok"
      BY <1>1 DEF CallRec
  <2>5. a2 \in CallRec /\ a2.is = "login" /\ a2.answer = "ok" /\ a2.cookie = Len(sessions')
    <3> HIDE DEF a1
    <3> QED BY <2>2, <2>4 DEF CallRec
  <2> HIDE DEF a2
  <2>6. CallOK(a2, Len(sessions'), live')
      BY <2>2, <2>5 DEF CallOK
  <2>7. jar' \in 0..Len(sessions') /\ gate' \in GateRec /\ dbUp' \in BOOLEAN
      BY <1>1, <2>1, <2>2, SessionsGrow, SessionFacts
  <2> QED BY <2>1, <2>3, <2>6, <2>7, CallMoves
<1>3. CASE Answer(c, IF dbUp THEN "401" ELSE "503", Nobody) /\ UNCHANGED <<sessions, live>>
  <2>1. PICK answer \in {"401", "503"} : Answer(c, answer, Nobody)
      BY <1>3
  <2>2. SessionsMove /\ Nobody \in People \cup {Nobody}
      BY <1>3 DEF SessionsMove
  <2> QED BY <1>1, <1>3, <2>1, <2>2, AnswerKeeps
<1> QED BY <1>2, <1>3 DEF ServeLogin

LEMMA SessionStep == SessionInv /\ [SessionNext]_sessionVars => SessionInv'
<1> SUFFICES ASSUME SessionInv, [SessionNext]_sessionVars PROVE SessionInv'
    OBVIOUS
<1>0. /\ gate \in GateRec /\ dbUp \in BOOLEAN /\ jar \in 0..Len(sessions) /\ Len(sessions) \in Nat
      /\ \A c \in Calls : CallOK(calls[c], Len(sessions), live) /\ calls[c] \in CallRec
    BY SessionFacts
<1>1. CASE UNCHANGED sessionVars
    BY <1>0, <1>1, CallsStay DEF sessionVars, SessionsMove
<1>2. CASE DatabaseAway
  <2>1. dbUp' \in BOOLEAN /\ UNCHANGED <<sessions, live, jar, gate, calls>> /\ SessionsMove
      BY <1>0, <1>2 DEF DatabaseAway, SessionsMove
  <2> QED BY <1>0, <2>1, CallsStay
<1>3. ASSUME NEW s \in live, Expire(s) PROVE SessionInv'
  <2>1. live' \subseteq live /\ jar' \in {jar, 0} /\ UNCHANGED <<sessions, dbUp, gate, calls>>
      BY <1>3 DEF Expire
  <2>2. SessionsMove /\ jar' \in 0..Len(sessions')
      BY <1>0, <2>1 DEF SessionsMove
  <2> QED BY <1>0, <2>1, <2>2, CallsStay
<1>4. ASSUME NEW who \in People, OtherTab(who) PROVE SessionInv'
  <2>1. sessions' = Append(sessions, who) /\ jar' = Len(sessions') /\ live' = live \union {jar'}
        /\ UNCHANGED <<dbUp, gate, calls>>
      BY <1>4 DEF OtherTab
  <2>2. SessionsMove
      BY <2>1 DEF SessionsMove
  <2>3. jar' \in 0..Len(sessions')
      BY <2>1, <2>2, SessionsGrow
  <2> QED BY <1>0, <2>1, <2>2, <2>3, CallsStay
<1>5. ASSUME NEW c \in Calls, refresh(c) \/ signOut(c) \/ api(c, "app") \/ api(c, "users") PROVE SessionInv'
  <2>1. gate' \in GateRec /\ Nobody \in People \cup {Nobody}
        /\ \E is \in {"me", "app", "users", "logout"} : Send(c, is, Nobody)
      BY <1>0, <1>5 DEF refresh, signOut, api
  <2> QED BY <2>1, SendKeeps
<1>6. ASSUME NEW c \in Calls, NEW who \in People, signIn(c, who) PROVE SessionInv'
  <2>1. Send(c, "login", who) /\ gate' \in GateRec /\ who \in People \cup {Nobody}
      BY <1>0, <1>6 DEF signIn, GateRec
  <2> QED BY <2>1, SendKeeps
<1>7. ASSUME NEW c \in Calls, fetchMe(c) PROVE SessionInv'
  <2> DEFINE to(status, who) == [[gate EXCEPT !.status = status] EXCEPT !.user = who]
  <2>1. Take(c, "me") /\ UNCHANGED <<sessions, live, jar, dbUp>>
      BY <1>7 DEF fetchMe
  <2>2. \A status \in {"authenticated", "anonymous", "error"}, who \in People \cup {Nobody} :
           Gate(status, who) \in GateRec
    <3> SUFFICES ASSUME NEW status \in {"authenticated", "anonymous", "error"}, NEW who \in People \cup {Nobody}
                 PROVE  Gate(status, who) \in GateRec
        OBVIOUS
    <3>1. Gate(status, who) = to(status, who)
        BY <1>0 DEF Gate, GateRec
    <3>2. [gate EXCEPT !.status = status] \in GateRec
        BY <1>0 DEF GateRec
    <3> QED BY <3>1, <3>2 DEF GateRec
  <2>3. gate' \in GateRec
    <3>1. calls[c].who \in People \cup {Nobody}
        BY <1>0 DEF CallRec
    <3> QED BY <1>7, <2>2, <3>1 DEF fetchMe
  <2> QED BY <1>0, <2>1, <2>3, TakeKeeps
<1>8. ASSUME NEW c \in Calls, onUnauthorized(c) PROVE SessionInv'
  <2>1. (Take(c, "app") \/ Take(c, "users")) /\ UNCHANGED <<sessions, live, jar, dbUp>>
      BY <1>8 DEF onUnauthorized
  <2>2. gate' \in GateRec
    <3>1. Gate("anonymous", Nobody) \in GateRec
        BY <1>0 DEF Gate, GateRec
    <3> QED BY <1>0, <1>8, <3>1 DEF onUnauthorized
  <2> QED BY <1>0, <2>1, <2>2, TakeKeeps
<1>9. ASSUME NEW c \in Calls, SignedIn(c) PROVE SessionInv'
  <2>1. Take(c, "login") /\ UNCHANGED <<sessions, live, dbUp>>
      BY <1>9 DEF SignedIn
  <2>2. calls[c].who \in People \cup {Nobody} /\ calls[c].cookie \in Nat /\ calls[c].cookie <= Len(sessions)
      BY <1>0 DEF CallRec, CallOK
  <2>3. jar' \in 0..Len(sessions)
      BY <1>0, <1>9, <2>2 DEF SignedIn
  <2>4. gate' \in GateRec
    <3>1. [status |-> "authenticated", user |-> calls[c].who, busy |-> FALSE] \in GateRec
        BY <2>2 DEF GateRec
    <3>2. [gate EXCEPT !.busy = FALSE] \in GateRec
        BY <1>0 DEF GateRec
    <3> QED BY <1>9, <3>1, <3>2 DEF SignedIn
  <2> QED BY <2>1, <2>3, <2>4, TakeKeeps
<1>10. ASSUME NEW c \in Calls, SignedOut(c) PROVE SessionInv'
  <2>1. Take(c, "logout") /\ UNCHANGED <<sessions, live, dbUp>>
      BY <1>10 DEF SignedOut
  <2>2. jar' \in 0..Len(sessions)
      BY <1>0, <1>10 DEF SignedOut
  <2>3. gate' \in GateRec
      BY <1>0, <1>10 DEF SignedOut, Gate, GateRec
  <2> QED BY <2>1, <2>2, <2>3, TakeKeeps
<1> QED BY <1>1, <1>2, <1>3, <1>4, <1>5, <1>6, <1>7, <1>8, <1>9, <1>10, ServeCallKeeps, ServeLoginKeeps
    DEF SessionNext

LEMMA SessionInitInv == SessionInit => SessionInv
<1> SUFFICES ASSUME SessionInit PROVE SessionInv
    OBVIOUS
<1> DEFINE first == [[NoCall EXCEPT !.is = "me"] EXCEPT !.cookie = jar]
<1>1. sessions \in Seq(People) /\ DOMAIN sessions = 1..Len(sessions)
  <2>1. CASE sessions = <<>>
    <3>1. <<>> \in Seq(People)
        OBVIOUS
    <3> QED BY <2>1, <3>1
  <2>2. CASE sessions \in {<<p>> : p \in People}
    <3>1. PICK p \in People : sessions = <<p>>
        BY <2>2
    <3>2. <<p>> \in Seq(People)
        OBVIOUS
    <3> QED BY <3>1, <3>2
  <2> QED BY <2>1, <2>2 DEF SessionInit
<1>2. jar \in 0..Len(sessions) /\ live \in SUBSET (1..Len(sessions)) /\ Len(sessions) \in Nat
    BY <1>1 DEF SessionInit
<1>3. dbUp \in BOOLEAN /\ gate \in GateRec
    BY DEF SessionInit, GateRec
<1>4. [NoCall EXCEPT !.is = "me"] \in CallRec /\ NoCall \in CallRec /\ NoCall.cookie = 0 /\ NoCall.is = "none"
      /\ [NoCall EXCEPT !.is = "me"].answer = "none" /\ [NoCall EXCEPT !.is = "me"].is = "me"
    BY DEF NoCall, CallRec
<1>5. first \in CallRec /\ first.cookie = jar /\ first.answer = "none" /\ first.is = "me"
  <2> DEFINE asked == [NoCall EXCEPT !.is = "me"]
  <2>1. asked \in CallRec /\ asked.answer = "none" /\ asked.is = "me" /\ jar \in Nat
      BY <1>2, <1>4
  <2>2. first = [asked EXCEPT !.cookie = jar]
      OBVIOUS
  <2> HIDE DEF asked, first
  <2> QED BY <2>1, <2>2 DEF CallRec
<1>6. CallOK(first, Len(sessions), live) /\ CallOK(NoCall, Len(sessions), live)
  <2> HIDE DEF first
  <2> QED BY <1>2, <1>4, <1>5 DEF CallOK
<1>7. calls = [c \in Calls |-> IF c = Boot THEN first ELSE NoCall]
    BY DEF SessionInit, NoCall
<1> HIDE DEF first
<1> QED BY <1>1, <1>2, <1>3, <1>4, <1>5, <1>6, <1>7 DEF SessionInv

\* The page becomes anonymous only on its user's own logout, or on the answer to a request
\* that carried no cookie or one whose session has ended: a lost call or a database that
\* is away never signs anybody out (AuthContext.tsx, resolveOrReject of guard.ts).
THEOREM OutagesSignNobodyOut == SessionSpec => OutageKeepsUser
<1>1. SessionInv /\ [SessionNext]_sessionVars =>
         [gate'.status = "anonymous" /\ gate.status # "anonymous" =>
            \E c \in Calls : /\ calls[c] # NoCall /\ calls'[c] = NoCall
                             /\ \/ calls[c].is = "logout"
                                \/ calls[c].is \in {"me", "app"} /\ calls[c].cookie \notin live]_sessionVars
  <2> SUFFICES ASSUME SessionInv, SessionNext, gate'.status = "anonymous", gate.status # "anonymous"
               PROVE  \E c \in Calls : /\ calls[c] # NoCall /\ calls'[c] = NoCall
                                       /\ \/ calls[c].is = "logout"
                                          \/ calls[c].is \in {"me", "app"} /\ calls[c].cookie \notin live
      OBVIOUS
  <2>0. calls \in [Calls -> CallRec] /\ gate \in GateRec /\ \A c \in Calls : CallOK(calls[c], Len(sessions), live)
      BY DEF SessionInv
  <2>1. PICK c \in Calls : fetchMe(c) \/ onUnauthorized(c) \/ SignedIn(c) \/ SignedOut(c) \/ gate' = gate
                           \/ \E who \in People : signIn(c, who)
      BY DEF SessionNext, DatabaseAway, Expire, OtherTab, refresh, signOut, api, ServeMe, ServeAdmin,
             ServeLogin, ServeLogout, Lose
  <2>2. CASE fetchMe(c)
    <3>1. calls[c].is = "me" /\ calls' = [calls EXCEPT ![c] = NoCall]
        BY <2>2 DEF fetchMe, Take
    <3>2. Gate("authenticated", calls[c].who).status = "authenticated" /\ Gate("error", Nobody).status = "error"
        BY <2>0 DEF Gate, GateRec
    <3>3. calls[c].answer = "401"
        BY <2>2, <3>2 DEF fetchMe
    <3> QED BY <2>0, <3>1, <3>3 DEF CallOK, NoCall
  <2>3. CASE onUnauthorized(c)
    <3>1. calls[c].is = "app" /\ calls[c].answer = "401" /\ calls' = [calls EXCEPT ![c] = NoCall]
        BY <2>3 DEF onUnauthorized, Take
    <3> QED BY <2>0, <3>1 DEF CallOK, NoCall
  <2>4. CASE SignedIn(c)
    <3>1. [gate EXCEPT !.busy = FALSE].status = gate.status
        BY <2>0 DEF GateRec
    <3>2. [status |-> "authenticated", user |-> calls[c].who, busy |-> FALSE].status = "authenticated"
        OBVIOUS
    <3>3. gate' = [status |-> "authenticated", user |-> calls[c].who, busy |-> FALSE]
          \/ gate' = [gate EXCEPT !.busy = FALSE]
        BY <2>4 DEF SignedIn
    <3>4. gate'.status = "authenticated" \/ gate'.status = gate.status
        BY <3>1, <3>2, <3>3
    <3> QED BY <3>4
  <2>5. CASE SignedOut(c)
      BY <2>0, <2>5 DEF SignedOut, Take, NoCall
  <2>6. CASE \E who \in People : signIn(c, who)
      BY <2>0, <2>6 DEF signIn, GateRec
  <2> QED BY <2>1, <2>2, <2>3, <2>4, <2>5, <2>6
<1> QED BY <1>1, SessionInitInv, SessionStep, PTL DEF SessionSpec, OutageKeepsUser
-----------------------------------------------------------------------------
(* The nicknames of the apps.                                               *)

ShelfMap == [ShelfApps -> Nicknames \cup {Unnamed}]
LoadRec == [key : Nat, read : {"none", "ok", "failed"}, map : ShelfMap]
PutRec == [app : ShelfApps, by : {"save", "reset"}, open : BOOLEAN, map : ShelfMap,
           served : BOOLEAN, sound : BOOLEAN]
ShelfRec == [key : Nat, overrides : ShelfMap, listing : BOOLEAN, everLoaded : BOOLEAN, banner : BOOLEAN]

ShelfTypeOK ==
    /\ nicknames \in ShelfMap /\ shelf \in ShelfRec /\ editing \in ShelfApps \cup {NoCard}
    /\ told \in [loaded : BOOLEAN, unheard : BOOLEAN]
    /\ loads \subseteq LoadRec /\ puts \subseteq PutRec
    /\ \A l \in loads : l.key <= shelf.key

\* With nothing in flight and every answer heard, what the page has read or is about to
\* take as the answer of its last refresh is the setting itself.
ReadsAreFresh ==
    puts = {} /\ ~told.unheard =>
        /\ told.loaded => shelf.overrides = nicknames
        /\ \A l \in loads : l.key = shelf.key /\ l.read = "ok" => l.map = nicknames

\* At most one edit is sound, and until it is served it differs from the setting in one app.
SoundPuts ==
    /\ \A p, q \in puts : p.sound /\ q.sound => p = q
    /\ \A p \in puts : p.sound /\ ~p.served => \A a \in ShelfApps \ {p.app} : p.map[a] = nicknames[a]

ShelfInv == ShelfTypeOK /\ ReadsAreFresh /\ SoundPuts

LEMMA ShelfInitInv == ShelfInit => ShelfInv
<1> SUFFICES ASSUME ShelfInit PROVE ShelfInv
    OBVIOUS
<1>1. Defaults \in ShelfMap
    BY DEF Defaults, ShelfMap
<1>2. Asked(0) \in LoadRec /\ Asked(0).key = 0 /\ Asked(0).read = "none"
    BY <1>1 DEF Asked, LoadRec
<1>3. shelf \in ShelfRec /\ shelf.key = 0
    BY <1>1 DEF ShelfInit, ShelfRec
<1>4. told \in [loaded : BOOLEAN, unheard : BOOLEAN] /\ told.loaded = FALSE
    BY DEF ShelfInit
<1>5. ShelfTypeOK
    BY <1>1, <1>2, <1>3, <1>4 DEF ShelfTypeOK, ShelfInit
<1>6. ReadsAreFresh
    BY <1>2, <1>4 DEF ReadsAreFresh, ShelfInit
<1>7. SoundPuts
    BY DEF SoundPuts, ShelfInit
<1> QED BY <1>5, <1>6, <1>7 DEF ShelfInv

\* What a refresh does to the reads.
LEMMA RefreshedFacts ==
    ASSUME ShelfInv, Refreshed
    PROVE  /\ shelf' \in ShelfRec /\ told' \in [loaded : BOOLEAN, unheard : BOOLEAN]
           /\ loads' \subseteq LoadRec /\ \A l \in loads' : l.key <= shelf'.key
           /\ told'.loaded = FALSE
           /\ \A l \in loads' : l.key = shelf'.key => l.read = "none"
<1>0. shelf \in ShelfRec /\ told \in [loaded : BOOLEAN, unheard : BOOLEAN] /\ loads \subseteq LoadRec
      /\ \A l \in loads : l.key <= shelf.key
    BY DEF ShelfInv, ShelfTypeOK
<1> DEFINE s1 == [shelf EXCEPT !.key = @ + 1]
           t1 == [told EXCEPT !.loaded = FALSE]
           new == Asked(shelf.key + 1)
<1>1. shelf.key \in Nat
    BY <1>0 DEF ShelfRec
<1>2. s1 \in ShelfRec /\ s1.key = shelf.key + 1
    BY <1>0, <1>1 DEF ShelfRec
<1>3. t1 \in [loaded : BOOLEAN, unheard : BOOLEAN] /\ t1.loaded = FALSE
    BY <1>0
<1>4. shelf' = [s1 EXCEPT !.listing = TRUE] /\ told' = [t1 EXCEPT !.unheard = FALSE]
      /\ loads' = loads \cup {new}
    BY DEF Refreshed
<1>5. Defaults \in ShelfMap
    BY DEF Defaults, ShelfMap
<1>6. new \in LoadRec /\ new.key = shelf.key + 1 /\ new.read = "none"
    BY <1>1, <1>5 DEF Asked, LoadRec
<1> HIDE DEF s1, t1, new
<1>7. shelf' \in ShelfRec /\ shelf'.key = shelf.key + 1
    BY <1>2, <1>4 DEF ShelfRec
<1>8. told' \in [loaded : BOOLEAN, unheard : BOOLEAN] /\ told'.loaded = FALSE
    BY <1>3, <1>4
<1>9. \A l \in loads' : l.key <= shelf'.key /\ (l.key = shelf'.key => l.read = "none")
  <2> TAKE l \in loads'
  <2>1. CASE l \in loads
    <3>1. l.key \in Nat /\ l.key <= shelf.key
        BY <1>0, <2>1 DEF LoadRec
    <3> QED BY <1>1, <1>7, <3>1
  <2>2. CASE l = new
      BY <1>1, <1>6, <1>7, <2>2
  <2> QED BY <1>4, <2>1, <2>2
<1> QED BY <1>0, <1>4, <1>6, <1>7, <1>8, <1>9

\* An editor that closes leaves the edits in flight as they are but for their buttons.
LEMMA LeavingKeeps ==
    ASSUME ShelfInv, NEW rest \in SUBSET puts, Leaving(rest), nicknames' = nicknames
    PROVE  /\ puts' \subseteq PutRec /\ SoundPuts' /\ editing' \in ShelfApps \cup {NoCard}
           /\ (puts' = {} => rest = {})
           /\ \A r \in puts' : \E q \in rest : r.sound = q.sound /\ r.served = q.served
<1>0. puts \subseteq PutRec /\ SoundPuts
    BY DEF ShelfInv, ShelfTypeOK
<1>1. \A q \in rest : /\ [q EXCEPT !.open = FALSE] \in PutRec
                      /\ [q EXCEPT !.open = FALSE].sound = q.sound
                      /\ [q EXCEPT !.open = FALSE].served = q.served
                      /\ [q EXCEPT !.open = FALSE].map = q.map
                      /\ [q EXCEPT !.open = FALSE].app = q.app
    BY <1>0 DEF PutRec
<1>2. puts' = {[p EXCEPT !.open = FALSE] : p \in rest} /\ editing' = NoCard
    BY DEF Leaving
<1>3. \A r \in puts' : \E q \in rest : r = [q EXCEPT !.open = FALSE]
    BY <1>2
<1>4. ASSUME NEW r \in puts', NEW s \in puts', r.sound, s.sound PROVE r = s
  <2>1. PICK q \in rest : r = [q EXCEPT !.open = FALSE]
      BY <1>3
  <2>2. PICK u \in rest : s = [u EXCEPT !.open = FALSE]
      BY <1>3
  <2>3. q.sound /\ u.sound
      BY <1>1, <1>4, <2>1, <2>2
  <2>4. q = u
      BY <1>0, <2>3 DEF SoundPuts
  <2> QED BY <2>1, <2>2, <2>4
<1>5. ASSUME NEW r \in puts', r.sound, ~r.served, NEW a \in ShelfApps \ {r.app}
      PROVE  r.map[a] = nicknames'[a]
  <2>1. PICK q \in rest : r = [q EXCEPT !.open = FALSE]
      BY <1>3
  <2>2. q.sound /\ ~q.served /\ a \in ShelfApps \ {q.app} /\ r.map = q.map
      BY <1>1, <1>5, <2>1
  <2> QED BY <1>0, <2>2 DEF SoundPuts
<1>6. SoundPuts'
    BY <1>4, <1>5 DEF SoundPuts
<1>7. puts' \subseteq PutRec /\ editing' \in ShelfApps \cup {NoCard}
    BY <1>1, <1>2, <1>3
<1>8. ASSUME puts' = {} PROVE rest = {}
  <2>1. \A q \in rest : [q EXCEPT !.open = FALSE] \in puts'
      BY <1>2
  <2> QED BY <1>8, <2>1
<1>9. ASSUME NEW r \in puts' PROVE \E q \in rest : r.sound = q.sound /\ r.served = q.served
  <2>1. PICK q \in rest : r = [q EXCEPT !.open = FALSE]
      BY <1>3
  <2> QED BY <1>1, <2>1
<1> QED BY <1>6, <1>7, <1>8, <1>9

\* What serving an edit makes of those in flight.
LEMMA ServedKeeps ==
    ASSUME ShelfInv, NEW p \in puts, ServePut(p)
    PROVE  /\ puts' \subseteq PutRec /\ SoundPuts' /\ puts' # {} /\ nicknames' \in ShelfMap
           /\ \A r \in puts' : r.sound => r = [p EXCEPT !.served = TRUE]
<1>0. puts \subseteq PutRec /\ SoundPuts
    BY DEF ShelfInv, ShelfTypeOK
<1> DEFINE done == [p EXCEPT !.served = TRUE]
<1>1. \A q \in puts : [q EXCEPT !.sound = FALSE] \in PutRec /\ [q EXCEPT !.sound = FALSE].sound = FALSE
    BY <1>0 DEF PutRec
<1>2. done \in PutRec /\ done.served = TRUE /\ p.map \in ShelfMap
    BY <1>0 DEF PutRec
<1>3. puts' = {[q EXCEPT !.sound = FALSE] : q \in puts \ {p}} \cup {done} /\ nicknames' = p.map
    BY DEF ServePut
<1> HIDE DEF done
<1>4. \A r \in puts' : r \in PutRec /\ (r.sound => r = done)
    BY <1>1, <1>2, <1>3
<1>5. SoundPuts'
    BY <1>2, <1>4 DEF SoundPuts
<1> QED BY <1>2, <1>3, <1>4, <1>5 DEF done

LEMMA ShelfStep == ShelfInv /\ [ShelfNext]_shelfVars => ShelfInv'
<1> SUFFICES ASSUME ShelfInv, [ShelfNext]_shelfVars PROVE ShelfInv'
    OBVIOUS
<1>0. /\ nicknames \in ShelfMap /\ shelf \in ShelfRec /\ editing \in ShelfApps \cup {NoCard}
      /\ told \in [loaded : BOOLEAN, unheard : BOOLEAN]
      /\ loads \subseteq LoadRec /\ puts \subseteq PutRec
      /\ \A l \in loads : l.key <= shelf.key
      /\ ReadsAreFresh /\ SoundPuts
    BY DEF ShelfInv, ShelfTypeOK
<1>1. CASE UNCHANGED shelfVars
    BY <1>1 DEF ShelfInv, ShelfTypeOK, ReadsAreFresh, SoundPuts, shelfVars
<1>2. ASSUME Refreshed, UNCHANGED <<nicknames, editing, puts>> PROVE ShelfInv'
  <2>1. ShelfTypeOK'
      BY <1>0, <1>2, RefreshedFacts DEF ShelfTypeOK
  <2>2. ReadsAreFresh'
      BY <1>2, RefreshedFacts DEF ReadsAreFresh
  <2>3. SoundPuts'
      BY <1>0, <1>2 DEF SoundPuts
  <2> QED BY <2>1, <2>2, <2>3 DEF ShelfInv
<1>3. ASSUME AppsArrive \/ AppsFail PROVE ShelfInv'
  <2> DEFINE s1 == [shelf EXCEPT !.listing = FALSE]
             s2 == [s1 EXCEPT !.everLoaded = TRUE]
  <2>1. s1 \in ShelfRec /\ s1.key = shelf.key /\ s1.overrides = shelf.overrides
      BY <1>0 DEF ShelfRec
  <2>2. s2 = [s1 EXCEPT !.everLoaded = TRUE]
      OBVIOUS
  <2>3. shelf' = [s2 EXCEPT !.banner = FALSE] \/ shelf' = [s1 EXCEPT !.banner = TRUE]
      BY <1>3 DEF AppsArrive, AppsFail
  <2> HIDE DEF s1, s2
  <2>4. s2 \in ShelfRec /\ s2.key = shelf.key /\ s2.overrides = shelf.overrides
      BY <2>1, <2>2 DEF ShelfRec
  <2>5. shelf' \in ShelfRec /\ shelf'.key = shelf.key /\ shelf'.overrides = shelf.overrides
      BY <2>1, <2>3, <2>4 DEF ShelfRec
  <2>6. UNCHANGED <<nicknames, loads, editing, puts, told>>
      BY <1>3 DEF AppsArrive, AppsFail
  <2> QED BY <1>0, <2>5, <2>6 DEF ShelfInv, ShelfTypeOK, ReadsAreFresh, SoundPuts
<1>4. ASSUME NEW l \in loads, NEW m, m \in LoadRec, m.key = l.key, m.read = "ok" => m.map = nicknames,
             loads' = (loads \ {l}) \cup {m}, UNCHANGED <<nicknames, shelf, editing, puts, told>>
      PROVE  ShelfInv'
  <2>1. ShelfTypeOK'
      BY <1>0, <1>4 DEF ShelfTypeOK
  <2>2. ReadsAreFresh'
      BY <1>0, <1>4 DEF ReadsAreFresh
  <2> QED BY <1>0, <1>4, <2>1, <2>2 DEF ShelfInv, SoundPuts
<1>5. ASSUME NEW l \in loads, ServeSetting(l) PROVE ShelfInv'
  <2> DEFINE m1 == [l EXCEPT !.read = "ok"]
             m == [m1 EXCEPT !.map = nicknames]
  <2>1. m1 \in LoadRec /\ m1.key = l.key
      BY <1>0 DEF LoadRec
  <2>2. loads' = (loads \ {l}) \cup {m} /\ UNCHANGED <<nicknames, shelf, editing, puts, told>>
      BY <1>5 DEF ServeSetting
  <2>3. m = [m1 EXCEPT !.map = nicknames]
      OBVIOUS
  <2> HIDE DEF m1, m
  <2>4. m \in LoadRec /\ m.key = l.key /\ m.map = nicknames
      BY <1>0, <2>1, <2>3 DEF LoadRec
  <2> QED BY <1>4, <2>2, <2>4
<1>6. ASSUME NEW l \in loads, SettingFails(l) PROVE ShelfInv'
  <2> DEFINE m1 == [l EXCEPT !.read = "failed"]
             m == [m1 EXCEPT !.map = Defaults]
  <2>1. m1 \in LoadRec /\ m1.key = l.key /\ m1.read = "failed" /\ Defaults \in ShelfMap
      BY <1>0 DEF LoadRec, Defaults, ShelfMap
  <2>2. loads' = (loads \ {l}) \cup {m} /\ UNCHANGED <<nicknames, shelf, editing, puts, told>>
      BY <1>6 DEF SettingFails
  <2>3. m = [m1 EXCEPT !.map = Defaults]
      OBVIOUS
  <2> HIDE DEF m1, m
  <2>4. m \in LoadRec /\ m.key = l.key /\ m.read = "failed"
      BY <2>1, <2>3 DEF LoadRec
  <2> QED BY <1>4, <2>2, <2>4
<1>7. ASSUME NEW l \in loads, SettingArrives(l) PROVE ShelfInv'
  <2>1. loads' = loads \ {l} /\ UNCHANGED <<nicknames, editing, puts>> /\ l.read \in {"ok", "failed"}
      BY <1>0, <1>7 DEF SettingArrives, LoadRec
  <2>2. CASE Cancelled(l)
    <3>1. UNCHANGED <<shelf, told>>
        BY <1>7, <2>2 DEF SettingArrives
    <3> QED BY <1>0, <2>1, <3>1 DEF ShelfInv, ShelfTypeOK, ReadsAreFresh, SoundPuts
  <2>3. CASE ~Cancelled(l)
    <3>1. shelf' = [shelf EXCEPT !.overrides = l.map] /\ told' = [told EXCEPT !.loaded = (l.read = "ok")]
        BY <1>7, <2>3 DEF SettingArrives
    <3>2. l.map \in ShelfMap /\ l.key = shelf.key
        BY <1>0, <2>3 DEF LoadRec, Cancelled
    <3>3. shelf' \in ShelfRec /\ shelf'.key = shelf.key /\ shelf'.overrides = l.map
        BY <1>0, <3>1, <3>2 DEF ShelfRec
    <3>4. (l.read = "ok") \in BOOLEAN
        OBVIOUS
    <3>5. told' \in [loaded : BOOLEAN, unheard : BOOLEAN] /\ told'.unheard = told.unheard
          /\ told'.loaded = (l.read = "ok")
        BY <1>0, <3>1, <3>4
    <3>6. ShelfTypeOK'
        BY <1>0, <2>1, <3>3, <3>5 DEF ShelfTypeOK
    <3>7. ReadsAreFresh'
        BY <1>0, <2>1, <3>2, <3>3, <3>5 DEF ReadsAreFresh
    <3> QED BY <1>0, <2>1, <3>6, <3>7 DEF ShelfInv, SoundPuts
  <2> QED BY <2>2, <2>3
<1>8. ASSUME NEW a \in ShelfApps, Customize(a) PROVE ShelfInv'
    BY <1>0, <1>8 DEF Customize, ShelfInv, ShelfTypeOK, ReadsAreFresh, SoundPuts
<1>9. ASSUME CloseCustomizing PROVE ShelfInv'
  <2>1. Leaving(puts) /\ UNCHANGED <<nicknames, shelf, loads, told>>
      BY <1>9 DEF CloseCustomizing
  <2>2. puts' \subseteq PutRec /\ SoundPuts' /\ editing' \in ShelfApps \cup {NoCard} /\ (puts' = {} => puts = {})
      BY <2>1, LeavingKeeps
  <2>3. ReadsAreFresh'
      BY <1>0, <2>1, <2>2 DEF ReadsAreFresh
  <2> QED BY <1>0, <2>1, <2>2, <2>3 DEF ShelfInv, ShelfTypeOK
<1>10. ASSUME NEW b \in {"save", "reset"}, NEW nick \in Nicknames \cup {Unnamed}, putSetting(b, nick)
       PROVE  ShelfInv'
  <2> DEFINE map == [shelf.overrides EXCEPT ![editing] = nick]
             p == [app |-> editing, by |-> b, open |-> TRUE, map |-> map, served |-> FALSE,
                   sound |-> told.loaded /\ ~told.unheard /\ puts = {}]
  <2>1. editing \in ShelfApps /\ puts' = puts \cup {p} /\ UNCHANGED <<nicknames, shelf, loads, editing, told>>
      BY <1>0, <1>10 DEF putSetting
  <2>2. shelf.overrides \in ShelfMap
      BY <1>0 DEF ShelfRec
  <2>3. map \in ShelfMap /\ \A a \in ShelfApps \ {editing} : map[a] = shelf.overrides[a]
      BY <2>1, <2>2 DEF ShelfMap
  <2> HIDE DEF map
  <2>4. (told.loaded /\ ~told.unheard /\ puts = {}) \in BOOLEAN
      OBVIOUS
  <2>5. p \in PutRec /\ p.app = editing /\ p.map = map /\ (p.sound => told.loaded /\ ~told.unheard /\ puts = {})
      BY <2>1, <2>3, <2>4 DEF PutRec
  <2> HIDE DEF p
  <2>6. ASSUME p.sound PROVE puts = {} /\ \A a \in ShelfApps \ {p.app} : p.map[a] = nicknames[a]
    <3>1. told.loaded /\ ~told.unheard /\ puts = {}
        BY <2>5, <2>6
    <3>2. shelf.overrides = nicknames
        BY <1>0, <3>1 DEF ReadsAreFresh
    <3> QED BY <2>3, <2>5, <3>1, <3>2
  <2>7. SoundPuts'
      BY <1>0, <2>1, <2>6 DEF SoundPuts
  <2>8. ReadsAreFresh'
      BY <2>1 DEF ReadsAreFresh
  <2>9. ShelfTypeOK'
      BY <1>0, <2>1, <2>5 DEF ShelfTypeOK
  <2> QED BY <2>7, <2>8, <2>9 DEF ShelfInv
<1>11. ASSUME NEW p \in puts, ServePut(p) PROVE ShelfInv'
  <2>1. UNCHANGED <<shelf, loads, editing, told>>
      BY <1>11 DEF ServePut
  <2>2. puts' \subseteq PutRec /\ SoundPuts' /\ puts' # {} /\ nicknames' \in ShelfMap
      BY <1>11, ServedKeeps
  <2> QED BY <1>0, <2>1, <2>2 DEF ShelfInv, ShelfTypeOK, ReadsAreFresh
<1>12. ASSUME NEW p \in puts, Saved(p) PROVE ShelfInv'
  <2>1. Leaving(puts \ {p}) /\ Refreshed /\ nicknames' = nicknames
      BY <1>12 DEF Saved
  <2>2. puts' \subseteq PutRec /\ SoundPuts' /\ editing' \in ShelfApps \cup {NoCard}
      BY <2>1, LeavingKeeps
  <2>3. ReadsAreFresh'
      BY <2>1, RefreshedFacts DEF ReadsAreFresh
  <2>4. ShelfTypeOK'
      BY <1>0, <2>1, <2>2, RefreshedFacts DEF ShelfTypeOK
  <2> QED BY <2>2, <2>3, <2>4 DEF ShelfInv
<1>13. ASSUME NEW p \in puts, PutFails(p) PROVE ShelfInv'
  <2>1. puts' = puts \ {p} /\ told' = [told EXCEPT !.unheard = TRUE]
        /\ UNCHANGED <<nicknames, shelf, loads, editing>>
      BY <1>13 DEF PutFails
  <2>2. told' \in [loaded : BOOLEAN, unheard : BOOLEAN] /\ told'.unheard = TRUE
      BY <1>0, <2>1
  <2> QED BY <1>0, <2>1, <2>2 DEF ShelfInv, ShelfTypeOK, ReadsAreFresh, SoundPuts
<1>14. ASSUME Retry \/ Toggle PROVE ShelfInv'
    BY <1>2, <1>14 DEF Retry, Toggle
<1>15. ASSUME reset \/ \E nick \in Nicknames \cup {Unnamed} : save(nick) PROVE ShelfInv'
    BY <1>10, <1>15 DEF reset, save
<1> QED BY <1>1, <1>3, <1>5, <1>6, <1>7, <1>8, <1>9, <1>11, <1>12, <1>13, <1>14, <1>15 DEF ShelfNext

\* An edit made when every earlier one was answered and the refresh after it had loaded
\* changes the nickname of its own app only, whatever older answers are still on their way
\* (the cancelled flag of App.tsx, the whole map that AppCenter.tsx writes).
THEOREM NicknamesOfOthersStay == ShelfSpec => EditsKeepOthers
<1>1. ShelfInv /\ [ShelfNext]_shelfVars =>
         [\A p \in puts :
            p.sound /\ ~p.served /\ [p EXCEPT !.served = TRUE] \in puts' =>
               \A a \in ShelfApps \ {p.app} : nicknames'[a] = nicknames[a]]_shelfVars
  <2> SUFFICES ASSUME ShelfInv, ShelfNext, NEW p \in puts, p.sound, ~p.served,
                      [p EXCEPT !.served = TRUE] \in puts', NEW a \in ShelfApps \ {p.app}
               PROVE  nicknames'[a] = nicknames[a]
      OBVIOUS
  <2>0. puts \subseteq PutRec /\ SoundPuts
      BY DEF ShelfInv, ShelfTypeOK
  <2>1. nicknames' = nicknames \/ \E q \in puts : ServePut(q)
      BY DEF ShelfNext, Retry, Toggle, AppsArrive, AppsFail, CloseCustomizing, reset, save, putSetting,
             ServeSetting, SettingFails, SettingArrives, Customize, Saved, PutFails
  <2>2. ASSUME NEW q \in puts, ServePut(q) PROVE nicknames'[a] = nicknames[a]
    <3>1. [p EXCEPT !.served = TRUE].sound = p.sound
        BY <2>0 DEF PutRec
    <3>2. [p EXCEPT !.served = TRUE] = [q EXCEPT !.served = TRUE]
        BY <2>2, <3>1, ServedKeeps
    <3>3. [q EXCEPT !.served = TRUE].sound = q.sound
        BY <2>0 DEF PutRec
    <3>4. p = q
        BY <2>0, <3>1, <3>2, <3>3 DEF SoundPuts
    <3> QED BY <2>0, <2>2, <3>4 DEF ServePut, SoundPuts
  <2> QED BY <2>1, <2>2
<1> QED BY <1>1, ShelfInitInv, ShelfStep, PTL DEF ShelfSpec, EditsKeepOthers

-----------------------------------------------------------------------------
(***************************************************************************)
(* The filtered lists: what a page shows is what its filters ask for.      *)
(* queued, drawn and ran are three ages of one state; the invariant says   *)
(* of each what it may hold, and where a word of the search box is while   *)
(* the box and the URL disagree.                                           *)
(***************************************************************************)
ListQueries == [q : Texts, labels : SUBSET Labels, facet : Facets, order : Orders]
ListAnswersOf == [shown : BOOLEAN, query : ListQueries, empty : BOOLEAN, none : BOOLEAN, at : Nat]
PageStates ==
    [url : Urls, box : Texts, debounced : Texts, list : ListAnswersOf, error : BOOLEAN]

ListType ==
    /\ listPage \in {"notes", "tasks", "items"}
    /\ queued \in PageStates /\ drawn \in PageStates
    /\ ran \in [url : Urls, box : Texts, debounced : Texts]
    /\ debounce \in BOOLEAN /\ reloading \in BOOLEAN /\ unsent \in BOOLEAN
    /\ listRequest \in [pc : {"none", "asked", "served"}, query : ListQueries, keep : BOOLEAN,
                        got : ListAnswersOf]
    /\ writes \in Nat /\ announced \in Nat
    /\ dropping \in [pc : {"none", "asked", "served"}, labels : SUBSET Labels, url : Urls]

\* An empty answer to no filter at all, in any order, was the answer of a user who has nothing.
SelectsAll(query) == query.q = NoWord /\ query.labels = {} /\ query.facet = "none"
Honest(list) == list.empty /\ SelectsAll(list.query) => list.none

\* What is drawn is of the URL that is drawn; what arrives is of the URL the effects saw, and
\* they see each URL that is drawn before another one is.
ListMatches ==
    /\ drawn.list.shown => drawn.list.query = Query(listPage, drawn.url)
    /\ queued.list.shown => queued.list.query = Query(listPage, ran.url)
    /\ listRequest.pc # "none" => listRequest.query = Query(listPage, ran.url)
    /\ listRequest.pc = "served" => listRequest.got.query = listRequest.query
    /\ Honest(drawn.list) /\ Honest(queued.list)
    /\ Honest(listRequest.got)

\* The last announced change is in the list, in the answer that is coming, or a run is due.
Newest(list) == list.shown /\ announced <= list.at
ListIsDue ==
    /\ announced <= writes
    /\ \/ reloading \/ ran.url # drawn.url \/ listRequest.pc = "asked"
       \/ listRequest.pc = "served" /\ Newest(listRequest.got)
       \/ listRequest.pc = "none" /\ (queued.error \/ Newest(queued.list))

\* While the box and the URL disagree, a word is on its way from one to the other.
BoxMoving ==
    \/ queued.box # drawn.box \/ drawn.box # ran.box \/ debounce
    \/ queued.debounced # drawn.debounced \/ drawn.debounced # ran.debounced
UrlMoving == queued.url.q # drawn.url.q \/ drawn.url.q # ran.url.q
WordIsKnown ==
    /\ ~debounce => queued.debounced = ran.box
    /\ unsent \/ UrlMoving \/ BoxMoving \/ queued.box = queued.url.q

ListInv == ListType /\ ListMatches /\ ListIsDue /\ WordIsKnown

LEMMA PlainType == Plain \in Urls /\ NoWord \in Texts
BY DEF Plain, Urls, Texts, Facets, Orders

LEMMA QueryType ==
  ASSUME NEW page \in {"notes", "tasks", "items"}, NEW u \in Urls
  PROVE  Query(page, u) \in ListQueries
<1>1. NotesQuery(u) \in ListQueries
  BY DEF NotesQuery, ListQueries, Urls, Facets, Orders
<1>2. tasksQueryString(u) \in ListQueries
  BY DEF tasksQueryString, ListQueries, Urls, Facets, Orders
<1>3. itemsQueryString(u) \in ListQueries
  BY DEF itemsQueryString, ListQueries, Urls, Facets, Orders
<1> QED BY <1>1, <1>2, <1>3 DEF Query

LEMMA SelectsAreUrls == ASSUME NEW u \in Urls PROVE Selects(u) \subseteq Urls
<1>1. Reordered(u) \in Urls
  BY DEF Reordered, Urls, Orders
<1>2. \A f \in {"none", "some"} : [u EXCEPT !.facet = f] \in Urls
  BY DEF Urls, Facets
<1> QED BY <1>1, <1>2 DEF Selects

LEMMA NoteControlsAreUrls == ASSUME NEW u \in Urls PROVE NoteControls(u) \subseteq Urls
<1>1. ASSUME NEW l \in Labels PROVE toggleTag(u, l) \in Urls
  <2>1. u.labels \in SUBSET Labels
    BY DEF Urls
  <2>2. CASE l \in u.labels
    BY <2>1, <2>2 DEF toggleTag, Urls
  <2>3. CASE l \notin u.labels
    BY <2>1, <2>3 DEF toggleTag, Urls
  <2> QED BY <2>2, <2>3
<1> QED BY <1>1, SelectsAreUrls DEF NoteControls

LEMMA ControlsAreUrls ==
  ASSUME NEW page \in {"notes", "tasks", "items"}, NEW u \in Urls
  PROVE  Controls(page, u) \subseteq Urls
<1>1. [u EXCEPT !.labels = {}] \in Urls
  BY DEF Urls
<1>2. ItemControls(u) \subseteq Urls
  BY <1>1, NoteControlsAreUrls DEF ItemControls
<1> QED BY <1>2, NoteControlsAreUrls, SelectsAreUrls DEF Controls, TaskControls

\* Without filters everything matches, and a page without filters asks for everything.
LEMMA AllMatch ==
  ASSUME NEW rows, NEW query, SelectsAll(query)
  PROVE  Matching(rows, query) = rows
BY DEF Matching, SelectsAll

LEMMA NoFiltersSelectAll ==
  ASSUME NEW page \in {"notes", "tasks", "items"}, NEW u \in Urls, ~HasFilters(page, u)
  PROVE  SelectsAll(Query(page, u))
<1>1. CASE page = "notes"
  BY <1>1 DEF HasFilters, NoteFilters, Query, NotesQuery, SelectsAll
<1>2. CASE page # "notes"
  <2>1. Query(page, u) = Query(page, Plain)
    BY <1>2 DEF HasFilters
  <2>2. Query(page, Plain) = [q |-> NoWord, labels |-> {}, facet |-> "none", order |-> "unset"]
    BY <1>2 DEF Query, tasksQueryString, itemsQueryString, Plain
  <2> QED BY <2>1, <2>2 DEF SelectsAll
<1> QED BY <1>1, <1>2

LEMMA NoListType ==
  /\ NoList \in ListAnswersOf /\ ~NoList.shown /\ Honest(NoList)
  /\ NoListRequest \in [pc : {"none", "asked", "served"}, query : ListQueries, keep : BOOLEAN,
                        got : ListAnswersOf]
  /\ NoListRequest.pc = "none" /\ NoListRequest.got = NoList
<1>1. NotesQuery(Plain) \in ListQueries
  BY PlainType DEF NotesQuery, ListQueries, Urls, Facets, Orders
<1>2. NoList \in ListAnswersOf /\ ~NoList.shown /\ ~NoList.empty
  BY <1>1 DEF NoList, ListAnswersOf
<1>3. NoListRequest \in [pc : {"none", "asked", "served"}, query : ListQueries, keep : BOOLEAN,
                        got : ListAnswersOf]
  BY <1>1, <1>2 DEF NoListRequest
<1> QED BY <1>2, <1>3 DEF NoListRequest, Honest

LEMMA AskingType ==
  ASSUME NEW page \in {"notes", "tasks", "items"}, NEW u \in Urls, NEW keep \in BOOLEAN
  PROVE  /\ Asking(page, u, keep) \in [pc : {"none", "asked", "served"}, query : ListQueries,
                                       keep : BOOLEAN, got : ListAnswersOf]
         /\ Asking(page, u, keep).pc = "asked" /\ Asking(page, u, keep).query = Query(page, u)
         /\ Asking(page, u, keep).got = NoList
<1>1. Query(page, u) \in ListQueries
  BY QueryType
<1>2. NoList \in ListAnswersOf
  BY NoListType
<1> QED BY <1>1, <1>2 DEF Asking

LEMMA PageMoves ==
  ASSUME NEW s \in PageStates, NEW u \in Urls, NEW w \in Texts
  PROVE  /\ [s EXCEPT !.url = u] \in PageStates /\ [s EXCEPT !.url = u].url = u
         /\ [s EXCEPT !.url = u].box = s.box /\ [s EXCEPT !.url = u].debounced = s.debounced
         /\ [s EXCEPT !.url = u].list = s.list /\ [s EXCEPT !.url = u].error = s.error
         /\ [s EXCEPT !.box = w] \in PageStates /\ [s EXCEPT !.box = w].url = s.url
         /\ [s EXCEPT !.box = w].box = w /\ [s EXCEPT !.box = w].debounced = s.debounced
         /\ [s EXCEPT !.box = w].list = s.list /\ [s EXCEPT !.box = w].error = s.error
         /\ [s EXCEPT !.debounced = w] \in PageStates /\ [s EXCEPT !.debounced = w].url = s.url
         /\ [s EXCEPT !.debounced = w].box = s.box /\ [s EXCEPT !.debounced = w].debounced = w
         /\ [s EXCEPT !.debounced = w].list = s.list /\ [s EXCEPT !.debounced = w].error = s.error
<1>1. /\ [s EXCEPT !.url = u] \in PageStates /\ [s EXCEPT !.url = u].url = u
      /\ [s EXCEPT !.url = u].box = s.box /\ [s EXCEPT !.url = u].debounced = s.debounced
      /\ [s EXCEPT !.url = u].list = s.list /\ [s EXCEPT !.url = u].error = s.error
  BY DEF PageStates
<1>2. /\ [s EXCEPT !.box = w] \in PageStates /\ [s EXCEPT !.box = w].url = s.url
      /\ [s EXCEPT !.box = w].box = w /\ [s EXCEPT !.box = w].debounced = s.debounced
      /\ [s EXCEPT !.box = w].list = s.list /\ [s EXCEPT !.box = w].error = s.error
  BY DEF PageStates
<1>3. /\ [s EXCEPT !.debounced = w] \in PageStates /\ [s EXCEPT !.debounced = w].url = s.url
      /\ [s EXCEPT !.debounced = w].box = s.box /\ [s EXCEPT !.debounced = w].debounced = w
      /\ [s EXCEPT !.debounced = w].list = s.list /\ [s EXCEPT !.debounced = w].error = s.error
  BY DEF PageStates
<1> QED BY <1>1, <1>2, <1>3

\* A list that comes, or goes.
LEMMA PageLists ==
  ASSUME NEW s \in PageStates, NEW l \in ListAnswersOf, NEW e \in BOOLEAN
  PROVE  /\ [s EXCEPT !.list = l, !.error = e] \in PageStates
         /\ [s EXCEPT !.list = l, !.error = e].url = s.url
         /\ [s EXCEPT !.list = l, !.error = e].box = s.box
         /\ [s EXCEPT !.list = l, !.error = e].debounced = s.debounced
         /\ [s EXCEPT !.list = l, !.error = e].list = l
         /\ [s EXCEPT !.list = l, !.error = e].error = e
<1> DEFINE m == [s EXCEPT !.list = l]
<1>1. m \in PageStates /\ m.url = s.url /\ m.box = s.box /\ m.debounced = s.debounced /\ m.list = l
  BY DEF PageStates
<1>2. [s EXCEPT !.list = l, !.error = e] = [m EXCEPT !.error = e]
  OBVIOUS
<1> HIDE DEF m
<1>3. /\ [m EXCEPT !.error = e] \in PageStates /\ [m EXCEPT !.error = e].url = m.url
      /\ [m EXCEPT !.error = e].box = m.box /\ [m EXCEPT !.error = e].debounced = m.debounced
      /\ [m EXCEPT !.error = e].list = m.list /\ [m EXCEPT !.error = e].error = e
  BY <1>1 DEF PageStates
<1> QED BY <1>1, <1>2, <1>3

LEMMA ListTyped ==
  ASSUME ListInv
  PROVE  /\ queued.url \in Urls /\ queued.box \in Texts /\ queued.debounced \in Texts
         /\ queued.list \in ListAnswersOf /\ queued.error \in BOOLEAN
         /\ drawn.url \in Urls /\ drawn.box \in Texts /\ drawn.debounced \in Texts
         /\ drawn.list \in ListAnswersOf /\ drawn.error \in BOOLEAN
         /\ ran.url \in Urls /\ ran.box \in Texts /\ ran.debounced \in Texts
         /\ listRequest.got \in ListAnswersOf /\ listRequest.query \in ListQueries
         /\ dropping.labels \in SUBSET Labels /\ dropping.url \in Urls
BY DEF ListInv, ListType, PageStates

\* Acts that change the URL or the box alone, and those that ask for a reload.
LEMMA BoxAndUrlKeep ==
  ASSUME ListInv, UNCHANGED <<listPage, drawn, ran, debounce, listRequest, writes>>,
         queued' \in PageStates, queued'.list = queued.list, queued'.error = queued.error,
         queued'.debounced = queued.debounced, unsent' \in BOOLEAN,
         dropping' \in [pc : {"none", "asked", "served"}, labels : SUBSET Labels, url : Urls],
         UNCHANGED <<reloading, announced>> \/ (reloading' = TRUE /\ announced' = writes),
         unsent' \/ UrlMoving' \/ BoxMoving' \/ queued'.box = queued'.url.q
  PROVE  ListInv'
<1>1. ListType'
  BY DEF ListInv, ListType
<1>2. ListMatches'
  BY DEF ListInv, ListMatches
<1>3. ListIsDue'
  <2>1. CASE UNCHANGED <<reloading, announced>>
    BY <2>1 DEF ListInv, ListIsDue, Newest
  <2>2. CASE reloading' = TRUE /\ announced' = writes
    BY <2>2 DEF ListInv, ListType, ListIsDue
  <2> QED BY <2>1, <2>2
<1>4. WordIsKnown'
  BY DEF ListInv, WordIsKnown
<1> QED BY <1>1, <1>2, <1>3, <1>4 DEF ListInv

\* A word that is overtaken on its way to the page is noted in unsent.
LEMMA NavigatedKeeps ==
  ASSUME ListInv, NEW v \in Urls, Navigated(v), UNCHANGED <<drawn, ran, debounce>>
  PROVE  /\ queued' \in PageStates /\ queued'.list = queued.list /\ queued'.error = queued.error
         /\ queued'.debounced = queued.debounced /\ unsent' \in BOOLEAN
         /\ unsent' \/ UrlMoving' \/ BoxMoving' \/ queued'.box = queued'.url.q
<1>1. queued \in PageStates /\ unsent \in BOOLEAN
  BY DEF ListInv, ListType
<1>2. /\ queued' \in PageStates /\ queued'.url = v /\ queued'.box = queued.box
      /\ queued'.debounced = queued.debounced /\ queued'.list = queued.list
      /\ queued'.error = queued.error
  <2>1. queued' = [queued EXCEPT !.url = v]
    BY DEF Navigated
  <2>2. NoWord \in Texts
    BY PlainType
  <2> QED BY <1>1, <2>1, <2>2, PageMoves
<1>3. unsent' = (unsent \/ (queued.url.q # drawn.url.q /\ v.q = drawn.url.q))
  BY DEF Navigated
<1>4. unsent \/ UrlMoving \/ BoxMoving \/ queued.box = queued.url.q
  BY DEF ListInv, WordIsKnown
<1>5. unsent' \/ UrlMoving' \/ BoxMoving' \/ queued'.box = queued'.url.q
  BY <1>1, <1>2, <1>3, <1>4 DEF UrlMoving, BoxMoving
<1> QED BY <1>1, <1>2, <1>3, <1>5

LEMMA SearchKeeps == ASSUME ListInv, NEW text \in Texts, Search(text) PROVE ListInv'
<1>1. queued \in PageStates /\ Plain \in Urls
  BY PlainType DEF ListInv, ListType
<1>2. /\ queued' \in PageStates /\ queued'.box = text /\ queued'.list = queued.list
      /\ queued'.error = queued.error /\ queued'.debounced = queued.debounced
  BY <1>1, PageMoves DEF Search
<1>3. BoxMoving'
  BY <1>2 DEF Search, BoxMoving
<1> QED BY <1>2, <1>3, BoxAndUrlKeep DEF Search, ListInv, ListType

LEMMA setParamKeeps ==
  ASSUME ListInv, NEW v \in Urls, setParam(v) \/ Navigate(v)
  PROVE  ListInv'
<1>1. /\ Navigated(v) /\ UNCHANGED <<listPage, drawn, ran, debounce, listRequest, writes>>
      /\ UNCHANGED <<reloading, announced, dropping>>
  BY DEF setParam, Navigate
<1>2. dropping' \in [pc : {"none", "asked", "served"}, labels : SUBSET Labels, url : Urls]
  BY <1>1 DEF ListInv, ListType
<1> QED BY <1>1, <1>2, NavigatedKeeps, BoxAndUrlKeep

LEMMA resetFiltersKeeps == ASSUME ListInv, resetFilters PROVE ListInv'
<1> DEFINE m == [queued EXCEPT !.url = Plain]
<1>1. queued \in PageStates
  BY DEF ListInv, ListType
<1>2. /\ m \in PageStates /\ m.url = Plain /\ m.list = queued.list /\ m.error = queued.error
      /\ m.debounced = queued.debounced
  BY <1>1, PlainType, PageMoves
<1>3. queued' = [m EXCEPT !.box = NoWord]
  BY DEF resetFilters
<1> HIDE DEF m
<1>4. /\ queued' \in PageStates /\ queued'.box = NoWord /\ queued'.url = Plain
      /\ queued'.list = queued.list /\ queued'.error = queued.error
      /\ queued'.debounced = queued.debounced
  BY <1>2, <1>3, PlainType, PageMoves
<1>5. queued'.box = queued'.url.q
  BY <1>4 DEF Plain
<1> QED BY <1>4, <1>5, BoxAndUrlKeep DEF resetFilters, ListInv, ListType

\* The timer sends what the effects last saw in the box; a word they saw before is noted.
LEMMA DebounceFiresKeeps == ASSUME ListInv, DebounceFires PROVE ListInv'
<1>1. /\ queued' \in PageStates /\ queued'.debounced = ran.box /\ queued'.url = queued.url
      /\ queued'.box = queued.box /\ queued'.list = queued.list /\ queued'.error = queued.error
  <2>1. queued \in PageStates /\ Plain \in Urls
    BY PlainType DEF ListInv, ListType
  <2>2. ran.box \in Texts
    BY ListTyped
  <2> QED BY <2>1, <2>2, PageMoves DEF DebounceFires
<1>2. ListType'
  BY <1>1 DEF DebounceFires, ListInv, ListType
<1>3. ListMatches'
  BY <1>1 DEF DebounceFires, ListInv, ListMatches
<1>4. ListIsDue'
  BY <1>1 DEF DebounceFires, ListInv, ListIsDue, Newest
<1>5. unsent' = (unsent \/ (ran.box = ran.debounced /\ ran.box # queued.url.q))
  BY DEF DebounceFires
<1>6. unsent' \/ UrlMoving' \/ BoxMoving' \/ queued'.box = queued'.url.q
  <2>1. SUFFICES ASSUME ~BoxMoving', ~unsent' PROVE UrlMoving' \/ queued'.box = queued'.url.q
    OBVIOUS
  <2>2. queued.box = ran.box /\ ran.box = ran.debounced
    BY <1>1, <2>1 DEF BoxMoving, DebounceFires
  <2> QED BY <1>1, <1>5, <2>1, <2>2
<1>7. WordIsKnown'
  BY <1>1, <1>6 DEF DebounceFires, WordIsKnown
<1> QED BY <1>2, <1>3, <1>4, <1>7 DEF ListInv

\* What is drawn is what was set, and a list of another URL is gone.
LEMMA RenderMoves ==
  ASSUME ListInv, NEW withUrl \in BOOLEAN, Render(withUrl),
         NEW moved \in BOOLEAN, moved = (withUrl /\ queued.url # drawn.url)
  PROVE  /\ queued' \in PageStates /\ drawn' \in PageStates
         /\ queued'.url = queued.url /\ queued'.box = queued.box
         /\ queued'.debounced = queued.debounced
         /\ queued'.list = IF moved THEN NoList ELSE queued.list
         /\ queued'.error = IF moved THEN FALSE ELSE queued.error
         /\ drawn'.url = (IF withUrl THEN queued.url ELSE drawn.url)
         /\ drawn'.box = queued.box /\ drawn'.debounced = queued.debounced
         /\ drawn'.list = queued'.list
<1>1. queued \in PageStates /\ drawn.url \in Urls /\ queued.url \in Urls /\ NoWord \in Texts
  BY ListTyped, PlainType DEF ListInv, ListType
<1>2. queued' = Redrawn(queued, moved)
  BY DEF Render
<1>3. /\ queued' \in PageStates
      /\ queued'.url = queued.url /\ queued'.box = queued.box
      /\ queued'.debounced = queued.debounced
      /\ queued'.list = IF moved THEN NoList ELSE queued.list
      /\ queued'.error = IF moved THEN FALSE ELSE queued.error
  <2>1. CASE moved
    <3>0. FALSE \in BOOLEAN
      OBVIOUS
    <3>1. queued' = [queued EXCEPT !.list = NoList, !.error = FALSE]
      BY <1>2, <2>1 DEF Redrawn
    <3>2. NoList \in ListAnswersOf
      BY NoListType
    <3>3. /\ queued' \in PageStates /\ queued'.url = queued.url /\ queued'.box = queued.box
          /\ queued'.debounced = queued.debounced /\ queued'.list = NoList /\ queued'.error = FALSE
      BY <1>1, <3>0, <3>1, <3>2, PageLists
    <3> QED BY <2>1, <3>3
  <2>2. CASE ~moved
    BY <1>1, <1>2, <2>2 DEF Redrawn
  <2> QED BY <2>1, <2>2
<1>4. drawn' = [queued' EXCEPT !.url = IF withUrl THEN @ ELSE drawn.url]
  BY DEF Render
<1>5. CASE withUrl
  <2>1. drawn' = [queued' EXCEPT !.url = queued.url]
    BY <1>3, <1>4, <1>5
  <2> QED BY <1>1, <1>3, <1>5, <2>1, PageMoves
<1>6. CASE ~withUrl
  <2>1. drawn' = [queued' EXCEPT !.url = drawn.url]
    BY <1>4, <1>6
  <2>2. /\ drawn' \in PageStates /\ drawn'.url = drawn.url /\ drawn'.box = queued'.box
        /\ drawn'.debounced = queued'.debounced /\ drawn'.list = queued'.list
    BY <1>1, <1>3, <2>1, PageMoves
  <2> QED BY <1>3, <1>6, <2>2
<1> QED BY <1>3, <1>5, <1>6

LEMMA RenderKeeps == ASSUME ListInv, NEW withUrl \in BOOLEAN, Render(withUrl) PROVE ListInv'
<1> DEFINE moved == withUrl /\ queued.url # drawn.url
<1>0. moved = (withUrl /\ queued.url # drawn.url)
  OBVIOUS
<1>1. /\ queued' \in PageStates /\ drawn' \in PageStates
      /\ queued'.url = queued.url /\ queued'.box = queued.box
      /\ queued'.debounced = queued.debounced
      /\ queued'.list = IF moved THEN NoList ELSE queued.list
      /\ queued'.error = IF moved THEN FALSE ELSE queued.error
      /\ drawn'.url = (IF withUrl THEN queued.url ELSE drawn.url)
      /\ drawn'.box = queued.box /\ drawn'.debounced = queued.debounced
      /\ drawn'.list = queued'.list
  BY RenderMoves
<1>2. /\ ran.url = drawn.url /\ ran.box = drawn.box /\ ran.debounced = drawn.debounced
      /\ UNCHANGED <<listPage, ran, debounce, reloading, listRequest, writes, announced, dropping,
                     unsent>>
  BY DEF Render, Seen
<1> HIDE DEF moved
<1>3. ~moved => drawn'.url = drawn.url
  BY <1>0, <1>1
<1>4. moved => drawn'.url # drawn.url
  BY <1>0, <1>1
<1>5. ListType'
  BY <1>1, <1>2 DEF ListInv, ListType
<1>6. ListMatches'
  <2>1. CASE moved
    BY <1>1, <1>2, <2>1, NoListType DEF ListInv, ListMatches
  <2>2. CASE ~moved
    BY <1>1, <1>2, <1>3, <2>2 DEF ListInv, ListMatches
  <2> QED BY <2>1, <2>2
<1>7. ListIsDue'
  <2>1. CASE moved
    BY <1>2, <1>4, <2>1 DEF ListInv, ListIsDue
  <2>2. CASE ~moved
    BY <1>1, <1>2, <1>3, <2>2 DEF ListInv, ListIsDue, Newest
  <2> QED BY <2>1, <2>2
<1>8. WordIsKnown'
  BY <1>1, <1>2 DEF ListInv, WordIsKnown, UrlMoving, BoxMoving
<1> QED BY <1>5, <1>6, <1>7, <1>8 DEF ListInv

\* The effects bring the debounced word to the URL, or the word of the URL to the box, and
\* begin a run when the URL has changed.
LEMMA EffectsKeep == ASSUME ListInv, Effects PROVE ListInv'
<1> DEFINE moved == drawn.url # ran.url
           sends == drawn.debounced # ran.debounced /\ drawn.debounced # drawn.url.q
           follows == drawn.url.q # ran.url.q
           again == moved \/ reloading
           keep == ~moved /\ queued.list.shown
           sent == [drawn.url EXCEPT !.q = drawn.debounced]
<1>1. /\ debounce' = (debounce \/ drawn.box # ran.box)
      /\ queued' = [url |-> IF sends THEN sent ELSE queued.url,
                    box |-> IF follows THEN drawn.url.q ELSE queued.box,
                    debounced |-> queued.debounced,
                    list |-> IF again /\ ~keep THEN NoList ELSE queued.list,
                    error |-> ~again /\ queued.error]
      /\ unsent' = (unsent /\ ~follows)
      /\ listRequest' = IF again THEN Asking(listPage, drawn.url, keep) ELSE listRequest
      /\ reloading' = FALSE
      /\ UNCHANGED <<listPage, drawn, writes, announced, dropping>>
  BY DEF Effects
<1>2. ran' = [url |-> drawn.url, box |-> drawn.box, debounced |-> drawn.debounced]
  BY DEF Effects, Seen
<1>3. sent \in Urls /\ sent.q = drawn.debounced
  BY ListTyped DEF Urls
<1>4. drawn.url.q \in Texts /\ keep \in BOOLEAN
  BY ListTyped DEF Urls, ListAnswersOf
<1> HIDE DEF sent
<1>5. queued'.url \in Urls /\ queued'.box \in Texts /\ queued'.debounced \in Texts
      /\ queued'.list \in ListAnswersOf /\ queued'.error \in BOOLEAN
  BY <1>1, <1>3, <1>4, ListTyped, NoListType
<1>6. queued' \in PageStates
  BY <1>1, <1>5 DEF PageStates
<1>7. listRequest' \in [pc : {"none", "asked", "served"}, query : ListQueries, keep : BOOLEAN,
                        got : ListAnswersOf]
  <2>1. listPage \in {"notes", "tasks", "items"}
    BY DEF ListInv, ListType
  <2>2. CASE again
    BY <1>1, <1>4, <2>1, <2>2, AskingType, ListTyped
  <2>3. CASE ~again
    BY <1>1, <2>3 DEF ListInv, ListType
  <2> QED BY <2>2, <2>3
<1>8. ListType'
  BY <1>1, <1>2, <1>6, <1>7, ListTyped DEF ListInv, ListType
<1>9. ListMatches'
  <2>1. listPage \in {"notes", "tasks", "items"}
    BY DEF ListInv, ListType
  <2>2. /\ queued'.list.shown => queued'.list.query = Query(listPage, drawn.url)
        /\ Honest(queued'.list)
    BY <1>1, NoListType DEF ListInv, ListMatches
  <2>3. CASE again
    <3>1. /\ listRequest'.pc = "asked" /\ listRequest'.query = Query(listPage, drawn.url)
          /\ listRequest'.got = NoList
      BY <1>1, <1>4, <2>1, <2>3, AskingType, ListTyped
    <3> QED BY <1>1, <1>2, <2>2, <3>1, NoListType DEF ListInv, ListMatches
  <2>4. CASE ~again
    BY <1>1, <1>2, <2>2, <2>4 DEF ListInv, ListMatches
  <2> QED BY <2>3, <2>4
<1>10. ListIsDue'
  <2>1. listPage \in {"notes", "tasks", "items"}
    BY DEF ListInv, ListType
  <2>2. CASE again
    <3>1. listRequest'.pc = "asked"
      BY <1>1, <1>4, <2>1, <2>2, AskingType, ListTyped
    <3> QED BY <1>1, <3>1 DEF ListInv, ListIsDue
  <2>3. CASE ~again
    BY <1>1, <1>2, <2>3 DEF ListInv, ListIsDue, Newest
  <2> QED BY <2>2, <2>3
<1>11. unsent' \/ UrlMoving' \/ BoxMoving' \/ queued'.box = queued'.url.q
  <2>1. CASE follows
    BY <1>1, <1>2, <2>1 DEF UrlMoving
  <2>2. CASE ~follows /\ sends
    BY <1>1, <1>2, <1>3, <2>2 DEF UrlMoving
  <2>3. CASE ~follows /\ ~sends
    <3>1. queued'.url = queued.url /\ queued'.box = queued.box /\ unsent' = unsent
          /\ queued'.debounced = queued.debounced
      BY <1>1, <2>3 DEF ListInv, ListType
    <3>2. CASE drawn.debounced # ran.debounced
      <4>1. drawn.debounced = drawn.url.q
        BY <2>3, <3>2
      <4>2. ~debounce => queued.debounced = ran.box
        BY DEF ListInv, WordIsKnown
      <4> QED BY <1>1, <1>2, <3>1, <4>1, <4>2 DEF UrlMoving, BoxMoving
    <3>3. CASE drawn.debounced = ran.debounced
      <4>1. unsent \/ UrlMoving \/ BoxMoving \/ queued.box = queued.url.q
        BY DEF ListInv, WordIsKnown
      <4> QED BY <1>1, <1>2, <2>3, <3>1, <3>3, <4>1 DEF UrlMoving, BoxMoving
    <3> QED BY <3>2, <3>3
  <2> QED BY <2>1, <2>2, <2>3
<1>12. WordIsKnown'
  BY <1>1, <1>2, <1>11 DEF ListInv, WordIsKnown
<1> QED BY <1>8, <1>9, <1>10, <1>12 DEF ListInv

LEMMA RequestMoves ==
  ASSUME ListInv, NEW l \in ListAnswersOf
  PROVE  LET r == [listRequest EXCEPT !.pc = "served", !.got = l]
         IN /\ r \in [pc : {"none", "asked", "served"}, query : ListQueries, keep : BOOLEAN,
                      got : ListAnswersOf]
            /\ r.pc = "served" /\ r.query = listRequest.query /\ r.got = l
<1> DEFINE m == [listRequest EXCEPT !.pc = "served"]
           Rec == [pc : {"none", "asked", "served"}, query : ListQueries, keep : BOOLEAN,
                   got : ListAnswersOf]
<1>1. m \in Rec /\ m.pc = "served" /\ m.query = listRequest.query
  BY DEF ListInv, ListType
<1>2. [listRequest EXCEPT !.pc = "served", !.got = l] = [m EXCEPT !.got = l]
  OBVIOUS
<1> HIDE DEF m
<1>3. /\ [m EXCEPT !.got = l] \in Rec /\ [m EXCEPT !.got = l].pc = m.pc
      /\ [m EXCEPT !.got = l].query = m.query /\ [m EXCEPT !.got = l].got = l
  BY <1>1
<1> QED BY <1>1, <1>2, <1>3

\* The server answers with the rows of the moment.
LEMMA ServeListKeeps == ASSUME ListInv, ServeList PROVE ListInv'
<1> DEFINE l == [shown |-> TRUE, query |-> listRequest.query, none |-> table = {}, at |-> writes,
                 empty |-> Matching(table, listRequest.query) = {}]
<1>1. listRequest' = [listRequest EXCEPT !.pc = "served", !.got = l] /\ listRequest.pc = "asked"
      /\ UNCHANGED <<listPage, queued, drawn, ran, debounce, reloading, writes, announced, dropping,
                     unsent>>
  BY DEF ServeList
<1>2. listPage \in {"notes", "tasks", "items"} /\ listRequest.query \in ListQueries /\ writes \in Nat
  BY ListTyped DEF ListInv, ListType
<1>3. l \in ListAnswersOf
  BY <1>2 DEF ListAnswersOf
<1>4. Honest(l)
  <2>1. ASSUME SelectsAll(listRequest.query), Matching(table, listRequest.query) = {}
        PROVE  table = {}
    BY <2>1, AllMatch
  <2> QED BY <2>1 DEF Honest
<1>5. l.shown /\ l.query = listRequest.query /\ l.at = writes
  OBVIOUS
<1> HIDE DEF l
<1>6. /\ listRequest' \in [pc : {"none", "asked", "served"}, query : ListQueries, keep : BOOLEAN,
                           got : ListAnswersOf]
      /\ listRequest'.pc = "served" /\ listRequest'.query = listRequest.query
      /\ listRequest'.got = l
  BY <1>1, <1>3, RequestMoves
<1>7. ListType'
  BY <1>1, <1>6 DEF ListInv, ListType
<1>8. ListMatches'
  BY <1>1, <1>4, <1>5, <1>6 DEF ListInv, ListMatches
<1>9. ListIsDue'
  BY <1>1, <1>5, <1>6 DEF ListInv, ListIsDue, Newest
<1>10. WordIsKnown'
  BY <1>1 DEF ListInv, WordIsKnown, UrlMoving, BoxMoving
<1> QED BY <1>7, <1>8, <1>9, <1>10 DEF ListInv

\* An answer is of the run of the moment: the effects ended the ones before.
LEMMA ListArrivesKeeps == ASSUME ListInv, ListArrives PROVE ListInv'
<1>1. /\ listRequest.pc = "served" /\ listRequest' = NoListRequest
      /\ queued' = [queued EXCEPT !.list = listRequest.got, !.error = FALSE]
      /\ UNCHANGED <<listPage, drawn, ran, debounce, reloading, writes, announced, dropping, unsent>>
  BY DEF ListArrives
<1>2. /\ queued' \in PageStates /\ queued'.url = queued.url /\ queued'.box = queued.box
      /\ queued'.debounced = queued.debounced /\ queued'.list = listRequest.got
  <2>1. queued \in PageStates /\ listRequest.got \in ListAnswersOf
    BY ListTyped DEF ListInv, ListType
  <2> QED BY <1>1, <2>1, PageLists
<1>3. ListType'
  BY <1>1, <1>2, NoListType DEF ListInv, ListType
<1>4. ListMatches'
  BY <1>1, <1>2, NoListType DEF ListInv, ListMatches
<1>5. ListIsDue'
  BY <1>1, <1>2, NoListType DEF ListInv, ListIsDue, Newest
<1>6. WordIsKnown'
  BY <1>1, <1>2 DEF ListInv, WordIsKnown, UrlMoving, BoxMoving
<1> QED BY <1>3, <1>4, <1>5, <1>6 DEF ListInv

LEMMA ListFailsKeeps == ASSUME ListInv, ListFails PROVE ListInv'
<1> DEFINE l == IF listRequest.keep THEN queued.list ELSE NoList
<1>1. /\ listRequest' = NoListRequest
      /\ UNCHANGED <<listPage, drawn, ran, debounce, reloading, writes, announced, dropping, unsent>>
  BY DEF ListFails
<1>2. queued' = [queued EXCEPT !.list = l, !.error = TRUE]
  BY DEF ListFails
<1>3. l \in ListAnswersOf /\ Honest(l) /\ (l.shown => l = queued.list)
  BY ListTyped, NoListType DEF ListInv, ListMatches
<1> HIDE DEF l
<1>4. /\ queued' \in PageStates /\ queued'.url = queued.url /\ queued'.box = queued.box
      /\ queued'.debounced = queued.debounced /\ queued'.list = l /\ queued'.error
  <2>1. queued \in PageStates
    BY DEF ListInv, ListType
  <2> QED BY <1>2, <1>3, <2>1, PageLists
<1>5. ListType'
  BY <1>1, <1>4, NoListType DEF ListInv, ListType
<1>6. ListMatches'
  BY <1>1, <1>3, <1>4, NoListType DEF ListInv, ListMatches
<1>7. ListIsDue'
  BY <1>1, <1>4, NoListType DEF ListInv, ListIsDue
<1>8. WordIsKnown'
  BY <1>1, <1>4 DEF ListInv, WordIsKnown, UrlMoving, BoxMoving
<1> QED BY <1>5, <1>6, <1>7, <1>8 DEF ListInv

LEMMA ReloadKeeps == ASSUME ListInv, RetryList \/ RefreshList PROVE ListInv'
<1>1. /\ UNCHANGED <<listPage, queued, drawn, ran, debounce, listRequest, writes, dropping, unsent>>
      /\ reloading' = TRUE /\ announced' \in {announced, writes}
  BY DEF RetryList, RefreshList
<1>2. ListType'
  BY <1>1 DEF ListInv, ListType
<1>3. ListMatches'
  BY <1>1 DEF ListInv, ListMatches
<1>4. ListIsDue'
  BY <1>1 DEF ListInv, ListIsDue, ListType
<1>5. WordIsKnown'
  BY <1>1 DEF ListInv, WordIsKnown, UrlMoving, BoxMoving
<1> QED BY <1>2, <1>3, <1>4, <1>5 DEF ListInv

\* The table changes; the page has not been told.
LEMMA TableKeeps ==
  ASSUME ListInv, (\E rows \in Tables : WriteRow(rows)) \/ ServeDelete
  PROVE  ListInv'
<1>1. /\ UNCHANGED <<listPage, queued, drawn, ran, debounce, reloading, listRequest, announced, unsent>>
      /\ writes' = writes + 1
  BY DEF WriteRow, ServeDelete
<1>2. dropping' \in [pc : {"none", "asked", "served"}, labels : SUBSET Labels, url : Urls]
  BY DEF WriteRow, ServeDelete, ListInv, ListType
<1>3. ListType'
  BY <1>1, <1>2 DEF ListInv, ListType
<1>4. ListMatches'
  BY <1>1 DEF ListInv, ListMatches
<1>5. ListIsDue'
  BY <1>1 DEF ListInv, ListIsDue, ListType, Newest
<1>6. WordIsKnown'
  BY <1>1 DEF ListInv, WordIsKnown, UrlMoving, BoxMoving
<1> QED BY <1>3, <1>4, <1>5, <1>6 DEF ListInv

LEMMA DroppingKeeps ==
  ASSUME ListInv, (\E l \in Labels : ConfirmDelete(l)) \/ DeleteFails
  PROVE  ListInv'
<1>1. UNCHANGED <<listPage, queued, drawn, ran, debounce, reloading, listRequest, writes, announced,
                  unsent>>
  BY DEF ConfirmDelete, DeleteFails
<1>2. dropping' \in [pc : {"none", "asked", "served"}, labels : SUBSET Labels, url : Urls]
  <2>1. drawn.url \in Urls /\ Plain \in Urls
    BY ListTyped, PlainType
  <2>2. ASSUME NEW l \in Labels, ConfirmDelete(l)
        PROVE  dropping' \in [pc : {"none", "asked", "served"}, labels : SUBSET Labels, url : Urls]
    <3>1. dropping' = [pc |-> "asked", labels |-> {l}, url |-> drawn.url] /\ {l} \in SUBSET Labels
      BY <2>2 DEF ConfirmDelete
    <3> QED BY <2>1, <3>1
  <2>3. ASSUME DeleteFails
        PROVE  dropping' \in [pc : {"none", "asked", "served"}, labels : SUBSET Labels, url : Urls]
    <3>1. dropping' = [pc |-> "none", labels |-> {}, url |-> Plain] /\ {} \in SUBSET Labels
      BY <2>3 DEF DeleteFails, NotDropping
    <3> QED BY <2>1, <3>1
  <2> QED BY <2>2, <2>3
<1> QED BY <1>1, <1>2 DEF ListInv, ListType, ListMatches, ListIsDue, Newest, WordIsKnown, UrlMoving,
                          BoxMoving

LEMMA CategoryDeletedKeeps == ASSUME ListInv, CategoryDeleted PROVE ListInv'
<1>1. /\ UNCHANGED <<listPage, drawn, ran, debounce, listRequest, writes>>
      /\ reloading' = TRUE /\ announced' = writes /\ dropping' = NotDropping
  BY DEF CategoryDeleted
<1>2. NotDropping \in [pc : {"none", "asked", "served"}, labels : SUBSET Labels, url : Urls]
  BY PlainType DEF NotDropping
<1>3. [dropping.url EXCEPT !.labels = @ \ dropping.labels] \in Urls
  BY ListTyped DEF Urls
<1>4. CASE dropping.labels \subseteq dropping.url.labels
  <2>1. Navigated([dropping.url EXCEPT !.labels = @ \ dropping.labels])
    BY <1>4 DEF CategoryDeleted
  <2> QED BY <1>1, <1>2, <1>3, <2>1, NavigatedKeeps, BoxAndUrlKeep
<1>5. CASE ~(dropping.labels \subseteq dropping.url.labels)
  <2>1. queued' = queued /\ unsent' = unsent
    BY <1>5 DEF CategoryDeleted
  <2>2. queued \in PageStates /\ unsent \in BOOLEAN
    BY DEF ListInv, ListType
  <2>3. unsent' \/ UrlMoving' \/ BoxMoving' \/ queued'.box = queued'.url.q
    BY <1>1, <2>1 DEF ListInv, WordIsKnown, UrlMoving, BoxMoving
  <2> QED BY <1>1, <1>2, <2>1, <2>2, <2>3, BoxAndUrlKeep
<1> QED BY <1>4, <1>5

LEMMA ListInitInv == ListInit => ListInv
<1> SUFFICES ASSUME ListInit PROVE ListInv
  OBVIOUS
<1>1. PICK u \in DeepLinks : queued = Opened(u)
  BY DEF ListInit
<1>2. listPage \in {"notes", "tasks", "items"} /\ u \in Urls
  BY FilteredListAssumption DEF ListInit
<1>3. /\ queued = [url |-> u, box |-> u.q, debounced |-> u.q, list |-> NoList, error |-> FALSE]
      /\ drawn = queued /\ ran = [url |-> u, box |-> u.q, debounced |-> u.q]
      /\ listRequest = Asking(listPage, u, FALSE)
  BY <1>1 DEF ListInit, Opened, Seen
<1>4. u.q \in Texts /\ NoList \in ListAnswersOf
  BY <1>2, NoListType DEF Urls
<1>5. queued \in PageStates /\ ran \in [url : Urls, box : Texts, debounced : Texts]
  BY <1>2, <1>3, <1>4 DEF PageStates
<1>6. /\ listRequest \in [pc : {"none", "asked", "served"}, query : ListQueries, keep : BOOLEAN,
                          got : ListAnswersOf]
      /\ listRequest.pc = "asked" /\ listRequest.query = Query(listPage, u)
      /\ listRequest.got = NoList
  BY <1>2, <1>3, AskingType
<1>7. NotDropping \in [pc : {"none", "asked", "served"}, labels : SUBSET Labels, url : Urls]
  BY PlainType DEF NotDropping
<1>8. ListType
  BY <1>2, <1>3, <1>5, <1>6, <1>7 DEF ListInit, ListType
<1>9. ListMatches
  BY <1>3, <1>6, NoListType DEF ListMatches
<1>10. ListIsDue
  <2>1. announced <= writes
    BY DEF ListInit
  <2> QED BY <1>6, <2>1 DEF ListIsDue
<1>11. WordIsKnown
  BY <1>3 DEF WordIsKnown
<1> QED BY <1>8, <1>9, <1>10, <1>11 DEF ListInv

LEMMA ListStep == ListInv /\ [ListNext]_listVars => ListInv'
<1> SUFFICES ASSUME ListInv, [ListNext]_listVars PROVE ListInv'
  OBVIOUS
<1>1. ASSUME NEW v \in Controls(listPage, drawn.url), setParam(v) PROVE ListInv'
  <2>1. v \in Urls
    BY ListTyped, ControlsAreUrls DEF ListInv, ListType
  <2> QED BY <1>1, <2>1, setParamKeeps
<1>2. ASSUME NEW u \in DeepLinks, Navigate(u) PROVE ListInv'
  <2>1. u \in Urls
    BY FilteredListAssumption
  <2> QED BY <1>2, <2>1, setParamKeeps
<1>3. CASE UNCHANGED listVars
  BY <1>3 DEF listVars, ListInv, ListType, ListMatches, ListIsDue, Newest, WordIsKnown, UrlMoving, BoxMoving
<1> QED BY <1>1, <1>2, <1>3, SearchKeeps, resetFiltersKeeps, DebounceFiresKeeps, RenderKeeps,
           EffectsKeep, ServeListKeeps, ListArrivesKeeps, ListFailsKeeps, ReloadKeeps, TableKeeps,
           DroppingKeeps, CategoryDeletedKeeps DEF ListNext

\* What a list page shows is what its filters ask for, and it says that there is nothing only
\* to a user who has nothing; when all is over the box holds the word of the URL, unless a
\* later act overtook it, and the list is as new as the last change the page heard of.
THEOREM ListsFollowFilters == ListSpec => []ListFollowsFilters
<1>1. ListInv => ListFollowsFilters
  <2> SUFFICES ASSUME ListInv PROVE ListFollowsFilters
    OBVIOUS
  <2>1. listPage \in {"notes", "tasks", "items"} /\ drawn \in PageStates
    BY DEF ListInv, ListType
  <2>2. ListAnswersFilters
    BY DEF ListInv, ListMatches, ListAnswersFilters
  <2>3. EmptyMeansNone
    <3>1. SUFFICES ASSUME Screen(listPage, drawn) = "nothing yet" PROVE drawn.list.none
      BY DEF EmptyMeansNone
    <3>2. drawn.list.shown /\ drawn.list.empty /\ ~HasFilters(listPage, drawn.url)
      BY <3>1 DEF Screen
    <3>3. SelectsAll(drawn.list.query)
      BY <2>1, <2>2, <3>2, NoFiltersSelectAll, ListTyped DEF ListAnswersFilters
    <3> QED BY <3>2, <3>3 DEF ListInv, ListMatches, Honest
  <2>4. RestIsCurrent
    <3>1. SUFFICES ASSUME ListAtRest
                   PROVE  /\ drawn.box = drawn.url.q \/ unsent
                          /\ Screen(listPage, drawn) # "loading"
                          /\ ~drawn.error => drawn.list.at >= announced
      BY DEF RestIsCurrent
    <3>2. /\ queued = drawn /\ ran.url = drawn.url /\ ran.box = drawn.box
          /\ ran.debounced = drawn.debounced /\ ~debounce /\ ~reloading /\ listRequest.pc = "none"
      BY <3>1, NoListType DEF ListAtRest, Seen
    <3>3. drawn.box = drawn.url.q \/ unsent
      BY <3>2 DEF ListInv, WordIsKnown, UrlMoving, BoxMoving
    <3>4. drawn.error \/ (drawn.list.shown /\ announced <= drawn.list.at)
      BY <3>2 DEF ListInv, ListIsDue, Newest
    <3>5. Screen(listPage, drawn) # "loading"
      BY <3>4 DEF Screen
    <3>6. announced \in Nat /\ drawn.list.at \in Nat
      BY ListTyped DEF ListInv, ListType, ListAnswersOf
    <3> QED BY <3>3, <3>4, <3>5, <3>6
  <2> QED BY <2>2, <2>3, <2>4 DEF ListFollowsFilters
<1> QED BY <1>1, ListInitInv, ListStep, PTL DEF ListSpec

(***************************************************************************)
(* The board of the game (Tiles2048).                                      *)
(***************************************************************************)
\* Counting up to a bound.
LEMMA Counting ==
    ASSUME NEW N \in Nat, NEW S, 0 \in S, \A n \in 0..N : n \in S /\ n < N => n + 1 \in S
    PROVE  0..N \subseteq S
<1> DEFINE Left == {n \in 0..N : n \notin S}
           Below == {pair \in Nat \X Nat : pair[1] < pair[2]}
<1>1. SUFFICES ASSUME Left # {} PROVE FALSE
  OBVIOUS
<1>2. IsWellFoundedOn(Below, Nat)
  BY NatLessThanWellFounded DEF OpToRel
<1>3. PICK n \in Left : \A m \in Left : ~(<<m, n>> \in Below)
  <2>1. Left \subseteq Nat
    OBVIOUS
  <2> HIDE DEF Below, Left
  <2> QED BY <1>1, <1>2, <2>1, WFMin
<1>4. n \in 0..N /\ n \notin S /\ n # 0
  OBVIOUS
<1>5. n - 1 \in 0..N /\ n - 1 < N /\ n - 1 + 1 = n
  BY <1>4
<1>6. <<n - 1, n>> \in Below
  BY <1>4, <1>5
<1>7. n - 1 \in S
  BY <1>3, <1>5, <1>6
<1> QED BY <1>4, <1>5, <1>7

\* A recursion along an interval has a solution.
Runs(f, N, S, first, step) ==
    f \in [0..N -> S] /\ f[0] = first /\ \A n \in 1..N : f[n] = step[n][f[n - 1]]

LEMMA Recursion ==
    ASSUME NEW N \in Nat, NEW S, NEW first \in S, NEW step \in [0..N -> [S -> S]]
    PROVE  \E f : Runs(f, N, S, first, step)
<1> DEFINE Goes(f, m) == f \in [0..m -> S] /\ f[0] = first /\ \A n \in 1..m : f[n] = step[n][f[n - 1]]
           T == {m \in 0..N : \E f : Goes(f, m)}
<1>1. 0 \in T
  <2> DEFINE f == [n \in 0..0 |-> first]
  <2>1. Goes(f, 0)
    OBVIOUS
  <2> HIDE DEF f, Goes
  <2> QED BY <2>1
<1>2. ASSUME NEW m \in 0..N, m \in T, m < N PROVE m + 1 \in T
  <2>1. PICK f : Goes(f, m)
    BY <1>2
  <2> DEFINE g == [n \in 0..(m + 1) |-> IF n = m + 1 THEN step[m + 1][f[m]] ELSE f[n]]
  <2>2. m \in 0..m /\ m + 1 \in 0..N /\ f[m] \in S
    BY <1>2, <2>1
  <2>3. step[m + 1][f[m]] \in S
    BY <2>2
  <2>4. g \in [0..(m + 1) -> S]
    BY <2>1, <2>3
  <2>5. g[0] = first
    BY <2>1
  <2>6. ASSUME NEW n \in 1..(m + 1) PROVE g[n] = step[n][g[n - 1]]
    <3>1. n - 1 \in 0..m /\ g[n - 1] = f[n - 1]
      BY <2>6
    <3>2. CASE n = m + 1
      BY <3>1, <3>2
    <3>3. CASE n # m + 1
      <4>1. n \in 1..m /\ g[n] = f[n]
        BY <3>3
      <4> QED BY <2>1, <3>1, <4>1
    <3> QED BY <3>2, <3>3
  <2>7. Goes(g, m + 1)
    BY <2>4, <2>5, <2>6
  <2> HIDE DEF g, Goes
  <2> QED BY <2>2, <2>7
<1>3. 0..N \subseteq T
  <2> HIDE DEF T
  <2> QED BY <1>1, <1>2, Counting
<1>4. N \in T
  <2> HIDE DEF T
  <2> QED BY <1>3
<1> QED BY <1>4 DEF Runs

-----------------------------------------------------------------------------
(* A line that slides.                                                     *)

TileRec == [id : Nat, value : Nat \ {0}, r : Index, c : Index]

\* What was slid of a line of values of S: only its last one may still merge.
Sliding(S) == {a \in [line : Seq(S), free : BOOLEAN, gained : Nat] : a.free => Len(a.line) > 0}

\* How b follows from a when the next tile is t: it joins the last one, or it is added.
Joined(a, t, b) ==
    LET n == Len(a.line) IN
    /\ a.free /\ n > 0 /\ a.line[n].value = t.value
    /\ Len(b.line) = n /\ b.line[n] = Doubled(a.line[n]) /\ \A j \in 1..n - 1 : b.line[j] = a.line[j]
    /\ b.free = FALSE /\ b.gained = a.gained + 2 * t.value
Added(a, t, b) ==
    LET n == Len(a.line) IN
    /\ ~(a.free /\ a.line[n].value = t.value)
    /\ Len(b.line) = n + 1 /\ b.line[n + 1] = t /\ \A j \in 1..n : b.line[j] = a.line[j]
    /\ b.free = TRUE /\ b.gained = a.gained

LEMMA DoubledIs ==
    ASSUME NEW t \in TileRec
    PROVE  Doubled(t) \in TileRec /\ Doubled(t).id = t.id /\ Doubled(t).value = 2 * t.value
BY DEF Doubled, TileRec

LEMMA NoneYetTyped == ASSUME NEW S PROVE NoneYet \in Sliding(S)
<1>1. <<>> \in Seq(S) /\ Len(<<>>) = 0
  OBVIOUS
<1> QED BY <1>1 DEF NoneYet, Sliding

LEMMA KeepIs ==
    ASSUME NEW a \in Sliding(TileRec), NEW t \in TileRec
    PROVE  /\ Keep(a, t) \in Sliding(TileRec)
           /\ Joined(a, t, Keep(a, t)) \/ Added(a, t, Keep(a, t))
<1> DEFINE n == Len(a.line)
<1>1. a.line \in Seq(TileRec) /\ n \in Nat /\ a.free \in BOOLEAN /\ a.gained \in Nat /\ (a.free => n > 0)
  BY DEF Sliding
<1>2. t.value \in Nat /\ a.gained + 2 * t.value \in Nat
  BY <1>1 DEF TileRec
<1>3. CASE a.free /\ a.line[n].value = t.value
  <2>1. n \in 1..n /\ a.line[n] \in TileRec
    BY <1>1, <1>3
  <2> DEFINE s == [a.line EXCEPT ![n] = Doubled(@)]
  <2>2. s \in Seq(TileRec) /\ Len(s) = n /\ s[n] = Doubled(a.line[n]) /\ \A j \in 1..n - 1 : s[j] = a.line[j]
    <3>1. Doubled(a.line[n]) \in TileRec
      BY <2>1, DoubledIs
    <3> QED BY <1>1, <2>1, <3>1
  <2>3. Keep(a, t) = [line |-> s, free |-> FALSE, gained |-> a.gained + 2 * t.value]
    BY <1>3 DEF Keep
  <2> HIDE DEF s
  <2>4. Keep(a, t) \in Sliding(TileRec)
    BY <1>2, <2>2, <2>3 DEF Sliding
  <2>5. Joined(a, t, Keep(a, t))
    BY <1>1, <1>3, <2>2, <2>3 DEF Joined
  <2> QED BY <2>4, <2>5
<1>4. CASE ~(a.free /\ a.line[n].value = t.value)
  <2> DEFINE s == Append(a.line, t)
  <2>1. s \in Seq(TileRec) /\ Len(s) = n + 1 /\ s[n + 1] = t /\ \A j \in 1..n : s[j] = a.line[j]
    BY <1>1
  <2>2. Keep(a, t) = [line |-> s, free |-> TRUE, gained |-> a.gained]
    BY <1>4 DEF Keep
  <2> HIDE DEF s
  <2>3. Keep(a, t) \in Sliding(TileRec)
    BY <1>1, <2>1, <2>2 DEF Sliding
  <2>4. Added(a, t, Keep(a, t))
    BY <1>4, <2>1, <2>2 DEF Added
  <2> QED BY <2>3, <2>4
<1> QED BY <1>3, <1>4

\* The matrix and the tiles slide alike.
Alike(a, b) ==
    /\ Len(a.line) = Len(b.line) /\ \A j \in 1..Len(b.line) : a.line[j] = b.line[j].value
    /\ a.free = b.free /\ a.gained = b.gained

LEMMA JoinAlike ==
    ASSUME NEW a \in Sliding(Nat), NEW b \in Sliding(TileRec), Alike(a, b), NEW t \in TileRec
    PROVE  /\ JoinValue(a, t.value) \in Sliding(Nat)
           /\ Alike(JoinValue(a, t.value), Keep(b, t))
<1> DEFINE n == Len(b.line)
           v == t.value
<1>1. /\ a.line \in Seq(Nat) /\ a.free \in BOOLEAN /\ a.gained \in Nat /\ (a.free => n > 0)
      /\ b.line \in Seq(TileRec) /\ n \in Nat
  BY DEF Sliding, Alike
<1>2. /\ Len(a.line) = n /\ a.free = b.free /\ a.gained = b.gained
      /\ \A j \in 1..n : a.line[j] = b.line[j].value
  BY DEF Alike
<1>3. v \in Nat /\ 2 * v \in Nat /\ a.gained + 2 * v \in Nat
  BY <1>1 DEF TileRec
<1>4. CASE a.free /\ a.line[n] = v
  <2>1. n \in 1..n /\ b.line[n] \in TileRec /\ b.line[n].value = v
    BY <1>1, <1>2, <1>4
  <2> DEFINE s == [a.line EXCEPT ![n] = 2 * v]
  <2>2. s \in Seq(Nat) /\ Len(s) = n /\ s[n] = 2 * v /\ \A j \in 1..n - 1 : s[j] = a.line[j]
    BY <1>1, <1>2, <1>3, <2>1
  <2>3. JoinValue(a, v) = [line |-> s, free |-> FALSE, gained |-> a.gained + 2 * v]
    BY <1>2, <1>4 DEF JoinValue
  <2>4. Joined(b, t, Keep(b, t))
    <3>1. ~Added(b, t, Keep(b, t))
      BY <1>2, <1>4, <2>1 DEF Added
    <3> QED BY <3>1, KeepIs
  <2> HIDE DEF s
  <2>5. JoinValue(a, v) \in Sliding(Nat)
    BY <1>3, <2>2, <2>3 DEF Sliding
  <2>6. Alike(JoinValue(a, v), Keep(b, t))
    <3> DEFINE k == Keep(b, t)
    <3>1. /\ Len(k.line) = n /\ k.line[n] = Doubled(b.line[n]) /\ \A j \in 1..n - 1 : k.line[j] = b.line[j]
          /\ k.free = FALSE /\ k.gained = b.gained + 2 * v
      BY <2>4 DEF Joined
    <3>2. k.line[n].value = 2 * v
      BY <2>1, <3>1, DoubledIs
    <3> HIDE DEF k, v
    <3>3. \A j \in 1..n : s[j] = k.line[j].value
      <4> TAKE j \in 1..n
      <4>1. CASE j = n
        BY <2>2, <3>2, <4>1
      <4>2. CASE j # n
        <5>1. j \in 1..n - 1
          BY <1>1, <4>2
        <5> QED BY <1>2, <2>2, <3>1, <5>1
      <4> QED BY <4>1, <4>2
    <3> DEFINE m == JoinValue(a, v)
    <3>4. m.line = s /\ m.free = FALSE /\ m.gained = a.gained + 2 * v
      BY <2>3
    <3> HIDE DEF m
    <3>5. Alike(m, k)
      BY <1>2, <2>2, <3>1, <3>3, <3>4 DEF Alike
    <3> QED BY <3>5 DEF m, k, v
  <2> QED BY <2>5, <2>6
<1>5. CASE ~(a.free /\ a.line[n] = v)
  <2> DEFINE s == Append(a.line, v)
  <2>1. s \in Seq(Nat) /\ Len(s) = n + 1 /\ s[n + 1] = v /\ \A j \in 1..n : s[j] = a.line[j]
    BY <1>1, <1>2, <1>3
  <2>2. JoinValue(a, v) = [line |-> s, free |-> TRUE, gained |-> a.gained]
    BY <1>2, <1>5 DEF JoinValue
  <2>3. Added(b, t, Keep(b, t))
    <3>1. ~Joined(b, t, Keep(b, t))
      <4> SUFFICES ASSUME b.free, n > 0, b.line[n].value = v PROVE FALSE
        BY DEF Joined
      <4>1. n \in 1..n
        BY <1>1
      <4> QED BY <1>2, <1>5, <4>1
    <3> QED BY <3>1, KeepIs
  <2> HIDE DEF s
  <2>4. JoinValue(a, v) \in Sliding(Nat)
    BY <1>1, <2>1, <2>2 DEF Sliding
  <2>5. Alike(JoinValue(a, v), Keep(b, t))
    <3> DEFINE k == Keep(b, t)
    <3>1. /\ Len(k.line) = n + 1 /\ k.line[n + 1] = t /\ \A j \in 1..n : k.line[j] = b.line[j]
          /\ k.free = TRUE /\ k.gained = b.gained
      BY <2>3 DEF Added
    <3> HIDE DEF k
    <3>2. \A j \in 1..n + 1 : s[j] = k.line[j].value
      <4> TAKE j \in 1..n + 1
      <4>1. CASE j = n + 1
        BY <2>1, <3>1, <4>1
      <4>2. CASE j # n + 1
        <5>1. j \in 1..n
          BY <1>1, <4>2
        <5> QED BY <1>2, <2>1, <3>1, <5>1
      <4> QED BY <4>1, <4>2
    <3> DEFINE m == JoinValue(a, v)
    <3>3. m.line = s /\ m.free = TRUE /\ m.gained = a.gained
      BY <2>2
    <3> HIDE DEF m
    <3>4. Alike(m, k)
      BY <1>2, <2>1, <3>1, <3>2, <3>3 DEF Alike
    <3> QED BY <3>4 DEF m, k, v
  <2> QED BY <2>4, <2>5
<1> QED BY <1>4, <1>5

\* Each slot of a line holds one tile at most, and no two of its tiles share an id.
TileAt(line, i) == TheTile(line[i])
Lines ==
    {line \in [Index -> SUBSET TileRec] :
        \A i, j \in Index : line[i] # {} /\ line[j] # {} /\ TileAt(line, i).id = TileAt(line, j).id => i = j}

LEMMA TileAtTyped ==
    ASSUME NEW line \in Lines, NEW i \in Index, line[i] # {}
    PROVE  TileAt(line, i) \in TileRec
<1>1. line[i] \in SUBSET TileRec
  BY DEF Lines
<1>2. TheTile(line[i]) \in line[i]
  BY DEF TheTile
<1> QED BY <1>1, <1>2 DEF TileAt

\* The first i slots are taken, and no two neighbours of them are equal.
Whole(line, i) ==
    /\ \A j \in 1..i : line[j] # {}
    /\ \A j \in 1..i : j < i => TileAt(line, j).value # TileAt(line, j + 1).value

\* After slot i: what was slid is the whole line or it is shorter, its tiles are tiles of
\* the line with their ids, and its last one is the last tile passed unless it merged.
Short(line, a, i) ==
    /\ Len(a.line) <= i /\ (Len(a.line) = i <=> Whole(line, i))
    /\ Len(a.line) = i => /\ \A j \in 1..i : a.line[j] = TileAt(line, j)
                          /\ i > 0 => a.free
Owned(line, a, i) ==
    /\ \A j \in 1..Len(a.line) : \E o \in 1..i : line[o] # {} /\ a.line[j].id = TileAt(line, o).id
    /\ \A j, m \in 1..Len(a.line) : a.line[j].id = a.line[m].id => j = m
LastPassed(line, a, i) ==
    /\ Len(a.line) = 0 => \A o \in 1..i : line[o] = {}
    /\ Len(a.line) > 0 => \E q \in 1..i :
          /\ line[q] # {}
          /\ a.line[Len(a.line)] = IF a.free THEN TileAt(line, q) ELSE Doubled(TileAt(line, q))
          /\ a.free => \A o \in q + 1..i : line[o] = {}

LEMMA ShortKept ==
    ASSUME NEW line \in Lines, NEW a \in Sliding(TileRec), NEW i \in Index, Short(line, a, i - 1)
    PROVE  /\ line[i] = {} => Short(line, a, i)
           /\ line[i] # {} => Short(line, Keep(a, TileAt(line, i)), i)
<1> DEFINE n == Len(a.line)
           t == TileAt(line, i)
           b == Keep(a, t)
<1>1. SIZE \in Nat /\ i \in Nat /\ i - 1 \in Nat /\ i > 0 /\ i - 1 < i /\ n \in Nat
  BY TilesAssumption DEF Index, Sliding
<1>2. /\ n <= i - 1 /\ (n = i - 1 <=> Whole(line, i - 1))
      /\ n = i - 1 => (\A j \in 1..i - 1 : a.line[j] = TileAt(line, j)) /\ (i - 1 > 0 => a.free)
  BY DEF Short
<1>3. CASE line[i] = {}
  <2>1. ~Whole(line, i) /\ n <= i /\ n # i
    BY <1>1, <1>2, <1>3 DEF Whole
  <2> QED BY <1>3, <2>1 DEF Short
<1>4. CASE line[i] # {}
  <2>1. t \in TileRec
    BY <1>4, TileAtTyped
  <2>2. Joined(a, t, b) \/ Added(a, t, b)
    BY <2>1, KeepIs
  <2>3. Whole(line, i) <=> Whole(line, i - 1) /\ (i - 1 > 0 => TileAt(line, i - 1).value # t.value)
    <3>1. 1..i = (1..i - 1) \union {i} /\ i - 1 + 1 = i
      BY <1>1
    <3>2. Whole(line, i) => Whole(line, i - 1) /\ (i - 1 > 0 => TileAt(line, i - 1).value # t.value)
      <4> SUFFICES ASSUME Whole(line, i)
                   PROVE  Whole(line, i - 1) /\ (i - 1 > 0 => TileAt(line, i - 1).value # t.value)
        OBVIOUS
      <4>1. \A j \in 1..i - 1 : j \in 1..i /\ (j < i - 1 => j < i)
        BY <1>1
      <4>2. i - 1 > 0 => i - 1 \in 1..i
        BY <1>1
      <4> QED BY <1>1, <3>1, <4>1, <4>2 DEF Whole
    <3>3. ASSUME Whole(line, i - 1), i - 1 > 0 => TileAt(line, i - 1).value # t.value
          PROVE  Whole(line, i)
      <4>1. \A j \in 1..i : line[j] # {}
        BY <1>4, <3>1, <3>3 DEF Whole
      <4>2. ASSUME NEW j \in 1..i, j < i PROVE TileAt(line, j).value # TileAt(line, j + 1).value
        <5>1. CASE j = i - 1
          BY <1>1, <3>1, <3>3, <4>2, <5>1
        <5>2. CASE j # i - 1
          <6>1. j \in 1..i - 1 /\ j < i - 1
            BY <1>1, <4>2, <5>2
          <6> QED BY <3>3, <6>1 DEF Whole
        <5> QED BY <5>1, <5>2
      <4> QED BY <4>1, <4>2 DEF Whole
    <3> QED BY <3>2, <3>3
  <2> HIDE DEF b, t
  <2>4. CASE Joined(a, t, b)
    <3>1. a.free /\ n > 0 /\ a.line[n].value = t.value /\ Len(b.line) = n
      BY <2>4 DEF Joined
    <3>2. ~Whole(line, i)
      <4> SUFFICES ASSUME Whole(line, i) PROVE FALSE
        OBVIOUS
      <4>1. n = i - 1 /\ i - 1 > 0 /\ TileAt(line, i - 1).value # t.value
        BY <1>2, <2>3, <3>1
      <4>2. i - 1 \in 1..i - 1 /\ a.line[i - 1] = TileAt(line, i - 1)
        BY <1>1, <1>2, <4>1
      <4> QED BY <3>1, <4>1, <4>2
    <3>3. Len(b.line) < i
      BY <1>1, <1>2, <3>1
    <3>4. Short(line, b, i)
      BY <1>1, <3>1, <3>2, <3>3 DEF Short
    <3> QED BY <1>4, <3>4 DEF b, t
  <2>5. CASE Added(a, t, b)
    <3>1. /\ ~(a.free /\ a.line[n].value = t.value)
          /\ Len(b.line) = n + 1 /\ b.line[n + 1] = t /\ \A j \in 1..n : b.line[j] = a.line[j]
          /\ b.free = TRUE
      BY <2>5 DEF Added
    <3>2. n + 1 <= i /\ (n + 1 = i <=> n = i - 1)
      BY <1>1, <1>2
    <3>3. n = i - 1 => (i - 1 > 0 => TileAt(line, i - 1).value # t.value)
      <4> SUFFICES ASSUME n = i - 1, i - 1 > 0 PROVE TileAt(line, i - 1).value # t.value
        OBVIOUS
      <4>1. i - 1 \in 1..i - 1 /\ a.line[i - 1] = TileAt(line, i - 1) /\ a.free
        BY <1>1, <1>2
      <4> QED BY <3>1, <4>1
    <3>4. n + 1 = i <=> Whole(line, i)
      BY <1>2, <2>3, <3>2, <3>3
    <3>5. ASSUME n + 1 = i, NEW j \in 1..i PROVE b.line[j] = TileAt(line, j)
      <4>1. CASE j = i
        BY <3>1, <3>5, <4>1 DEF t
      <4>2. CASE j # i
        <5>1. j \in 1..i - 1 /\ j \in 1..n
          BY <1>1, <3>5, <4>2
        <5> QED BY <1>2, <3>1, <3>2, <3>5, <5>1
      <4> QED BY <4>1, <4>2
    <3>6. Short(line, b, i)
      BY <3>1, <3>2, <3>4, <3>5 DEF Short
    <3> QED BY <1>4, <3>6 DEF b, t
  <2> QED BY <2>2, <2>4, <2>5 DEF b
<1> QED BY <1>3, <1>4

LEMMA OwnedKept ==
    ASSUME NEW line \in Lines, NEW a \in Sliding(TileRec), NEW i \in Index, Owned(line, a, i - 1),
           LastPassed(line, a, i - 1)
    PROVE  /\ line[i] = {} => Owned(line, a, i) /\ LastPassed(line, a, i)
           /\ line[i] # {} => /\ Owned(line, Keep(a, TileAt(line, i)), i)
                              /\ LastPassed(line, Keep(a, TileAt(line, i)), i)
<1> DEFINE n == Len(a.line)
           t == TileAt(line, i)
           b == Keep(a, t)
<1>1. SIZE \in Nat /\ i \in Nat /\ i - 1 \in Nat /\ i > 0 /\ n \in Nat /\ 1..SIZE = Index
  BY TilesAssumption DEF Index, Sliding
<1>2. 1..i = (1..i - 1) \union {i} /\ 1..i \subseteq Index /\ \A q \in 1..i - 1 : q + 1..i = (q + 1..i - 1) \union {i}
  BY <1>1
<1>3. /\ \A j \in 1..n : \E o \in 1..i - 1 : line[o] # {} /\ a.line[j].id = TileAt(line, o).id
      /\ \A j, m \in 1..n : a.line[j].id = a.line[m].id => j = m
  BY DEF Owned
<1>4. CASE line[i] = {}
  <2>1. Owned(line, a, i)
    BY <1>2, <1>3 DEF Owned
  <2>2. LastPassed(line, a, i)
    <3>1. CASE n = 0
      BY <1>2, <1>4, <3>1 DEF LastPassed
    <3>2. CASE n > 0
      <4>1. PICK q \in 1..i - 1 :
               /\ line[q] # {}
               /\ a.line[n] = IF a.free THEN TileAt(line, q) ELSE Doubled(TileAt(line, q))
               /\ a.free => \A o \in q + 1..i - 1 : line[o] = {}
        BY <3>2 DEF LastPassed
      <4>2. q \in 1..i /\ (a.free => \A o \in q + 1..i : line[o] = {})
        BY <1>2, <1>4, <4>1
      <4> QED BY <3>2, <4>1, <4>2 DEF LastPassed
    <3> QED BY <1>1, <3>1, <3>2
  <2> QED BY <1>4, <2>1, <2>2
<1>5. CASE line[i] # {}
  <2>1. t \in TileRec /\ i \in 1..i
    BY <1>1, <1>5, TileAtTyped
  <2>2. Joined(a, t, b) \/ Added(a, t, b)
    BY <2>1, KeepIs
  <2>3. CASE Joined(a, t, b)
    <3>1. /\ a.free /\ n > 0 /\ Len(b.line) = n /\ b.line[n] = Doubled(a.line[n])
          /\ \A j \in 1..n - 1 : b.line[j] = a.line[j]
          /\ b.free = FALSE
      BY <2>3 DEF Joined
    <3>2. n \in 1..n /\ a.line[n] \in TileRec
      BY <1>1, <3>1 DEF Sliding
    <3>3. \A j \in 1..n : b.line[j].id = a.line[j].id
      <4> HIDE DEF b
      <4> TAKE j \in 1..n
      <4>1. CASE j = n
        BY <3>1, <3>2, <4>1, DoubledIs
      <4>2. CASE j # n
        <5>1. j \in 1..n - 1
          BY <1>1, <4>2
        <5> QED BY <3>1, <5>1
      <4> QED BY <4>1, <4>2
    <3>4. PICK q \in 1..i - 1 : line[q] # {} /\ a.line[n] = TileAt(line, q)
      BY <3>1 DEF LastPassed
    <3>5. q \in 1..i
      BY <1>2
    <3> HIDE DEF b, t, n
    <3>6. Owned(line, b, i)
      <4>1. \A j \in 1..n : \E o \in 1..i : line[o] # {} /\ b.line[j].id = TileAt(line, o).id
        BY <1>2, <1>3, <3>3
      <4>2. \A j, m \in 1..n : b.line[j].id = b.line[m].id => j = m
        BY <1>3, <3>3
      <4> QED BY <3>1, <4>1, <4>2 DEF Owned
    <3>7. LastPassed(line, b, i)
      BY <3>1, <3>4, <3>5 DEF LastPassed
    <3> QED BY <1>5, <3>6, <3>7 DEF b, t
  <2>4. CASE Added(a, t, b)
    <3>1. /\ Len(b.line) = n + 1 /\ b.line[n + 1] = t /\ \A j \in 1..n : b.line[j] = a.line[j]
          /\ b.free = TRUE
      BY <2>4 DEF Added
    <3>2. \A j \in 1..n : a.line[j].id # t.id
      <4> TAKE j \in 1..n
      <4>1. PICK o \in 1..i - 1 : line[o] # {} /\ a.line[j].id = TileAt(line, o).id
        BY <1>3
      <4>2. o \in Index /\ o # i
        BY <1>1, <1>2
      <4> QED BY <1>5, <4>1, <4>2 DEF Lines
    <3> HIDE DEF b
    <3>3. 1..n + 1 = (1..n) \union {n + 1} /\ n + 1 \notin 1..n
      BY <1>1
    <3>4. \A j \in 1..n + 1 : \E o \in 1..i : line[o] # {} /\ b.line[j].id = TileAt(line, o).id
      <4> TAKE j \in 1..n + 1
      <4>1. CASE j = n + 1
        BY <1>5, <2>1, <3>1, <4>1
      <4>2. CASE j # n + 1
        <5>1. j \in 1..n
          BY <3>3, <4>2
        <5>2. PICK o \in 1..i - 1 : line[o] # {} /\ a.line[j].id = TileAt(line, o).id
          BY <1>3, <5>1
        <5> QED BY <1>2, <3>1, <5>1, <5>2
      <4> QED BY <4>1, <4>2
    <3>5. ASSUME NEW j \in 1..n + 1, NEW m \in 1..n + 1, b.line[j].id = b.line[m].id PROVE j = m
      <4> HIDE DEF t
      <4>1. (j \in 1..n \/ j = n + 1) /\ (m \in 1..n \/ m = n + 1)
        BY <3>3
      <4>2. CASE j \in 1..n /\ m \in 1..n
        BY <1>3, <3>1, <3>5, <4>2
      <4>3. CASE j \in 1..n /\ m = n + 1
        BY <3>1, <3>2, <3>5, <4>3
      <4>4. CASE j = n + 1 /\ m \in 1..n
        <5>1. a.line[m].id = t.id
          BY <3>1, <3>5, <4>4
        <5> QED BY <3>2, <4>4, <5>1
      <4> QED BY <4>1, <4>2, <4>3, <4>4
    <3>6. Owned(line, b, i)
      BY <3>1, <3>4, <3>5 DEF Owned
    <3>7. LastPassed(line, b, i)
      <4>1. \A o \in i + 1..i : line[o] = {}
        BY <1>1
      <4>2. n + 1 > 0 /\ n + 1 # 0
        BY <1>1
      <4> QED BY <1>5, <2>1, <3>1, <4>1, <4>2 DEF LastPassed
    <3> QED BY <1>5, <3>6, <3>7 DEF b
  <2> QED BY <2>2, <2>3, <2>4
<1> QED BY <1>4, <1>5

\* The two recursions along a line.
SlidAlong(row, f) ==
    /\ f \in [0..SIZE -> Sliding(Nat)] /\ f[0] = NoneYet
    /\ \A i \in 1..SIZE : f[i] = IF row[i] = 0 THEN f[i - 1] ELSE JoinValue(f[i - 1], row[i])
KeptAlong(line, f) ==
    /\ f \in [0..SIZE -> Sliding(TileRec)] /\ f[0] = NoneYet
    /\ \A i \in 1..SIZE : f[i] = IF line[i] = {} THEN f[i - 1] ELSE Keep(f[i - 1], TileAt(line, i))

LEMMA JoinTyped ==
    ASSUME NEW a \in Sliding(Nat), NEW v \in Nat
    PROVE  JoinValue(a, v) \in Sliding(Nat)
<1> DEFINE n == Len(a.line)
<1>1. a.line \in Seq(Nat) /\ n \in Nat /\ a.free \in BOOLEAN /\ a.gained \in Nat /\ (a.free => n > 0)
  BY DEF Sliding
<1>2. CASE a.free /\ a.line[n] = v
  <2> DEFINE s == [a.line EXCEPT ![n] = 2 * v]
  <2>1. s \in Seq(Nat) /\ 2 * v \in Nat /\ a.gained + 2 * v \in Nat
    BY <1>1, <1>2
  <2>2. JoinValue(a, v) = [line |-> s, free |-> FALSE, gained |-> a.gained + 2 * v]
    BY <1>2 DEF JoinValue
  <2> HIDE DEF s
  <2> QED BY <2>1, <2>2 DEF Sliding
<1>3. CASE ~(a.free /\ a.line[n] = v)
  <2> DEFINE s == Append(a.line, v)
  <2>1. s \in Seq(Nat) /\ Len(s) > 0
    BY <1>1
  <2>2. JoinValue(a, v) = [line |-> s, free |-> TRUE, gained |-> a.gained]
    BY <1>3 DEF JoinValue
  <2> HIDE DEF s
  <2> QED BY <1>1, <2>1, <2>2 DEF Sliding
<1> QED BY <1>2, <1>3

LEMMA SlideRuns ==
    ASSUME NEW row \in [Index -> Nat]
    PROVE  \E f : SlidAlong(row, f)
<1> DEFINE S == Sliding(Nat)
           go(i, a) == IF i = 0 \/ row[i] = 0 THEN a ELSE JoinValue(a, row[i])
           step == [i \in 0..SIZE |-> [a \in S |-> go(i, a)]]
<1>1. SIZE \in Nat /\ \A i \in 1..SIZE : i \in Index /\ i # 0 /\ i \in 0..SIZE /\ i - 1 \in 0..SIZE
  BY TilesAssumption DEF Index
<1>2. step \in [0..SIZE -> [S -> S]]
  <2>1. ASSUME NEW i \in 0..SIZE, NEW a \in S PROVE go(i, a) \in S
    <3>1. CASE i = 0 \/ row[i] = 0
      BY <3>1
    <3>2. CASE ~(i = 0 \/ row[i] = 0)
      <4>1. i \in Index
        BY <1>1, <3>2 DEF Index
      <4>2. row[i] \in Nat
        BY <4>1
      <4> QED BY <3>2, <4>2, JoinTyped
    <3> QED BY <3>1, <3>2
  <2> HIDE DEF go, S
  <2> QED BY <2>1
<1>3. NoneYet \in S
  BY NoneYetTyped
<1>4. \A i \in 1..SIZE : \A a \in S : step[i][a] = go(i, a)
  BY <1>1
<1> SUFFICES \E f : /\ f \in [0..SIZE -> S] /\ f[0] = NoneYet
                    /\ \A i \in 1..SIZE : f[i] = go(i, f[i - 1])
  BY <1>1 DEF SlidAlong
<1> HIDE DEF step, S, go
<1>5. PICK f : Runs(f, SIZE, S, NoneYet, step)
  BY <1>1, <1>2, <1>3, Recursion
<1>6. f \in [0..SIZE -> S] /\ f[0] = NoneYet /\ \A i \in 1..SIZE : f[i] = step[i][f[i - 1]]
  BY <1>5 DEF Runs
<1>7. \A i \in 1..SIZE : f[i - 1] \in S
  BY <1>1, <1>6
<1> QED BY <1>4, <1>6, <1>7

LEMMA KeepRuns ==
    ASSUME NEW line \in Lines
    PROVE  \E f : KeptAlong(line, f)
<1> DEFINE S == Sliding(TileRec)
           go(i, a) == IF i = 0 \/ line[i] = {} THEN a ELSE Keep(a, TileAt(line, i))
           step == [i \in 0..SIZE |-> [a \in S |-> go(i, a)]]
<1>1. SIZE \in Nat /\ \A i \in 1..SIZE : i \in Index /\ i # 0 /\ i \in 0..SIZE /\ i - 1 \in 0..SIZE
  BY TilesAssumption DEF Index
<1>2. step \in [0..SIZE -> [S -> S]]
  <2>1. ASSUME NEW i \in 0..SIZE, NEW a \in S PROVE go(i, a) \in S
    <3>1. CASE i = 0 \/ line[i] = {}
      BY <3>1
    <3>2. CASE ~(i = 0 \/ line[i] = {})
      <4>1. i \in Index
        BY <1>1, <3>2 DEF Index
      <4>2. TileAt(line, i) \in TileRec
        BY <3>2, <4>1, TileAtTyped
      <4> QED BY <3>2, <4>2, KeepIs
    <3> QED BY <3>1, <3>2
  <2> HIDE DEF go, S
  <2> QED BY <2>1
<1>3. NoneYet \in S
  BY NoneYetTyped
<1>4. \A i \in 1..SIZE : \A a \in S : step[i][a] = go(i, a)
  BY <1>1
<1> SUFFICES \E f : /\ f \in [0..SIZE -> S] /\ f[0] = NoneYet
                    /\ \A i \in 1..SIZE : f[i] = go(i, f[i - 1])
  BY <1>1 DEF KeptAlong
<1> HIDE DEF step, S, go
<1>5. PICK f : Runs(f, SIZE, S, NoneYet, step)
  BY <1>1, <1>2, <1>3, Recursion
<1>6. f \in [0..SIZE -> S] /\ f[0] = NoneYet /\ \A i \in 1..SIZE : f[i] = step[i][f[i - 1]]
  BY <1>5 DEF Runs
<1>7. \A i \in 1..SIZE : f[i - 1] \in S
  BY <1>1, <1>6
<1> QED BY <1>4, <1>6, <1>7

\* What has such a recurrence is what the definition chooses, and has it.
LEMMA SlideIs ==
    ASSUME NEW row \in [Index -> Nat]
    PROVE  \E f : /\ SlidAlong(row, f)
                  /\ slideLine(row) =
                        [line |-> Tuple([i \in Index |-> IF i <= Len(f[SIZE].line) THEN f[SIZE].line[i] ELSE 0]),
                         gained |-> f[SIZE].gained]
<1> DEFINE d(f, i) == IF i = 0 THEN NoneYet ELSE IF row[i] = 0 THEN f[i - 1] ELSE JoinValue(f[i - 1], row[i])
           Solves(f) == f = [i \in 0..SIZE |-> d(f, i)]
           joined == CHOOSE f : Solves(f)
<1>1. SIZE \in Nat /\ 0 \in 0..SIZE /\ \A i \in 0..SIZE : i = 0 \/ i \in 1..SIZE
  BY TilesAssumption
<1>1a. \A i \in 1..SIZE : i \in 0..SIZE /\ i # 0 /\ i - 1 \in 0..SIZE /\ i \in Index
  BY <1>1 DEF Index
<1>2. \E f : Solves(f)
  <2>1. PICK f : SlidAlong(row, f)
    BY SlideRuns
  <2>2. f = [i \in 0..SIZE |-> f[i]]
    BY <2>1 DEF SlidAlong
  <2>3. \A i \in 0..SIZE : f[i] = d(f, i)
    BY <1>1, <1>1a, <2>1 DEF SlidAlong
  <2> HIDE DEF d
  <2> QED BY <2>2, <2>3
<1>3. Solves(joined)
  <2> HIDE DEF Solves
  <2> QED BY <1>2
<1>4. slideLine(row) =
          [line |-> Tuple([i \in Index |-> IF i <= Len(joined[SIZE].line) THEN joined[SIZE].line[i] ELSE 0]),
           gained |-> joined[SIZE].gained]
  BY DEF slideLine
<1> HIDE DEF joined
<1>5. joined = [i \in 0..SIZE |-> joined[i]] /\ \A i \in 0..SIZE : joined[i] = d(joined, i)
  <2> HIDE DEF d
  <2> QED BY <1>3
<1>6. \A i \in 1..SIZE : joined[i] = IF row[i] = 0 THEN joined[i - 1] ELSE JoinValue(joined[i - 1], row[i])
  BY <1>1a, <1>5
<1>7. joined[0] = NoneYet
  BY <1>1, <1>5
<1>8. \A i \in 0..SIZE : joined[i] \in Sliding(Nat)
  <2> DEFINE T == {i \in 0..SIZE : joined[i] \in Sliding(Nat)}
  <2>1. 0 \in T
    BY <1>1, <1>7, NoneYetTyped
  <2>2. ASSUME NEW i \in 0..SIZE, i \in T, i < SIZE PROVE i + 1 \in T
    <3>1. i + 1 \in 1..SIZE /\ i + 1 - 1 = i /\ i + 1 \in 0..SIZE /\ i + 1 \in Index
      BY <1>1, <2>2 DEF Index
    <3> DEFINE k == i + 1
    <3>2. row[k] \in Nat /\ joined[k - 1] \in Sliding(Nat) /\ k \in 1..SIZE
      BY <2>2, <3>1
    <3> HIDE DEF k
    <3>3. joined[k] = IF row[k] = 0 THEN joined[k - 1] ELSE JoinValue(joined[k - 1], row[k])
      BY <1>6, <3>2
    <3>4. joined[k] \in Sliding(Nat)
      BY <3>2, <3>3, JoinTyped
    <3> QED BY <3>1, <3>4 DEF k
  <2>3. 0..SIZE \subseteq T
    <3> HIDE DEF T
    <3> QED BY <1>1, <2>1, <2>2, Counting
  <2> QED BY <2>3
<1>9. SlidAlong(row, joined)
  BY <1>5, <1>6, <1>7, <1>8 DEF SlidAlong
<1> QED BY <1>4, <1>9

LEMMA KeptIs ==
    ASSUME NEW line \in Lines
    PROVE  \E f : KeptAlong(line, f) /\ Kept(line) = f[SIZE]
<1> DEFINE d(f, i) == IF i = 0 THEN NoneYet
                      ELSE IF line[i] = {} THEN f[i - 1] ELSE Keep(f[i - 1], TheTile(line[i]))
           Solves(f) == f = [i \in 0..SIZE |-> d(f, i)]
           kept == CHOOSE f : Solves(f)
<1>1. SIZE \in Nat /\ 0 \in 0..SIZE /\ \A i \in 0..SIZE : i = 0 \/ i \in 1..SIZE
  BY TilesAssumption
<1>1a. \A i \in 1..SIZE : i \in 0..SIZE /\ i # 0 /\ i - 1 \in 0..SIZE /\ i \in Index
  BY <1>1 DEF Index
<1>2. \E f : Solves(f)
  <2>1. PICK f : KeptAlong(line, f)
    BY KeepRuns
  <2>2. f = [i \in 0..SIZE |-> f[i]]
    BY <2>1 DEF KeptAlong
  <2>3. \A i \in 0..SIZE : f[i] = d(f, i)
    BY <1>1, <1>1a, <2>1 DEF KeptAlong, TileAt
  <2> HIDE DEF d
  <2> QED BY <2>2, <2>3
<1>3. Solves(kept)
  <2> HIDE DEF Solves
  <2> QED BY <1>2
<1>4. Kept(line) = kept[SIZE]
  BY DEF Kept
<1> HIDE DEF kept
<1>5. kept = [i \in 0..SIZE |-> kept[i]] /\ \A i \in 0..SIZE : kept[i] = d(kept, i)
  <2> HIDE DEF d
  <2> QED BY <1>3
<1>6. \A i \in 1..SIZE : kept[i] = IF line[i] = {} THEN kept[i - 1] ELSE Keep(kept[i - 1], TileAt(line, i))
  BY <1>1a, <1>5 DEF TileAt
<1>7. kept[0] = NoneYet
  BY <1>1, <1>5
<1>8. \A i \in 0..SIZE : kept[i] \in Sliding(TileRec)
  <2> DEFINE T == {i \in 0..SIZE : kept[i] \in Sliding(TileRec)}
  <2>1. 0 \in T
    BY <1>1, <1>7, NoneYetTyped
  <2>2. ASSUME NEW i \in 0..SIZE, i \in T, i < SIZE PROVE i + 1 \in T
    <3>1. i + 1 \in 1..SIZE /\ i + 1 - 1 = i /\ i + 1 \in 0..SIZE /\ i + 1 \in Index
      BY <1>1, <2>2 DEF Index
    <3> DEFINE k == i + 1
    <3>2. k \in Index /\ kept[k - 1] \in Sliding(TileRec) /\ k \in 1..SIZE
      BY <2>2, <3>1
    <3> HIDE DEF k
    <3>3. kept[k] = IF line[k] = {} THEN kept[k - 1] ELSE Keep(kept[k - 1], TileAt(line, k))
      BY <1>6, <3>2
    <3>4. kept[k] \in Sliding(TileRec)
      BY <3>2, <3>3, KeepIs, TileAtTyped
    <3> QED BY <3>1, <3>4 DEF k
  <2>3. 0..SIZE \subseteq T
    <3> HIDE DEF T
    <3> QED BY <1>1, <2>1, <2>2, Counting
  <2> QED BY <2>3
<1>9. KeptAlong(line, kept)
  BY <1>5, <1>6, <1>7, <1>8 DEF KeptAlong
<1> QED BY <1>4, <1>9

LEMMA KeptInv ==
    ASSUME NEW line \in Lines, NEW f, KeptAlong(line, f)
    PROVE  \A i \in 0..SIZE : Short(line, f[i], i) /\ Owned(line, f[i], i) /\ LastPassed(line, f[i], i)
<1> DEFINE Inv(i) == Short(line, f[i], i) /\ Owned(line, f[i], i) /\ LastPassed(line, f[i], i)
           T == {i \in 0..SIZE : Inv(i)}
<1>1. SIZE \in Nat /\ 0 \in 0..SIZE
  BY TilesAssumption
<1>2. 0 \in T
  <2>1. f[0].line = <<>> /\ Len(<<>>) = 0 /\ \A i \in 1..0 : FALSE
    BY DEF KeptAlong, NoneYet
  <2>2. Short(line, f[0], 0)
    BY <2>1 DEF Short, Whole
  <2>3. Owned(line, f[0], 0) /\ LastPassed(line, f[0], 0)
    BY <2>1 DEF Owned, LastPassed
  <2> QED BY <1>1, <2>2, <2>3
<1>3. ASSUME NEW n \in 0..SIZE, n \in T, n < SIZE PROVE n + 1 \in T
  <2> DEFINE i == n + 1
  <2>1. i \in 1..SIZE /\ i - 1 = n /\ i \in 0..SIZE /\ i \in Index
    BY <1>1, <1>3 DEF Index
  <2>2. Inv(i - 1) /\ f[i - 1] \in Sliding(TileRec)
    BY <1>3, <2>1 DEF KeptAlong
  <2> HIDE DEF i
  <2>3. f[i] = IF line[i] = {} THEN f[i - 1] ELSE Keep(f[i - 1], TileAt(line, i))
    BY <2>1 DEF KeptAlong
  <2>4. Short(line, f[i], i)
    BY <2>1, <2>2, <2>3, ShortKept
  <2>5. Owned(line, f[i], i) /\ LastPassed(line, f[i], i)
    BY <2>1, <2>2, <2>3, OwnedKept
  <2> QED BY <2>1, <2>4, <2>5 DEF i
<1>4. 0..SIZE \subseteq T
  <2> HIDE DEF T
  <2> QED BY <1>1, <1>2, <1>3, Counting
<1> QED BY <1>4

\* Slots that are empty change nothing.
LEMMA KeptTail ==
    ASSUME NEW line \in Lines, NEW f, KeptAlong(line, f), NEW m \in 0..SIZE,
           \A j \in m + 1..SIZE : line[j] = {}
    PROVE  f[SIZE] = f[m]
<1> DEFINE T == {i \in 0..SIZE : i >= m => f[i] = f[m]}
<1>1. SIZE \in Nat /\ m \in Nat
  BY TilesAssumption
<1>2. 0 \in T
  BY <1>1
<1>3. ASSUME NEW n \in 0..SIZE, n \in T, n < SIZE PROVE n + 1 \in T
  <2> DEFINE i == n + 1
  <2>1. i \in 1..SIZE /\ i - 1 = n /\ i \in 0..SIZE
    BY <1>1, <1>3
  <2>2. CASE i > m
    <3>1. i \in m + 1..SIZE /\ n >= m
      BY <1>1, <2>1, <2>2
    <3>2. f[n] = f[m] /\ line[i] = {}
      BY <1>3, <3>1
    <3> HIDE DEF i
    <3>3. f[i] = f[i - 1]
      BY <2>1, <3>2 DEF KeptAlong
    <3> QED BY <2>1, <3>2, <3>3 DEF i
  <2>3. CASE ~(i > m)
    <3>1. i = m \/ ~(i >= m)
      BY <1>1, <2>1, <2>3
    <3> QED BY <2>1, <3>1
  <2> QED BY <2>2, <2>3
<1>4. 0..SIZE \subseteq T
  <2> HIDE DEF T
  <2> QED BY <1>1, <1>2, <1>3, Counting
<1> QED BY <1>1, <1>4

\* The values of a line, 0 for a slot without a tile.
ShowsValues(row, line) ==
    row \in [Index -> Nat] /\ \A i \in Index : row[i] = IF line[i] = {} THEN 0 ELSE TileAt(line, i).value

LEMMA AlongAlike ==
    ASSUME NEW line \in Lines, NEW row, ShowsValues(row, line), NEW f, KeptAlong(line, f), NEW g, SlidAlong(row, g)
    PROVE  Alike(g[SIZE], f[SIZE])
<1> DEFINE T == {i \in 0..SIZE : Alike(g[i], f[i])}
<1>1. SIZE \in Nat /\ 0 \in 0..SIZE
  BY TilesAssumption
<1>2. 0 \in T
  <2>1. Alike(NoneYet, NoneYet)
    BY DEF Alike, NoneYet
  <2> QED BY <1>1, <2>1 DEF KeptAlong, SlidAlong
<1>3. ASSUME NEW n \in 0..SIZE, n \in T, n < SIZE PROVE n + 1 \in T
  <2> DEFINE i == n + 1
  <2>1. i \in 1..SIZE /\ i - 1 = n /\ i \in 0..SIZE /\ i \in Index
    BY <1>1, <1>3 DEF Index
  <2>2. Alike(g[i - 1], f[i - 1]) /\ f[i - 1] \in Sliding(TileRec) /\ g[i - 1] \in Sliding(Nat)
    BY <1>3, <2>1 DEF KeptAlong, SlidAlong
  <2> HIDE DEF i
  <2>3. /\ f[i] = IF line[i] = {} THEN f[i - 1] ELSE Keep(f[i - 1], TileAt(line, i))
        /\ g[i] = IF row[i] = 0 THEN g[i - 1] ELSE JoinValue(g[i - 1], row[i])
    BY <2>1 DEF KeptAlong, SlidAlong
  <2>4. CASE line[i] = {}
    <3>1. row[i] = 0
      BY <2>1, <2>4 DEF ShowsValues
    <3>2. Alike(g[i], f[i])
      BY <2>2, <2>3, <2>4, <3>1
    <3> QED BY <2>1, <3>2 DEF i
  <2>5. CASE line[i] # {}
    <3>1. TileAt(line, i) \in TileRec
      BY <2>1, <2>5, TileAtTyped
    <3>2. row[i] = TileAt(line, i).value /\ TileAt(line, i).value # 0
      BY <2>1, <2>5, <3>1 DEF ShowsValues, TileRec
    <3>3. Alike(g[i], f[i])
      BY <2>2, <2>3, <2>5, <3>1, <3>2, JoinAlike
    <3> QED BY <2>1, <3>3 DEF i
  <2> QED BY <2>4, <2>5
<1>4. 0..SIZE \subseteq T
  <2> HIDE DEF T
  <2> QED BY <1>1, <1>2, <1>3, Counting
<1> QED BY <1>1, <1>4

LEMMA TupleIs ==
    ASSUME NEW S, NEW f \in [Index -> S]
    PROVE  Tuple(f) = f
<1>1. SIZE \in Nat /\ Index = 1..SIZE
  BY TilesAssumption DEF Index
<1>2. f \in Seq(S)
  BY <1>1
<1> QED BY <1>2, ConcatEmptySeq DEF Tuple

\* What a line slides to, in both layers: the values of the tiles kept and zeros after
\* them, with the same gain.  A row that stays as it is keeps its tiles in their slots.
LEMMA LineSlides ==
    ASSUME NEW line \in Lines, NEW row, ShowsValues(row, line)
    PROVE  LET k == Kept(line)
               s == slideLine(row)
               n == Len(k.line)
           IN  /\ k \in Sliding(TileRec) /\ Short(line, k, SIZE) /\ Owned(line, k, SIZE) /\ LastPassed(line, k, SIZE)
               /\ s.gained = k.gained /\ s.line \in [Index -> Nat]
               /\ \A i \in Index : s.line[i] = IF i <= n THEN k.line[i].value ELSE 0
               /\ s.line = row => \A j \in 1..n : line[j] # {} /\ k.line[j] = TileAt(line, j)
<1> DEFINE k == Kept(line)
           s == slideLine(row)
           n == Len(k.line)
<1>1. SIZE \in Nat /\ Index = 1..SIZE /\ SIZE \in 0..SIZE
  BY TilesAssumption DEF Index
<1>2. PICK f : KeptAlong(line, f) /\ k = f[SIZE]
  BY KeptIs
<1>3. PICK g : /\ SlidAlong(row, g)
               /\ s = [line |-> Tuple([i \in Index |-> IF i <= Len(g[SIZE].line) THEN g[SIZE].line[i] ELSE 0]),
                       gained |-> g[SIZE].gained]
  BY SlideIs DEF ShowsValues
<1> HIDE DEF k, s
<1>4. k \in Sliding(TileRec) /\ Short(line, k, SIZE) /\ Owned(line, k, SIZE) /\ LastPassed(line, k, SIZE)
  BY <1>1, <1>2, KeptInv DEF KeptAlong
<1>5. Alike(g[SIZE], k) /\ g[SIZE] \in Sliding(Nat)
  BY <1>1, <1>2, <1>3, AlongAlike DEF SlidAlong
<1>6. k.line \in Seq(TileRec) /\ n \in Nat /\ n <= SIZE
  BY <1>4 DEF Sliding, Short
<1>7. s.gained = k.gained
  BY <1>3, <1>5 DEF Alike
<1> DEFINE q == g[SIZE].line
           p == [i \in Index |-> IF i <= Len(q) THEN q[i] ELSE 0]
<1>8. q \in Seq(Nat) /\ Len(q) = n /\ \A j \in 1..n : q[j] = k.line[j].value
  BY <1>5 DEF Alike, Sliding
<1>9. p \in [Index -> Nat] /\ s.line = p
  <2>1. s.line = Tuple(p)
    BY <1>3
  <2>2. p \in [Index -> Nat]
    <3> HIDE DEF q
    <3> QED BY <1>1, <1>6, <1>8
  <2> HIDE DEF p
  <2> QED BY <2>1, <2>2, TupleIs
<1>10. \A i \in Index : s.line[i] = IF i <= n THEN k.line[i].value ELSE 0
  <2> HIDE DEF q
  <2> QED BY <1>1, <1>6, <1>8, <1>9
<1>11. ASSUME s.line = row PROVE \A j \in 1..n : line[j] # {} /\ k.line[j] = TileAt(line, j)
  <2>1. \A j \in 1..n : k.line[j] \in TileRec /\ k.line[j].value # 0
    <3>1. \A t \in TileRec : t.value # 0
      BY DEF TileRec
    <3>2. \A j \in 1..n : k.line[j] \in TileRec
      BY <1>6
    <3> QED BY <3>1, <3>2
  <2>2. \A i \in Index : line[i] # {} <=> i <= n
    <3> TAKE i \in Index
    <3>1. row[i] = 0 <=> line[i] = {}
      <4>1. line[i] # {} => TileAt(line, i).value # 0
        BY TileAtTyped DEF TileRec
      <4> QED BY <4>1 DEF ShowsValues
    <3>2. row[i] = IF i <= n THEN k.line[i].value ELSE 0
      BY <1>10, <1>11
    <3>3. i <= n => i \in 1..n
      BY <1>1, <1>6
    <3> QED BY <2>1, <3>1, <3>2, <3>3
  <2>3. n \in 0..SIZE /\ \A j \in n + 1..SIZE : line[j] = {}
    BY <1>1, <1>6, <2>2
  <2>4. k = f[n]
    <3> HIDE DEF n
    <3> QED BY <1>2, <2>3, KeptTail
  <2>5. Short(line, f[n], n)
    <3> HIDE DEF n
    <3> QED BY <1>2, <2>3, KeptInv
  <2>6. Short(line, k, n)
    BY <2>4, <2>5
  <2>7. \A j \in 1..n : k.line[j] = TileAt(line, j)
    <3> HIDE DEF k
    <3> QED BY <2>6 DEF Short
  <2> QED BY <1>1, <1>6, <2>2, <2>7
<1> QED BY <1>4, <1>7, <1>9, <1>10, <1>11 DEF k, s

-----------------------------------------------------------------------------
(* The board and its lines.                                                *)

Boards == [Index -> [Index -> Nat]]
\* The row of the normalised board that line k becomes.
RowOf(d, k) == IF d = "up" THEN FromEnd(k) ELSE k

LEMMA FromEndIs == ASSUME NEW i \in Index PROVE FromEnd(i) \in Index /\ FromEnd(FromEnd(i)) = i
BY TilesAssumption DEF FromEnd, Index

LEMMA CellIs ==
    ASSUME NEW k, NEW s
    PROVE  /\ Cell("left", k, s) = <<k, s>>
           /\ Cell("right", k, s) = <<k, FromEnd(s)>>
           /\ Cell("up", k, s) = <<s, k>>
           /\ Cell("down", k, s) = <<FromEnd(s), k>>
BY DEF Cell, Horizontal, Backward

\* The slots of the lines are the cells of the board, each once.
LEMMA CellTyped ==
    ASSUME NEW d \in Directions, NEW k \in Index, NEW s \in Index
    PROVE  Cell(d, k, s) \in Index \X Index /\ Cell(d, k, s) = <<Cell(d, k, s)[1], Cell(d, k, s)[2]>>
<1>1. \A x, y \in Index : <<x, y>> \in Index \X Index /\ <<x, y>> = <<<<x, y>>[1], <<x, y>>[2]>>
  OBVIOUS
<1>2. CASE d = "left"
  BY <1>1, <1>2, CellIs
<1>3. CASE d = "right"
  BY <1>1, <1>3, CellIs, FromEndIs
<1>4. CASE d = "up"
  BY <1>1, <1>4, CellIs
<1>5. CASE d = "down"
  BY <1>1, <1>5, CellIs, FromEndIs
<1> QED BY <1>2, <1>3, <1>4, <1>5 DEF Directions

LEMMA CellOnce ==
    ASSUME NEW d \in Directions, NEW k \in Index, NEW s \in Index, NEW l \in Index, NEW u \in Index,
           Cell(d, k, s) = Cell(d, l, u)
    PROVE  k = l /\ s = u
<1>1. FromEnd(s) = FromEnd(u) => s = u
  BY FromEndIs
<1>2. \A w, x, y, z : <<w, x>> = <<y, z>> => w = y /\ x = z
  OBVIOUS
<1>3. CASE d = "left"
  BY <1>2, <1>3, CellIs
<1>4. CASE d = "right"
  BY <1>1, <1>2, <1>4, CellIs
<1>5. CASE d = "up"
  BY <1>2, <1>5, CellIs
<1>6. CASE d = "down"
  BY <1>1, <1>2, <1>6, CellIs
<1> QED BY <1>3, <1>4, <1>5, <1>6 DEF Directions

LEMMA CellEach ==
    ASSUME NEW d \in Directions, NEW r \in Index, NEW c \in Index
    PROVE  \E k, s \in Index : Cell(d, k, s) = <<r, c>>
<1>1. FromEnd(r) \in Index /\ FromEnd(FromEnd(r)) = r /\ FromEnd(c) \in Index /\ FromEnd(FromEnd(c)) = c
  BY FromEndIs
<1>2. CASE d = "left"
  BY <1>2, CellIs
<1>3. CASE d = "right"
  <2>1. Cell(d, r, FromEnd(c)) = <<r, c>>
    BY <1>1, <1>3, CellIs
  <2> QED BY <1>1, <2>1
<1>4. CASE d = "up"
  BY <1>4, CellIs
<1>5. CASE d = "down"
  <2>1. Cell(d, c, FromEnd(r)) = <<r, c>>
    BY <1>1, <1>5, CellIs
  <2> QED BY <1>1, <2>1
<1> QED BY <1>2, <1>3, <1>4, <1>5 DEF Directions

LEMMA GridIs ==
    ASSUME NEW board \in Boards
    PROVE  Tuple([r \in Index |-> Tuple(board[r])]) = board
<1>1. \A r \in Index : Tuple(board[r]) = board[r]
  <2> TAKE r \in Index
  <2>1. board[r] \in [Index -> Nat]
    BY DEF Boards
  <2> QED BY <2>1, TupleIs
<1>2. [r \in Index |-> Tuple(board[r])] = board
  BY <1>1 DEF Boards
<1> QED BY <1>2, TupleIs DEF Boards

LEMMA RotateIs ==
    ASSUME NEW board \in Boards
    PROVE  rotate(board) \in Boards /\ \A a, b \in Index : rotate(board)[a][b] = board[FromEnd(b)][a]
<1> DEFINE turned == [c \in Index |-> [r \in Index |-> board[FromEnd(r)][c]]]
<1>1. turned \in Boards
  BY FromEndIs DEF Boards
<1>2. rotate(board) = Tuple([c \in Index |-> Tuple(turned[c])])
  BY DEF rotate
<1>3. \A a, b \in Index : turned[a][b] = board[FromEnd(b)][a]
  OBVIOUS
<1> HIDE DEF turned
<1> QED BY <1>1, <1>2, <1>3, GridIs

LEMMA MirroredIs ==
    ASSUME NEW board \in Boards
    PROVE  Mirrored(board) \in Boards /\ \A a, b \in Index : Mirrored(board)[a][b] = board[a][FromEnd(b)]
<1> DEFINE turned == [r \in Index |-> [c \in Index |-> board[r][FromEnd(c)]]]
<1>1. turned \in Boards
  BY FromEndIs DEF Boards
<1>2. Mirrored(board) = Tuple([r \in Index |-> Tuple(turned[r])])
  BY DEF Mirrored
<1>3. \A a, b \in Index : turned[a][b] = board[a][FromEnd(b)]
  OBVIOUS
<1> HIDE DEF turned
<1> QED BY <1>1, <1>2, <1>3, GridIs

LEMMA ThriceIs ==
    ASSUME NEW board \in Boards
    PROVE  /\ rotate(rotate(rotate(board))) \in Boards
           /\ \A a, b \in Index : rotate(rotate(rotate(board)))[a][b] = board[b][FromEnd(a)]
<1> DEFINE one == rotate(board)
           two == rotate(one)
           three == rotate(two)
<1>1. one \in Boards /\ \A a, b \in Index : one[a][b] = board[FromEnd(b)][a]
  BY RotateIs
<1> HIDE DEF one
<1>2. two \in Boards /\ \A a, b \in Index : two[a][b] = one[FromEnd(b)][a]
  BY <1>1, RotateIs
<1> HIDE DEF two
<1>3. three \in Boards /\ \A a, b \in Index : three[a][b] = two[FromEnd(b)][a]
  BY <1>2, RotateIs
<1> HIDE DEF three
<1>4. ASSUME NEW a \in Index, NEW b \in Index PROVE three[a][b] = board[b][FromEnd(a)]
  <2>1. FromEnd(a) \in Index /\ FromEnd(b) \in Index /\ FromEnd(FromEnd(b)) = b
    BY FromEndIs
  <2>2. three[a][b] = two[FromEnd(b)][a]
    BY <1>3
  <2>3. two[FromEnd(b)][a] = one[FromEnd(a)][FromEnd(b)]
    BY <1>2, <2>1
  <2>4. one[FromEnd(a)][FromEnd(b)] = board[FromEnd(FromEnd(b))][FromEnd(a)]
    BY <1>1, <2>1
  <2> QED BY <2>1, <2>2, <2>3, <2>4
<1> QED BY <1>3, <1>4 DEF one, two, three

LEMMA NormalisedIs ==
    ASSUME NEW board \in Boards, NEW d \in Directions
    PROVE  /\ Normalised(board, d) \in Boards
           /\ \A k, s \in Index : /\ RowOf(d, k) \in Index
                                  /\ Normalised(board, d)[RowOf(d, k)][s] = board[Cell(d, k, s)[1]][Cell(d, k, s)[2]]
<1>1. \A k, s : <<k, s>>[1] = k /\ <<k, s>>[2] = s
  OBVIOUS
<1>2. CASE d = "left"
  BY <1>1, <1>2, CellIs DEF Normalised, RowOf
<1>3. CASE d = "right"
  <2>1. Normalised(board, d) = Mirrored(board) /\ \A k : RowOf(d, k) = k
    BY <1>3 DEF Normalised, RowOf
  <2> QED BY <1>1, <1>3, <2>1, CellIs, MirroredIs
<1>4. CASE d = "up"
  <2>1. Normalised(board, d) = rotate(rotate(rotate(board))) /\ \A k : RowOf(d, k) = FromEnd(k)
    BY <1>4 DEF Normalised, RowOf
  <2>2. ASSUME NEW k \in Index, NEW s \in Index
        PROVE  /\ FromEnd(k) \in Index
               /\ rotate(rotate(rotate(board)))[FromEnd(k)][s] = board[s][k]
    BY FromEndIs, ThriceIs
  <2> QED BY <1>1, <1>4, <2>1, <2>2, CellIs, ThriceIs
<1>5. CASE d = "down"
  <2>1. Normalised(board, d) = rotate(board) /\ \A k : RowOf(d, k) = k
    BY <1>5 DEF Normalised, RowOf
  <2> QED BY <1>1, <1>5, <2>1, CellIs, RotateIs
<1> QED BY <1>2, <1>3, <1>4, <1>5 DEF Directions

LEMMA RestoredIs ==
    ASSUME NEW lines \in Boards, NEW d \in Directions
    PROVE  /\ Restored(lines, d) \in Boards
           /\ \A k, s \in Index : Restored(lines, d)[Cell(d, k, s)[1]][Cell(d, k, s)[2]] = lines[RowOf(d, k)][s]
<1>1. \A k, s : <<k, s>>[1] = k /\ <<k, s>>[2] = s
  OBVIOUS
<1>2. CASE d = "left"
  BY <1>1, <1>2, CellIs DEF Restored, RowOf
<1>3. CASE d = "right"
  <2>1. Restored(lines, d) = Mirrored(lines) /\ \A k : RowOf(d, k) = k
    BY <1>3 DEF Restored, RowOf
  <2>2. \A k, s \in Index : Mirrored(lines)[k][FromEnd(s)] = lines[k][s]
    BY FromEndIs, MirroredIs
  <2> QED BY <1>1, <1>3, <2>1, <2>2, CellIs, MirroredIs
<1>4. CASE d = "up"
  <2>1. Restored(lines, d) = rotate(lines) /\ \A k : RowOf(d, k) = FromEnd(k)
    BY <1>4 DEF Restored, RowOf
  <2> QED BY <1>1, <1>4, <2>1, CellIs, RotateIs
<1>5. CASE d = "down"
  <2>1. Restored(lines, d) = rotate(rotate(rotate(lines))) /\ \A k : RowOf(d, k) = k
    BY <1>5 DEF Restored, RowOf
  <2>2. \A k, s \in Index : rotate(rotate(rotate(lines)))[FromEnd(s)][k] = lines[k][s]
    BY FromEndIs, ThriceIs
  <2> QED BY <1>1, <1>5, <2>1, <2>2, CellIs, ThriceIs
<1> QED BY <1>2, <1>3, <1>4, <1>5 DEF Directions

\* The gains of the lines, summed up to a line.
TotalAlong(lines, f) ==
    /\ f \in [0..SIZE -> Nat] /\ f[0] = 0
    /\ \A k \in 1..SIZE : f[k] = f[k - 1] + lines[k].gained

LEMMA TotalIs ==
    ASSUME NEW lines, \A k \in Index : lines[k].gained \in Nat
    PROVE  \E f : TotalAlong(lines, f) /\ TotalGain(lines) = f[SIZE]
<1> DEFINE d(f, k) == IF k = 0 THEN 0 ELSE f[k - 1] + lines[k].gained
           Solves(f) == f = [k \in 0..SIZE |-> d(f, k)]
           sum == CHOOSE f : Solves(f)
<1>1. SIZE \in Nat /\ 0 \in 0..SIZE /\ \A i \in 0..SIZE : i = 0 \/ i \in 1..SIZE
  BY TilesAssumption
<1>1a. \A i \in 1..SIZE : i \in 0..SIZE /\ i # 0 /\ i - 1 \in 0..SIZE /\ i \in Index
  BY <1>1 DEF Index
<1>2. \E f : Solves(f)
  <2> DEFINE add(k, n) == IF k = 0 THEN n ELSE n + lines[k].gained
             step == [k \in 0..SIZE |-> [n \in Nat |-> add(k, n)]]
  <2>1. step \in [0..SIZE -> [Nat -> Nat]]
    <3>1. ASSUME NEW k \in 0..SIZE, NEW n \in Nat PROVE add(k, n) \in Nat
      BY <1>1, <1>1a
    <3> HIDE DEF add
    <3> QED BY <3>1
  <2>2. \A k \in 1..SIZE : \A n \in Nat : step[k][n] = add(k, n)
    BY <1>1a
  <2> HIDE DEF step, add
  <2>3. PICK f : Runs(f, SIZE, Nat, 0, step)
    BY <1>1, <2>1, Recursion
  <2>4. f \in [0..SIZE -> Nat] /\ f[0] = 0 /\ \A k \in 1..SIZE : f[k] = step[k][f[k - 1]]
    BY <2>3 DEF Runs
  <2>5. \A k \in 1..SIZE : f[k - 1] \in Nat
    BY <1>1a, <2>4
  <2>6. \A k \in 1..SIZE : f[k] = f[k - 1] + lines[k].gained
    BY <1>1a, <2>2, <2>4, <2>5 DEF add
  <2>7. f = [k \in 0..SIZE |-> f[k]]
    BY <2>4
  <2>8. \A k \in 0..SIZE : f[k] = d(f, k)
    BY <1>1, <1>1a, <2>4, <2>6
  <2> HIDE DEF d
  <2> QED BY <2>7, <2>8
<1>3. Solves(sum)
  <2> HIDE DEF Solves
  <2> QED BY <1>2
<1>4. TotalGain(lines) = sum[SIZE]
  BY DEF TotalGain
<1> HIDE DEF sum
<1>5. sum = [k \in 0..SIZE |-> sum[k]] /\ \A k \in 0..SIZE : sum[k] = d(sum, k)
  <2> HIDE DEF d
  <2> QED BY <1>3
<1>6. sum[0] = 0 /\ \A k \in 1..SIZE : sum[k] = sum[k - 1] + lines[k].gained
  BY <1>1, <1>1a, <1>5
<1>7. \A k \in 0..SIZE : sum[k] \in Nat
  <2> DEFINE T == {k \in 0..SIZE : sum[k] \in Nat}
  <2>1. 0 \in T
    BY <1>1, <1>6
  <2>2. ASSUME NEW n \in 0..SIZE, n \in T, n < SIZE PROVE n + 1 \in T
    <3> DEFINE k == n + 1
    <3>1. k \in 1..SIZE /\ k - 1 = n /\ k \in 0..SIZE /\ k \in Index
      BY <1>1, <2>2 DEF Index
    <3> HIDE DEF k
    <3>2. sum[k] = sum[k - 1] + lines[k].gained /\ sum[k - 1] \in Nat /\ lines[k].gained \in Nat
      BY <1>6, <2>2, <3>1
    <3>3. sum[k] \in Nat
      BY <3>2
    <3> QED BY <3>1, <3>3 DEF k
  <2>3. 0..SIZE \subseteq T
    <3> HIDE DEF T
    <3> QED BY <1>1, <2>1, <2>2, Counting
  <2> QED BY <2>3
<1>8. TotalAlong(lines, sum)
  BY <1>5, <1>6, <1>7 DEF TotalAlong
<1> QED BY <1>4, <1>8

\* The order in which the lines are summed is no matter.
LEMMA TotalSame ==
    ASSUME NEW x, NEW y, \A k \in Index : x[k].gained \in Nat /\ x[k].gained = y[k].gained
    PROVE  TotalGain(x) = TotalGain(y)
<1>1. SIZE \in Nat /\ 0 \in 0..SIZE
  BY TilesAssumption
<1>2. PICK f : TotalAlong(x, f) /\ TotalGain(x) = f[SIZE]
  BY TotalIs
<1>3. PICK g : TotalAlong(y, g) /\ TotalGain(y) = g[SIZE]
  BY TotalIs
<1> DEFINE T == {k \in 0..SIZE : f[k] = g[k]}
<1>4. 0 \in T
  BY <1>1, <1>2, <1>3 DEF TotalAlong
<1>5. ASSUME NEW n \in 0..SIZE, n \in T, n < SIZE PROVE n + 1 \in T
  <2> DEFINE k == n + 1
  <2>1. k \in 1..SIZE /\ k - 1 = n /\ k \in 0..SIZE /\ k \in Index
    BY <1>1, <1>5 DEF Index
  <2> HIDE DEF k
  <2>2. f[k] = g[k]
    BY <1>2, <1>3, <1>5, <2>1 DEF TotalAlong
  <2> QED BY <2>1, <2>2 DEF k
<1>6. 0..SIZE \subseteq T
  <2> HIDE DEF T
  <2> QED BY <1>1, <1>4, <1>5, Counting
<1> QED BY <1>1, <1>2, <1>3, <1>6

LEMMA TotalReversed ==
    ASSUME NEW x, NEW y, \A k \in Index : y[k].gained \in Nat /\ x[k].gained = y[FromEnd(k)].gained
    PROVE  TotalGain(x) = TotalGain(y)
<1>1. SIZE \in Nat /\ 0 \in 0..SIZE
  BY TilesAssumption
<1>2. PICK f : TotalAlong(x, f) /\ TotalGain(x) = f[SIZE]
  BY TotalIs, FromEndIs
<1>3. PICK g : TotalAlong(y, g) /\ TotalGain(y) = g[SIZE]
  BY TotalIs
<1>4. \A k \in 0..SIZE : f[k] \in Nat /\ g[k] \in Nat
  BY <1>2, <1>3 DEF TotalAlong
<1> DEFINE T == {k \in 0..SIZE : f[k] + g[SIZE - k] = g[SIZE]}
<1>5. 0 \in T
  BY <1>1, <1>2, <1>4 DEF TotalAlong
<1>6. ASSUME NEW n \in 0..SIZE, n \in T, n < SIZE PROVE n + 1 \in T
  <2> DEFINE k == n + 1
             l == SIZE - n
  <2>1. /\ k \in 1..SIZE /\ k - 1 = n /\ k \in 0..SIZE /\ k \in Index
        /\ l \in 1..SIZE /\ l - 1 = SIZE - k /\ l \in Index /\ FromEnd(k) = l
        /\ l \in 0..SIZE /\ l - 1 \in 0..SIZE /\ n \in 0..SIZE
    BY <1>1, <1>6 DEF Index, FromEnd
  <2>2. f[n] + g[l] = g[SIZE]
    BY <1>6
  <2> HIDE DEF k, l
  <2>3. f[k] = f[n] + x[k].gained
    BY <1>2, <2>1 DEF TotalAlong
  <2>4. g[l] = g[l - 1] + y[l].gained
    BY <1>3, <2>1 DEF TotalAlong
  <2>5. x[k].gained = y[l].gained /\ y[l].gained \in Nat
    BY <2>1
  <2>6. f[n] \in Nat /\ g[l - 1] \in Nat /\ f[k] \in Nat /\ g[SIZE] \in Nat /\ g[l] \in Nat
    BY <1>1, <1>4, <2>1
  <2>7. f[k] + g[l - 1] = g[SIZE]
    BY <2>2, <2>3, <2>4, <2>5, <2>6
  <2> QED BY <2>1, <2>7 DEF k
<1>7. 0..SIZE \subseteq T
  <2> HIDE DEF T
  <2> QED BY <1>1, <1>5, <1>6, Counting
<1>8. SIZE \in T /\ SIZE - SIZE = 0
  BY <1>1, <1>7
<1>9. f[SIZE] + g[0] = g[SIZE] /\ g[0] = 0 /\ f[SIZE] \in Nat
  BY <1>1, <1>3, <1>4, <1>8 DEF TotalAlong
<1> QED BY <1>2, <1>3, <1>9

-----------------------------------------------------------------------------
(* Tiles on the board.                                                     *)

\* Every tile has an id and a cell of its own.
Placed(ts) ==
    /\ ts \subseteq TileRec
    /\ \A t, u \in ts : t.id = u.id => t = u
    /\ \A t, u \in ts : t.r = u.r /\ t.c = u.c => t = u

LEMMA LineOfIs ==
    ASSUME NEW ts, Placed(ts), NEW d \in Directions, NEW k \in Index
    PROVE  /\ LineOf(ts, d, k) \in Lines
           /\ \A i \in Index : LineOf(ts, d, k)[i] = {t \in ts : <<t.r, t.c>> = Cell(d, k, i)}
           /\ \A i \in Index : LineOf(ts, d, k)[i] # {} =>
                 /\ TileAt(LineOf(ts, d, k), i) \in ts
                 /\ <<TileAt(LineOf(ts, d, k), i).r, TileAt(LineOf(ts, d, k), i).c>> = Cell(d, k, i)
<1> DEFINE line == [i \in Index |-> {t \in ts : <<t.r, t.c>> = Cell(d, k, i)}]
<1>1. line \in [Index -> SUBSET TileRec]
  BY DEF Placed
<1>2. LineOf(ts, d, k) = line
  <2>1. LineOf(ts, d, k) = Tuple(line)
    BY DEF LineOf
  <2> HIDE DEF line
  <2> QED BY <1>1, <2>1, TupleIs
<1>3. \A i \in Index : line[i] = {t \in ts : <<t.r, t.c>> = Cell(d, k, i)}
  OBVIOUS
<1> HIDE DEF line
<1>4. ASSUME NEW i \in Index, line[i] # {}
      PROVE  TileAt(line, i) \in ts /\ <<TileAt(line, i).r, TileAt(line, i).c>> = Cell(d, k, i)
  <2>1. TileAt(line, i) \in line[i]
    BY <1>4 DEF TileAt, TheTile
  <2> QED BY <1>3, <2>1
<1>5. ASSUME NEW i \in Index, NEW j \in Index, line[i] # {}, line[j] # {}, TileAt(line, i).id = TileAt(line, j).id
      PROVE  i = j
  <2>1. TileAt(line, i) = TileAt(line, j)
    BY <1>4, <1>5 DEF Placed
  <2>2. Cell(d, k, i) = Cell(d, k, j)
    BY <1>4, <1>5, <2>1
  <2> QED BY <2>2, CellOnce
<1> QED BY <1>1, <1>2, <1>3, <1>4, <1>5 DEF Lines

LEMMA BoardIs ==
    ASSUME NEW ts, ts \subseteq TileRec
    PROVE  /\ boardFromTiles(ts) \in Boards
           /\ \A r, c \in Index : boardFromTiles(ts)[r][c] = ValueAt(ts, r, c)
<1> DEFINE b == [r \in Index |-> [c \in Index |-> ValueAt(ts, r, c)]]
<1>1. ASSUME NEW r \in Index, NEW c \in Index PROVE ValueAt(ts, r, c) \in Nat
  <2> DEFINE here == {t \in ts : t.r = r /\ t.c = c}
  <2>1. CASE here = {}
    BY <2>1 DEF ValueAt
  <2>2. CASE here # {}
    <3>1. TheTile(here) \in TileRec
      BY <2>2 DEF TheTile
    <3>2. ValueAt(ts, r, c) = TheTile(here).value
      BY <2>2 DEF ValueAt
    <3> QED BY <3>1, <3>2 DEF TileRec
  <2> QED BY <2>1, <2>2
<1>2. b \in Boards
  BY <1>1 DEF Boards
<1>3. boardFromTiles(ts) = Tuple([r \in Index |-> Tuple(b[r])])
  BY DEF boardFromTiles
<1>4. \A r, c \in Index : b[r][c] = ValueAt(ts, r, c)
  OBVIOUS
<1> HIDE DEF b
<1> QED BY <1>2, <1>3, <1>4, GridIs

\* The board shows the tile of a slot in its cell, and so does its normalised row.
LEMMA CellShows ==
    ASSUME NEW ts, Placed(ts), NEW d \in Directions, NEW k \in Index, NEW s \in Index
    PROVE  LET line == LineOf(ts, d, k) IN
           boardFromTiles(ts)[Cell(d, k, s)[1]][Cell(d, k, s)[2]] =
               IF line[s] = {} THEN 0 ELSE TileAt(line, s).value
<1> DEFINE r == Cell(d, k, s)[1]
           c == Cell(d, k, s)[2]
           line == LineOf(ts, d, k)
           board == boardFromTiles(ts)
<1>1. r \in Index /\ c \in Index /\ Cell(d, k, s) = <<r, c>>
  BY CellTyped
<1> HIDE DEF r, c, board
<1>2. {t \in ts : <<t.r, t.c>> = <<r, c>>} = {t \in ts : t.r = r /\ t.c = c}
  OBVIOUS
<1>3. line[s] = {t \in ts : t.r = r /\ t.c = c}
  BY <1>1, <1>2, LineOfIs
<1>4. board[r][c] = ValueAt(ts, r, c)
  BY <1>1, BoardIs DEF Placed, board
<1>5. board[r][c] = IF line[s] = {} THEN 0 ELSE TileAt(line, s).value
  BY <1>3, <1>4 DEF ValueAt, TileAt
<1> QED BY <1>5 DEF r, c, board

LEMMA RowShows ==
    ASSUME NEW ts, Placed(ts), NEW d \in Directions, NEW k \in Index
    PROVE  /\ RowOf(d, k) \in Index
           /\ ShowsValues(Normalised(boardFromTiles(ts), d)[RowOf(d, k)], LineOf(ts, d, k))
<1> DEFINE board == boardFromTiles(ts)
           row == Normalised(board, d)[RowOf(d, k)]
           line == LineOf(ts, d, k)
<1>1. board \in Boards
  BY BoardIs DEF Placed
<1>2. row \in [Index -> Nat] /\ \A s \in Index : row[s] = board[Cell(d, k, s)[1]][Cell(d, k, s)[2]]
  <2> HIDE DEF board
  <2> QED BY <1>1, NormalisedIs DEF Boards
<1>3. RowOf(d, k) \in Index
  BY FromEndIs DEF RowOf
<1> HIDE DEF row
<1>4. \A s \in Index : row[s] = IF line[s] = {} THEN 0 ELSE TileAt(line, s).value
  BY <1>2, CellShows
<1> QED BY <1>2, <1>3, <1>4 DEF ShowsValues, row

-----------------------------------------------------------------------------
(* A move.                                                                 *)

KeptOf(ts, d, k) == Kept(LineOf(ts, d, k))
Slots(ts, d, k) == 1..Len(KeptOf(ts, d, k).line)
\* Where the tile kept in a slot of a line lands.
Landed(ts, d, k, s) == MovedTo(KeptOf(ts, d, k).line[s], Cell(d, k, s))

LEMMA MovedToIs ==
    ASSUME NEW t \in TileRec, NEW cell \in Index \X Index
    PROVE  /\ MovedTo(t, cell) \in TileRec
           /\ MovedTo(t, cell).id = t.id /\ MovedTo(t, cell).value = t.value
           /\ MovedTo(t, cell).r = cell[1] /\ MovedTo(t, cell).c = cell[2]
           /\ t.r = cell[1] /\ t.c = cell[2] => MovedTo(t, cell) = t
BY DEF MovedTo, TileRec

LEMMA LandedIs ==
    ASSUME NEW ts, Placed(ts), NEW d \in Directions, NEW k \in Index, NEW s \in Slots(ts, d, k)
    PROVE  LET t == Landed(ts, d, k, s)
               u == KeptOf(ts, d, k).line[s]
           IN  /\ s \in Index /\ u \in TileRec /\ t \in TileRec
               /\ t.id = u.id /\ t.value = u.value /\ <<t.r, t.c>> = Cell(d, k, s)
               /\ <<u.r, u.c>> = Cell(d, k, s) => t = u
               /\ \E o \in Index : /\ LineOf(ts, d, k)[o] # {}
                                   /\ u.id = TileAt(LineOf(ts, d, k), o).id
<1> DEFINE line == LineOf(ts, d, k)
           a == KeptOf(ts, d, k)
           u == a.line[s]
           t == Landed(ts, d, k, s)
<1>1. line \in Lines /\ \E row : ShowsValues(row, line)
  BY LineOfIs, RowShows
<1>2. a \in Sliding(TileRec) /\ Short(line, a, SIZE) /\ Owned(line, a, SIZE)
  <2> HIDE DEF line
  <2> QED BY <1>1, LineSlides DEF KeptOf, line
<1>3. SIZE \in Nat /\ Index = 1..SIZE /\ s \in 1..Len(a.line)
  BY TilesAssumption DEF Index, Slots
<1> HIDE DEF a, line
<1>4. s \in Index /\ u \in TileRec
  BY <1>2, <1>3 DEF Short, Sliding
<1>5. \E o \in Index : line[o] # {} /\ u.id = TileAt(line, o).id
  BY <1>2, <1>3 DEF Owned
<1>6. Cell(d, k, s) \in Index \X Index /\ Cell(d, k, s) = <<Cell(d, k, s)[1], Cell(d, k, s)[2]>>
  BY <1>4, CellTyped
<1>7. t = MovedTo(u, Cell(d, k, s))
  BY DEF Landed, a
<1> HIDE DEF t, u
<1>8. t \in TileRec /\ t.id = u.id /\ t.value = u.value /\ <<t.r, t.c>> = Cell(d, k, s)
  BY <1>4, <1>6, <1>7, MovedToIs
<1>9. <<u.r, u.c>> = Cell(d, k, s) => t = u
  <2> DEFINE cell == Cell(d, k, s)
  <2> HIDE DEF cell
  <2>1. cell \in Index \X Index /\ cell = <<cell[1], cell[2]>>
    BY <1>6 DEF cell
  <2>2. <<u.r, u.c>> = cell => u.r = cell[1] /\ u.c = cell[2]
    BY <2>1
  <2>3. t = MovedTo(u, cell)
    BY <1>7 DEF cell
  <2>4. <<u.r, u.c>> = cell => t = u
    BY <1>4, <2>1, <2>2, <2>3, MovedToIs
  <2> QED BY <2>4 DEF cell
<1> QED BY <1>4, <1>5, <1>8, <1>9 DEF a, u, t, line

\* The tiles after a move, each with an id and a cell of its own.
LEMMA ApplyIs ==
    ASSUME NEW ts, Placed(ts), NEW d \in Directions
    PROVE  LET a == applyMove(ts, d)
           IN  /\ \A t : t \in a.tiles <=> \E k \in Index : \E s \in Slots(ts, d, k) : t = Landed(ts, d, k, s)
               /\ \E kept : /\ \A k \in Index : kept[k] = KeptOf(ts, d, k)
                            /\ a.gained = TotalGain(kept)
               /\ a.moved = ~(a.tiles \subseteq ts)
               /\ Placed(a.tiles)
<1> DEFINE a == applyMove(ts, d)
           S == {KeptOf(ts, d, k) : k \in Index}
           kept == [k \in Index |-> KeptOf(ts, d, k)]
           R(x) == resultTiles(x, d)
           M(x) == [tiles |-> R(x), gained |-> TotalGain(x), moved |-> ~(R(x) \subseteq ts)]
           result == R(kept)
<1>1. Tuple(kept) = kept
  <2>1. kept \in [Index -> S]
    OBVIOUS
  <2> HIDE DEF kept, S
  <2> QED BY <2>1, TupleIs
<1>2. a = M(kept)
  <2>1. a = M(Tuple([k \in Index |-> Kept(LineOf(ts, d, k))]))
    BY DEF applyMove
  <2>2. Tuple([k \in Index |-> Kept(LineOf(ts, d, k))]) = kept
    BY <1>1 DEF KeptOf
  <2> HIDE DEF M, kept
  <2> QED BY <2>1, <2>2
<1>3. \A k \in Index : kept[k] = KeptOf(ts, d, k)
  OBVIOUS
<1> HIDE DEF kept
<1>4. \A t : t \in result <=> \E k \in Index : \E s \in Slots(ts, d, k) : t = Landed(ts, d, k, s)
  BY <1>3 DEF Slots, Landed, resultTiles
<1>5. a.tiles = result /\ a.gained = TotalGain(kept) /\ a.moved = ~(result \subseteq ts)
  BY <1>2
<1> HIDE DEF result
<1>6. result \subseteq TileRec
  BY <1>4, LandedIs
<1>7. ASSUME NEW t \in result, NEW u \in result
      PROVE  (t.id = u.id => t = u) /\ (t.r = u.r /\ t.c = u.c => t = u)
  <2>1. PICK k \in Index : \E s \in Slots(ts, d, k) : t = Landed(ts, d, k, s)
    BY <1>4
  <2>2. PICK s \in Slots(ts, d, k) : t = Landed(ts, d, k, s)
    BY <2>1
  <2>3. PICK l \in Index : \E v \in Slots(ts, d, l) : u = Landed(ts, d, l, v)
    BY <1>4
  <2>4. PICK v \in Slots(ts, d, l) : u = Landed(ts, d, l, v)
    BY <2>3
  <2>5. s \in Index /\ v \in Index /\ <<t.r, t.c>> = Cell(d, k, s) /\ <<u.r, u.c>> = Cell(d, l, v)
    BY <2>2, <2>4, LandedIs
  <2>6. t.r = u.r /\ t.c = u.c => t = u
    <3>1. SUFFICES ASSUME t.r = u.r, t.c = u.c PROVE t = u
      OBVIOUS
    <3>2. Cell(d, k, s) = Cell(d, l, v)
      BY <2>5, <3>1
    <3>3. k = l /\ s = v
      BY <2>5, <3>2, CellOnce
    <3> QED BY <2>2, <2>4, <3>3
  <2>7. t.id = u.id => t = u
    <3>1. SUFFICES ASSUME t.id = u.id PROVE t = u
      OBVIOUS
    <3>2. PICK o \in Index : LineOf(ts, d, k)[o] # {} /\ t.id = TileAt(LineOf(ts, d, k), o).id
      BY <2>2, LandedIs
    <3>3. PICK w \in Index : LineOf(ts, d, l)[w] # {} /\ u.id = TileAt(LineOf(ts, d, l), w).id
      BY <2>4, LandedIs
    <3> DEFINE x == TileAt(LineOf(ts, d, k), o)
               y == TileAt(LineOf(ts, d, l), w)
    <3>4. x \in ts /\ y \in ts /\ <<x.r, x.c>> = Cell(d, k, o) /\ <<y.r, y.c>> = Cell(d, l, w)
      BY <3>2, <3>3, LineOfIs
    <3>5. x = y
      BY <3>1, <3>2, <3>3, <3>4 DEF Placed
    <3>6. Cell(d, k, o) = Cell(d, l, w)
      BY <3>4, <3>5
    <3>7. k = l
      BY <3>6, CellOnce
    <3>8. KeptOf(ts, d, k).line[s].id = KeptOf(ts, d, k).line[v].id
      BY <2>2, <2>4, <3>1, <3>7, LandedIs
    <3>9. s = v
      <4>1. LineOf(ts, d, k) \in Lines /\ \E row : ShowsValues(row, LineOf(ts, d, k))
        BY LineOfIs, RowShows
      <4>2. Owned(LineOf(ts, d, k), KeptOf(ts, d, k), SIZE)
        BY <4>1, LineSlides DEF KeptOf
      <4> QED BY <3>7, <3>8, <4>2 DEF Owned, Slots
    <3> QED BY <2>2, <2>4, <3>7, <3>9
  <2> QED BY <2>6, <2>7
<1>8. Placed(result)
  BY <1>6, <1>7 DEF Placed
<1> QED BY <1>3, <1>4, <1>5, <1>8

\* The rows of the matrix after a move.
LEMMA MoveIs ==
    ASSUME NEW board \in Boards, NEW d \in Directions,
           \A r \in Index : /\ slideLine(Normalised(board, d)[r]).line \in [Index -> Nat]
                            /\ slideLine(Normalised(board, d)[r]).gained \in Nat
    PROVE  LET m == moveBoard(board, d)
               matrix == Normalised(board, d)
           IN  \E slid, lines :
                  /\ \A r \in Index : slid[r] = slideLine(matrix[r])
                  /\ lines \in Boards /\ \A r \in Index : lines[r] = slideLine(matrix[r]).line
                  /\ m.board = Restored(lines, d) /\ m.gained = TotalGain(slid) /\ m.moved = (lines # matrix)
<1> DEFINE matrix == Normalised(board, d)
           slid == [r \in Index |-> slideLine(matrix[r])]
           lines == [r \in Index |-> slid[r].line]
           N(x) == Tuple([r \in Index |-> x[r].line])
           M(x) == [board |-> Restored(N(x), d), gained |-> TotalGain(x), moved |-> N(x) # matrix]
           S == {slideLine(matrix[r]) : r \in Index}
<1>1. \A r \in Index : slid[r] = slideLine(matrix[r]) /\ lines[r] = slideLine(matrix[r]).line
  OBVIOUS
<1>2. lines \in Boards
  BY DEF Boards
<1>3. Tuple(slid) = slid
  <2>1. slid \in [Index -> S]
    OBVIOUS
  <2> HIDE DEF slid, S
  <2> QED BY <2>1, TupleIs
<1>4. N(slid) = lines
  <2>1. N(slid) = Tuple(lines)
    OBVIOUS
  <2> HIDE DEF N, lines
  <2> QED BY <1>2, <2>1, TupleIs DEF Boards
<1>5. moveBoard(board, d) = M(slid)
  <2>1. moveBoard(board, d) = M(Tuple(slid))
    BY DEF moveBoard
  <2> HIDE DEF M, slid
  <2> QED BY <1>3, <2>1
<1> HIDE DEF slid, lines, matrix, N
<1> QED BY <1>1, <1>2, <1>4, <1>5 DEF matrix

\* A move that leaves every tile where it was: the tiles of each line fill its first
\* slots and none of them merged.
LEMMA StaysPut ==
    ASSUME NEW ts, Placed(ts), NEW d \in Directions, applyMove(ts, d).tiles \subseteq ts, NEW k \in Index
    PROVE  LET line == LineOf(ts, d, k)
               a == KeptOf(ts, d, k)
           IN  /\ \A i \in Index : line[i] # {} <=> i <= Len(a.line)
               /\ \A i \in Slots(ts, d, k) : a.line[i].value = TileAt(line, i).value
<1> DEFINE line == LineOf(ts, d, k)
           a == KeptOf(ts, d, k)
           n == Len(a.line)
<1>1. /\ line \in Lines
      /\ \A i \in Index : line[i] # {} =>
            TileAt(line, i) \in ts /\ <<TileAt(line, i).r, TileAt(line, i).c>> = Cell(d, k, i)
      /\ \A i \in Index : line[i] = {t \in ts : <<t.r, t.c>> = Cell(d, k, i)}
  BY LineOfIs
<1>2. a \in Sliding(TileRec) /\ Short(line, a, SIZE) /\ LastPassed(line, a, SIZE)
  BY <1>1, LineSlides, RowShows DEF KeptOf
<1>3. SIZE \in Nat /\ Index = 1..SIZE /\ n \in Nat /\ n <= SIZE /\ Slots(ts, d, k) = 1..n
  BY <1>2, TilesAssumption DEF Index, Slots, Sliding, Short
<1>4. ASSUME NEW s \in 1..n
      PROVE  LET t == Landed(ts, d, k, s) IN
             t \in ts /\ line[s] # {} /\ TileAt(line, s) = t /\ t.id = a.line[s].id /\ t.value = a.line[s].value
  <2> DEFINE t == Landed(ts, d, k, s)
  <2>1. s \in Index /\ <<t.r, t.c>> = Cell(d, k, s) /\ t.id = a.line[s].id /\ t.value = a.line[s].value
    BY <1>3, LandedIs
  <2>2. t \in ts
    BY <1>3, ApplyIs
  <2> HIDE DEF t, line, a
  <2>3. line[s] # {}
    BY <1>1, <2>1, <2>2
  <2>4. TileAt(line, s) \in ts /\ <<TileAt(line, s).r, TileAt(line, s).c>> = <<t.r, t.c>>
    BY <1>1, <2>1, <2>3
  <2>5. TileAt(line, s) = t
    BY <2>2, <2>4 DEF Placed
  <2> QED BY <2>1, <2>2, <2>3, <2>5 DEF t, line, a
<1>5. \A i \in Index : i > n => line[i] = {}
  <2>1. CASE n = 0
    BY <1>2, <1>3, <2>1 DEF LastPassed
  <2>2. CASE n > 0
    <3>1. PICK q \in 1..SIZE :
             /\ line[q] # {}
             /\ a.line[n] = IF a.free THEN TileAt(line, q) ELSE Doubled(TileAt(line, q))
             /\ a.free => \A o \in q + 1..SIZE : line[o] = {}
      BY <1>2, <2>2 DEF LastPassed
    <3> DEFINE t == Landed(ts, d, k, n)
               u == TileAt(line, q)
    <3>2. n \in 1..n /\ n \in Index /\ q \in Index
      BY <1>3, <2>2
    <3>3. t \in ts /\ line[n] # {} /\ TileAt(line, n) = t /\ t.id = a.line[n].id /\ t.value = a.line[n].value
      BY <1>4, <3>2
    <3>4. u \in ts /\ u \in TileRec /\ <<u.r, u.c>> = Cell(d, k, q)
      BY <1>1, <3>1, <3>2 DEF Placed
    <3> HIDE DEF t, line, a
    <3>5. a.line[n].id = u.id
      BY <3>1, <3>4, DoubledIs
    <3>6. t = u
      BY <3>3, <3>4, <3>5 DEF Placed
    <3>7. n = q
      <4>1. TileAt(line, n) = TileAt(line, q)
        BY <3>3, <3>6
      <4> QED BY <1>1, <3>1, <3>2, <3>3, <4>1 DEF Lines
    <3>8. a.free
      <4> SUFFICES ASSUME ~a.free PROVE FALSE
        OBVIOUS
      <4>1. a.line[n].value = 2 * u.value
        BY <3>1, <3>4, DoubledIs
      <4>2. u.value \in Nat /\ u.value # 0
        BY <3>4 DEF TileRec
      <4> QED BY <3>3, <3>6, <4>1, <4>2
    <3>9. \A o \in Index : o > n => o \in q + 1..SIZE
      BY <1>3, <3>7
    <3> QED BY <3>1, <3>8, <3>9 DEF line
  <2> QED BY <1>3, <2>1, <2>2
<1> HIDE DEF line, a
<1>6. \A i \in Index : i <= n => i \in 1..n
  BY <1>3
<1>7. ASSUME NEW i \in Index PROVE line[i] # {} <=> i <= n
  <2>1. i <= n => line[i] # {}
    BY <1>4, <1>6
  <2>2. ~(i <= n) => i > n
    BY <1>3
  <2> QED BY <1>5, <2>1, <2>2
<1>8. \A i \in 1..n : a.line[i].value = TileAt(line, i).value
  BY <1>4
<1> QED BY <1>3, <1>7, <1>8 DEF line, a

\* Conversely, lines that keep their tiles in their slots keep every tile.
LEMMA StaysIn ==
    ASSUME NEW ts, Placed(ts), NEW d \in Directions,
           \A k \in Index : \A s \in Slots(ts, d, k) :
               LineOf(ts, d, k)[s] # {} /\ KeptOf(ts, d, k).line[s] = TileAt(LineOf(ts, d, k), s)
    PROVE  applyMove(ts, d).tiles \subseteq ts
<1> SUFFICES ASSUME NEW t \in applyMove(ts, d).tiles PROVE t \in ts
  OBVIOUS
<1>1. PICK k \in Index : \E s \in Slots(ts, d, k) : t = Landed(ts, d, k, s)
  BY ApplyIs
<1>2. PICK s \in Slots(ts, d, k) : t = Landed(ts, d, k, s)
  BY <1>1
<1> DEFINE u == TileAt(LineOf(ts, d, k), s)
<1>3. s \in Index /\ LineOf(ts, d, k)[s] # {} /\ KeptOf(ts, d, k).line[s] = u
  BY LandedIs
<1>4. u \in ts /\ <<u.r, u.c>> = Cell(d, k, s)
  BY <1>3, LineOfIs
<1>5. t = u
  BY <1>2, <1>3, <1>4, LandedIs
<1> QED BY <1>4, <1>5

LEMMA RowsAre ==
    ASSUME NEW ts, Placed(ts), NEW d \in Directions, NEW k \in Index
    PROVE  LET line == LineOf(ts, d, k)
               a == KeptOf(ts, d, k)
               row == Normalised(boardFromTiles(ts), d)[RowOf(d, k)]
               s == slideLine(row)
           IN  /\ s.line \in [Index -> Nat] /\ s.gained = a.gained /\ a.gained \in Nat
               /\ \A i \in Index : s.line[i] = IF i <= Len(a.line) THEN a.line[i].value ELSE 0
               /\ s.line = row => \A j \in Slots(ts, d, k) : line[j] # {} /\ a.line[j] = TileAt(line, j)
               /\ applyMove(ts, d).tiles \subseteq ts => s.line = row
<1> DEFINE line == LineOf(ts, d, k)
           a == KeptOf(ts, d, k)
           n == Len(a.line)
           row == Normalised(boardFromTiles(ts), d)[RowOf(d, k)]
           s == slideLine(row)
<1>1. line \in Lines /\ ShowsValues(row, line)
  BY LineOfIs, RowShows
<1> HIDE DEF row
<1>2. /\ a \in Sliding(TileRec) /\ s.gained = a.gained /\ s.line \in [Index -> Nat]
      /\ \A i \in Index : s.line[i] = IF i <= n THEN a.line[i].value ELSE 0
      /\ s.line = row => \A j \in 1..n : line[j] # {} /\ a.line[j] = TileAt(line, j)
  <2> HIDE DEF line
  <2> QED BY <1>1, LineSlides DEF KeptOf, line
<1>3. a.gained \in Nat /\ n \in Nat
  BY <1>2 DEF Sliding
<1>4. ASSUME applyMove(ts, d).tiles \subseteq ts PROVE s.line = row
  <2>1. /\ \A i \in Index : line[i] # {} <=> i <= n
        /\ \A i \in 1..n : a.line[i].value = TileAt(line, i).value
    BY <1>4, StaysPut DEF Slots
  <2> HIDE DEF s, a, line
  <2>2. \A i \in Index : i <= n => i \in 1..n
    BY <1>3, TilesAssumption DEF Index
  <2>3. \A i \in Index : s.line[i] = row[i]
    BY <1>1, <1>2, <2>1, <2>2 DEF ShowsValues
  <2>4. row \in [Index -> Nat]
    BY <1>1 DEF ShowsValues
  <2> QED BY <1>2, <2>3, <2>4
<1> QED BY <1>2, <1>3, <1>4 DEF row, Slots

LEMMA RowOfEach ==
    ASSUME NEW d, NEW r \in Index
    PROVE  RowOf(d, r) \in Index /\ RowOf(d, RowOf(d, r)) = r
BY FromEndIs DEF RowOf

\* The two layers make the same move.
LEMMA LayersAgree ==
    ASSUME NEW ts, Placed(ts), NEW d \in Directions
    PROVE  LET m == moveBoard(boardFromTiles(ts), d)
               a == applyMove(ts, d)
           IN  boardFromTiles(a.tiles) = m.board /\ a.gained = m.gained /\ a.moved = m.moved
<1> DEFINE board == boardFromTiles(ts)
           matrix == Normalised(board, d)
           m == moveBoard(board, d)
           a == applyMove(ts, d)
           n(k) == Len(KeptOf(ts, d, k).line)
<1>1. board \in Boards /\ matrix \in Boards
  BY BoardIs, NormalisedIs DEF Placed
<1>2. \A k \in Index : LET s == slideLine(matrix[RowOf(d, k)]) IN
         /\ s.line \in [Index -> Nat] /\ s.gained = KeptOf(ts, d, k).gained /\ s.gained \in Nat
         /\ \A i \in Index : s.line[i] = IF i <= n(k) THEN KeptOf(ts, d, k).line[i].value ELSE 0
         /\ s.line = matrix[RowOf(d, k)] =>
               \A j \in Slots(ts, d, k) :
                   LineOf(ts, d, k)[j] # {} /\ KeptOf(ts, d, k).line[j] = TileAt(LineOf(ts, d, k), j)
         /\ a.tiles \subseteq ts => s.line = matrix[RowOf(d, k)]
  BY RowsAre
<1> HIDE DEF matrix, a
<1>3. \A r \in Index : slideLine(matrix[r]).line \in [Index -> Nat] /\ slideLine(matrix[r]).gained \in Nat
  BY <1>2, RowOfEach
<1>4. PICK slid, lines :
         /\ \A r \in Index : slid[r] = slideLine(matrix[r])
         /\ lines \in Boards /\ \A r \in Index : lines[r] = slideLine(matrix[r]).line
         /\ m.board = Restored(lines, d) /\ m.gained = TotalGain(slid) /\ m.moved = (lines # matrix)
  <2> HIDE DEF board
  <2> QED BY <1>1, <1>3, MoveIs DEF matrix
<1>5. PICK kept : (\A k \in Index : kept[k] = KeptOf(ts, d, k)) /\ a.gained = TotalGain(kept)
  BY ApplyIs DEF a
<1>6. a.moved = ~(a.tiles \subseteq ts) /\ Placed(a.tiles)
  BY ApplyIs DEF a
<1> HIDE DEF m, board
<1>7. a.gained = m.gained
  <2>1. \A k \in Index : kept[k].gained = slid[RowOf(d, k)].gained /\ slid[k].gained \in Nat
    BY <1>2, <1>3, <1>4, <1>5, RowOfEach
  <2>2. CASE d = "up"
    <3>1. \A k \in Index : kept[k].gained = slid[FromEnd(k)].gained /\ slid[k].gained \in Nat
      BY <2>1, <2>2 DEF RowOf
    <3> QED BY <1>4, <1>5, <3>1, TotalReversed
  <2>3. CASE d # "up"
    <3>1. \A k \in Index : kept[k].gained = slid[k].gained /\ slid[k].gained \in Nat
      BY <2>1, <2>3 DEF RowOf
    <3> QED BY <1>4, <1>5, <3>1, TotalSame
  <2> QED BY <2>2, <2>3
<1>8. a.moved = m.moved
  <2>1. ASSUME a.tiles \subseteq ts PROVE lines = matrix
    <3>1. \A r \in Index : lines[r] = matrix[r]
      BY <1>2, <1>4, <2>1, RowOfEach
    <3> QED BY <1>1, <1>4, <3>1 DEF Boards
  <2>2. ASSUME lines = matrix PROVE a.tiles \subseteq ts
    <3>1. \A k \in Index : slideLine(matrix[RowOf(d, k)]).line = matrix[RowOf(d, k)]
      BY <1>4, <2>2, RowOfEach
    <3>2. \A k \in Index : \A j \in Slots(ts, d, k) :
             LineOf(ts, d, k)[j] # {} /\ KeptOf(ts, d, k).line[j] = TileAt(LineOf(ts, d, k), j)
      BY <1>2, <3>1
    <3> QED BY <3>2, StaysIn DEF a
  <2> QED BY <1>4, <1>6, <2>1, <2>2
<1>9. boardFromTiles(a.tiles) = m.board
  <2> DEFINE after == boardFromTiles(a.tiles)
  <2>1. after \in Boards /\ \A r, c \in Index : after[r][c] = ValueAt(a.tiles, r, c)
    BY <1>6, BoardIs DEF Placed
  <2>2. /\ m.board \in Boards
        /\ \A k, s \in Index : m.board[Cell(d, k, s)[1]][Cell(d, k, s)[2]] = lines[RowOf(d, k)][s]
    BY <1>4, RestoredIs
  <2>3. ASSUME NEW r \in Index, NEW c \in Index PROVE ValueAt(a.tiles, r, c) = m.board[r][c]
    <3>1. PICK k, s \in Index : Cell(d, k, s) = <<r, c>>
      BY CellEach
    <3> DEFINE here == {t \in a.tiles : t.r = r /\ t.c = c}
               v == IF s <= n(k) THEN KeptOf(ts, d, k).line[s].value ELSE 0
    <3>2. lines[RowOf(d, k)][s] = v
      BY <1>2, <1>4, RowOfEach
    <3>3. m.board[r][c] = v
      <4> HIDE DEF v
      <4>1. <<r, c>>[1] = r /\ <<r, c>>[2] = c
        OBVIOUS
      <4> QED BY <2>2, <3>1, <3>2, <4>1
    <3>4. n(k) \in Nat
      <4>1. LineOf(ts, d, k) \in Lines /\ \E row : ShowsValues(row, LineOf(ts, d, k))
        BY LineOfIs, RowShows
      <4>2. KeptOf(ts, d, k) \in Sliding(TileRec)
        BY <4>1, LineSlides DEF KeptOf
      <4> QED BY <4>2 DEF Sliding
    <3>5. CASE s <= n(k)
      <4> DEFINE t == Landed(ts, d, k, s)
      <4>1. s \in Slots(ts, d, k)
        BY <3>4, <3>5, TilesAssumption DEF Slots, Index
      <4>2. t \in a.tiles
        BY <4>1, ApplyIs DEF a
      <4>3. <<t.r, t.c>> = <<r, c>> /\ t.value = KeptOf(ts, d, k).line[s].value
        BY <3>1, <4>1, LandedIs
      <4> HIDE DEF t
      <4>4. t \in here
        BY <4>2, <4>3
      <4>5. \A u \in here : u = t
        BY <1>6, <4>2, <4>4 DEF Placed
      <4>6. TheTile(here) = t
        BY <4>4, <4>5 DEF TheTile
      <4>7. ValueAt(a.tiles, r, c) = t.value
        BY <4>4, <4>6 DEF ValueAt
      <4> QED BY <3>3, <3>5, <4>3, <4>7
    <3>6. CASE ~(s <= n(k))
      <4>1. ASSUME NEW t \in here PROVE FALSE
        <5>1. PICK l \in Index : \E u \in Slots(ts, d, l) : t = Landed(ts, d, l, u)
          BY <4>1, ApplyIs DEF a
        <5>2. PICK u \in Slots(ts, d, l) : t = Landed(ts, d, l, u)
          BY <5>1
        <5>3. u \in Index /\ <<t.r, t.c>> = Cell(d, l, u) /\ <<t.r, t.c>> = <<r, c>>
          BY <4>1, <5>2, LandedIs
        <5>4. k = l /\ s = u
          BY <3>1, <5>3, CellOnce
        <5> QED BY <3>4, <3>6, <5>4 DEF Slots
      <4>2. ValueAt(a.tiles, r, c) = 0
        BY <4>1 DEF ValueAt
      <4> QED BY <3>3, <3>6, <4>2
    <3> QED BY <3>5, <3>6
  <2> HIDE DEF after
  <2>4. \A r \in Index : after[r] = m.board[r]
    <3> TAKE r \in Index
    <3>1. after[r] \in [Index -> Nat] /\ m.board[r] \in [Index -> Nat]
      BY <2>1, <2>2 DEF Boards
    <3>2. \A c \in Index : after[r][c] = m.board[r][c]
      BY <2>1, <2>3
    <3> QED BY <3>1, <3>2
  <2>5. after = m.board
    BY <2>1, <2>2, <2>4 DEF Boards
  <2> QED BY <2>5 DEF after
<1> QED BY <1>7, <1>8, <1>9 DEF m, a, board

\* A cell is taken when a tile is on it.
Taken(ts, r, c) == \E t \in ts : t.r = r /\ t.c = c

LEMMA SlotTaken ==
    ASSUME NEW ts, Placed(ts), NEW d \in Directions, NEW k \in Index, NEW s \in Index,
           NEW r \in Index, NEW c \in Index,
           Cell(d, k, s) = <<r, c>>
    PROVE  /\ LineOf(ts, d, k)[s] # {} <=> Taken(ts, r, c)
           /\ LineOf(ts, d, k)[s] # {} <=> boardFromTiles(ts)[r][c] # 0
           /\ LineOf(ts, d, k)[s] # {} => boardFromTiles(ts)[r][c] = TileAt(LineOf(ts, d, k), s).value
<1> DEFINE line == LineOf(ts, d, k)
           board == boardFromTiles(ts)
<1>1. line[s] = {t \in ts : <<t.r, t.c>> = <<r, c>>} /\ line \in Lines
  BY LineOfIs
<1>2. board[r][c] = IF line[s] = {} THEN 0 ELSE TileAt(line, s).value
  <2>1. <<r, c>>[1] = r /\ <<r, c>>[2] = c
    OBVIOUS
  <2> HIDE DEF board, line
  <2>2. board[Cell(d, k, s)[1]][Cell(d, k, s)[2]] = IF line[s] = {} THEN 0 ELSE TileAt(line, s).value
    BY CellShows DEF board, line
  <2> QED BY <2>1, <2>2
<1> HIDE DEF board, line
<1>3. line[s] # {} => TileAt(line, s).value # 0
  <2> SUFFICES ASSUME line[s] # {} PROVE TileAt(line, s).value # 0
    OBVIOUS
  <2>1. TileAt(line, s) \in TileRec
    BY <1>1, TileAtTyped
  <2> QED BY <2>1 DEF TileRec
<1>4. line[s] # {} <=> Taken(ts, r, c)
  BY <1>1 DEF Taken
<1> QED BY <1>2, <1>3, <1>4 DEF board, line

-----------------------------------------------------------------------------
(* The end of a game.                                                      *)

\* A move that leaves every tile has no empty slot before a tile.
LEMMA NoGap ==
    ASSUME NEW ts, Placed(ts), NEW d \in Directions, applyMove(ts, d).tiles \subseteq ts, NEW k \in Index,
           NEW i \in Index, NEW j \in Index, i < j, LineOf(ts, d, k)[j] # {}
    PROVE  LineOf(ts, d, k)[i] # {}
<1>1. \A s \in Index : LineOf(ts, d, k)[s] # {} <=> s <= Len(KeptOf(ts, d, k).line)
  BY StaysPut
<1>2. KeptOf(ts, d, k) \in Sliding(TileRec)
  <2>1. LineOf(ts, d, k) \in Lines /\ \E row : ShowsValues(row, LineOf(ts, d, k))
    BY LineOfIs, RowShows
  <2> QED BY <2>1, LineSlides DEF KeptOf
<1>3. Len(KeptOf(ts, d, k).line) \in Nat /\ i \in Nat /\ j \in Nat
  BY <1>2, TilesAssumption DEF Sliding, Index
<1> QED BY <1>1, <1>3

\* When no direction moves anything, there is a tile on every cell.
LEMMA FullBoard ==
    ASSUME NEW ts, Placed(ts), ts # {}, \A d \in Directions : applyMove(ts, d).tiles \subseteq ts
    PROVE  \A r, c \in Index : Taken(ts, r, c)
<1>1. "left" \in Directions /\ "right" \in Directions /\ "up" \in Directions /\ "down" \in Directions
  BY DEF Directions
<1>2. \A i, j \in Index : (i < j \/ i = j \/ j < i) /\ (i < j => FromEnd(j) < FromEnd(i))
  BY TilesAssumption DEF Index, FromEnd
<1>3. ASSUME NEW r \in Index, NEW c \in Index, NEW y \in Index, Taken(ts, r, c) PROVE Taken(ts, r, y)
  <2>1. FromEnd(c) \in Index /\ FromEnd(y) \in Index /\ FromEnd(FromEnd(c)) = c /\ FromEnd(FromEnd(y)) = y
    BY FromEndIs
  <2>2. CASE y < c
    <3>1. Cell("left", r, y) = <<r, y>> /\ Cell("left", r, c) = <<r, c>>
      BY CellIs
    <3>2. LineOf(ts, "left", r)[c] # {}
      BY <1>1, <1>3, <3>1, SlotTaken
    <3>3. LineOf(ts, "left", r)[y] # {}
      BY <1>1, <2>2, <3>2, NoGap
    <3> QED BY <1>1, <3>1, <3>3, SlotTaken
  <2>3. CASE c < y
    <3>1. Cell("right", r, FromEnd(y)) = <<r, y>> /\ Cell("right", r, FromEnd(c)) = <<r, c>>
      BY <2>1, CellIs
    <3>2. LineOf(ts, "right", r)[FromEnd(c)] # {}
      BY <1>1, <1>3, <2>1, <3>1, SlotTaken
    <3>3. LineOf(ts, "right", r)[FromEnd(y)] # {}
      BY <1>1, <1>2, <2>1, <2>3, <3>2, NoGap
    <3> QED BY <1>1, <2>1, <3>1, <3>3, SlotTaken
  <2> QED BY <1>2, <1>3, <2>2, <2>3
<1>4. ASSUME NEW r \in Index, NEW c \in Index, NEW x \in Index, Taken(ts, r, c) PROVE Taken(ts, x, c)
  <2>1. FromEnd(r) \in Index /\ FromEnd(x) \in Index /\ FromEnd(FromEnd(r)) = r /\ FromEnd(FromEnd(x)) = x
    BY FromEndIs
  <2>2. CASE x < r
    <3>1. Cell("up", c, x) = <<x, c>> /\ Cell("up", c, r) = <<r, c>>
      BY CellIs
    <3>2. LineOf(ts, "up", c)[r] # {}
      BY <1>1, <1>4, <3>1, SlotTaken
    <3>3. LineOf(ts, "up", c)[x] # {}
      BY <1>1, <2>2, <3>2, NoGap
    <3> QED BY <1>1, <3>1, <3>3, SlotTaken
  <2>3. CASE r < x
    <3>1. Cell("down", c, FromEnd(x)) = <<x, c>> /\ Cell("down", c, FromEnd(r)) = <<r, c>>
      BY <2>1, CellIs
    <3>2. LineOf(ts, "down", c)[FromEnd(r)] # {}
      BY <1>1, <1>4, <2>1, <3>1, SlotTaken
    <3>3. LineOf(ts, "down", c)[FromEnd(x)] # {}
      BY <1>1, <1>2, <2>1, <2>3, <3>2, NoGap
    <3> QED BY <1>1, <2>1, <3>1, <3>3, SlotTaken
  <2> QED BY <1>2, <1>4, <2>2, <2>3
<1>5. PICK t \in ts : TRUE
  OBVIOUS
<1>6. t.r \in Index /\ t.c \in Index /\ Taken(ts, t.r, t.c)
  BY DEF Placed, TileRec, Taken
<1> QED BY <1>3, <1>4, <1>6

\* A line of a full board that stays as it is has no equal neighbours.
LEMMA Differ ==
    ASSUME NEW ts, Placed(ts), NEW d \in Directions, applyMove(ts, d).tiles \subseteq ts, NEW k \in Index,
           \A i \in Index : LineOf(ts, d, k)[i] # {}
    PROVE  \A i \in Index : i < SIZE => TileAt(LineOf(ts, d, k), i).value # TileAt(LineOf(ts, d, k), i + 1).value
<1> DEFINE line == LineOf(ts, d, k)
           a == KeptOf(ts, d, k)
<1>1. \A s \in Index : line[s] # {} <=> s <= Len(a.line)
  BY StaysPut
<1>2. a \in Sliding(TileRec) /\ Short(line, a, SIZE)
  <2>1. line \in Lines /\ \E row : ShowsValues(row, line)
    BY LineOfIs, RowShows
  <2> HIDE DEF line
  <2> QED BY <2>1, LineSlides DEF KeptOf, line
<1> HIDE DEF line, a
<1>3. SIZE \in Index /\ Index = 1..SIZE /\ SIZE \in Nat /\ Len(a.line) \in Nat
  BY <1>2, TilesAssumption DEF Index, Sliding
<1>4. Len(a.line) = SIZE
  BY <1>1, <1>2, <1>3 DEF Short, line
<1>5. Whole(line, SIZE)
  BY <1>2, <1>4 DEF Short
<1> QED BY <1>3, <1>5 DEF Whole, line

\* A line without an empty slot and without equal neighbours stays as it is.
LEMMA Stuck ==
    ASSUME NEW ts, Placed(ts), NEW d \in Directions, NEW k \in Index,
           \A i \in Index : LineOf(ts, d, k)[i] # {},
           \A i \in Index : i < SIZE => TileAt(LineOf(ts, d, k), i).value # TileAt(LineOf(ts, d, k), i + 1).value
    PROVE  \A s \in Slots(ts, d, k) :
               LineOf(ts, d, k)[s] # {} /\ KeptOf(ts, d, k).line[s] = TileAt(LineOf(ts, d, k), s)
<1> DEFINE line == LineOf(ts, d, k)
           a == KeptOf(ts, d, k)
<1>1. Short(line, a, SIZE)
  <2>1. line \in Lines /\ \E row : ShowsValues(row, line)
    BY LineOfIs, RowShows
  <2> HIDE DEF line
  <2> QED BY <2>1, LineSlides DEF KeptOf, line
<1> HIDE DEF line, a
<1>2. Index = 1..SIZE
  BY DEF Index
<1>3. Whole(line, SIZE)
  BY <1>2 DEF Whole, line
<1>4. Len(a.line) = SIZE /\ \A j \in 1..SIZE : a.line[j] = TileAt(line, j)
  BY <1>1, <1>3 DEF Short
<1> QED BY <1>2, <1>4 DEF Slots, line, a

\* Neighbours in a line are neighbours on the board.
Beside(r, c, x, y) ==
    (r = x /\ c < SIZE /\ y = c + 1) \/ (c = y /\ r < SIZE /\ x = r + 1)

LEMMA SlotsBeside ==
    ASSUME NEW d \in Directions, NEW k \in Index, NEW i \in Index, i < SIZE
    PROVE  /\ i + 1 \in Index
           /\ \E r, c, x, y \in Index : /\ Cell(d, k, i) = <<r, c>> /\ Cell(d, k, i + 1) = <<x, y>>
                                        /\ Beside(r, c, x, y) \/ Beside(x, y, r, c)
<1>1. /\ i + 1 \in Index /\ FromEnd(i) \in Index /\ FromEnd(i + 1) \in Index
      /\ FromEnd(i + 1) < SIZE /\ FromEnd(i) = FromEnd(i + 1) + 1
  BY TilesAssumption DEF FromEnd, Index
<1>2. CASE d = "left"
  <2>1. Cell(d, k, i) = <<k, i>> /\ Cell(d, k, i + 1) = <<k, i + 1>> /\ Beside(k, i, k, i + 1)
    BY <1>2, CellIs DEF Beside
  <2> QED BY <1>1, <2>1
<1>3. CASE d = "right"
  <2>1. /\ Cell(d, k, i) = <<k, FromEnd(i)>> /\ Cell(d, k, i + 1) = <<k, FromEnd(i + 1)>>
        /\ Beside(k, FromEnd(i + 1), k, FromEnd(i))
    BY <1>1, <1>3, CellIs DEF Beside
  <2> QED BY <1>1, <2>1
<1>4. CASE d = "up"
  <2>1. Cell(d, k, i) = <<i, k>> /\ Cell(d, k, i + 1) = <<i + 1, k>> /\ Beside(i, k, i + 1, k)
    BY <1>4, CellIs DEF Beside
  <2> QED BY <1>1, <2>1
<1>5. CASE d = "down"
  <2>1. /\ Cell(d, k, i) = <<FromEnd(i), k>> /\ Cell(d, k, i + 1) = <<FromEnd(i + 1), k>>
        /\ Beside(FromEnd(i + 1), k, FromEnd(i), k)
    BY <1>1, <1>5, CellIs DEF Beside
  <2> QED BY <1>1, <2>1
<1> QED BY <1>1, <1>2, <1>3, <1>4, <1>5 DEF Directions

LEMMA GameOver ==
    ASSUME NEW ts, Placed(ts), ts # {}
    PROVE  canMove(boardFromTiles(ts)) <=> \E d \in Directions : applyMove(ts, d).moved
<1> DEFINE board == boardFromTiles(ts)
<1>1. \A d \in Directions : applyMove(ts, d).moved <=> ~(applyMove(ts, d).tiles \subseteq ts)
  BY ApplyIs
<1>2. ASSUME \A d \in Directions : applyMove(ts, d).tiles \subseteq ts PROVE ~canMove(board)
  <2>1. \A r, c \in Index : Taken(ts, r, c)
    BY <1>2, FullBoard
  <2>2. "left" \in Directions /\ "up" \in Directions
    BY DEF Directions
  <2>3. \A r, c : Cell("left", r, c) = <<r, c>> /\ Cell("up", c, r) = <<r, c>>
    BY CellIs
  <2>4. ASSUME NEW r \in Index, NEW c \in Index
        PROVE  /\ LineOf(ts, "left", r)[c] # {} /\ board[r][c] = TileAt(LineOf(ts, "left", r), c).value
               /\ LineOf(ts, "up", c)[r] # {} /\ board[r][c] = TileAt(LineOf(ts, "up", c), r).value
               /\ board[r][c] # 0
    <3> HIDE DEF board
    <3> QED BY <2>1, <2>2, <2>3, SlotTaken DEF board
  <2> HIDE DEF board
  <2>5. \A i \in Index : i < SIZE => i + 1 \in Index
    BY TilesAssumption DEF Index
  <2>6. ASSUME NEW r \in Index, NEW c \in Index, c < SIZE PROVE board[r][c + 1] # board[r][c]
    <3>1. \A i \in Index : LineOf(ts, "left", r)[i] # {}
      BY <2>4
    <3>2. TileAt(LineOf(ts, "left", r), c).value # TileAt(LineOf(ts, "left", r), c + 1).value
      BY <1>2, <2>2, <2>6, <3>1, Differ
    <3> QED BY <2>4, <2>5, <2>6, <3>2
  <2>7. ASSUME NEW r \in Index, NEW c \in Index, r < SIZE PROVE board[r + 1][c] # board[r][c]
    <3>1. \A i \in Index : LineOf(ts, "up", c)[i] # {}
      BY <2>4
    <3>2. TileAt(LineOf(ts, "up", c), r).value # TileAt(LineOf(ts, "up", c), r + 1).value
      BY <1>2, <2>2, <2>7, <3>1, Differ
    <3> QED BY <2>4, <2>5, <2>7, <3>2
  <2> QED BY <2>4, <2>6, <2>7 DEF canMove
<1>3. ASSUME ~canMove(board), NEW d \in Directions PROVE applyMove(ts, d).tiles \subseteq ts
  <2> HIDE DEF board
  <2>1. \A r, c \in Index : /\ board[r][c] # 0
                            /\ r < SIZE => board[r + 1][c] # board[r][c]
                            /\ c < SIZE => board[r][c + 1] # board[r][c]
    BY <1>3 DEF canMove
  <2>2. ASSUME NEW k \in Index, NEW i \in Index PROVE LineOf(ts, d, k)[i] # {}
    <3>1. PICK r, c \in Index : Cell(d, k, i) = <<r, c>>
      BY CellTyped
    <3> QED BY <2>1, <3>1, SlotTaken DEF board
  <2>3. ASSUME NEW k \in Index, NEW i \in Index, i < SIZE
        PROVE  TileAt(LineOf(ts, d, k), i).value # TileAt(LineOf(ts, d, k), i + 1).value
    <3>1. i + 1 \in Index
      BY <2>3, SlotsBeside
    <3>2. PICK r, c, x, y \in Index : /\ Cell(d, k, i) = <<r, c>> /\ Cell(d, k, i + 1) = <<x, y>>
                                      /\ Beside(r, c, x, y) \/ Beside(x, y, r, c)
      BY <2>3, SlotsBeside
    <3>3. board[r][c] = TileAt(LineOf(ts, d, k), i).value /\ board[x][y] = TileAt(LineOf(ts, d, k), i + 1).value
      BY <2>2, <3>1, <3>2, SlotTaken DEF board
    <3>4. board[r][c] # board[x][y]
      BY <2>1, <3>2 DEF Beside
    <3> QED BY <3>3, <3>4
  <2>4. ASSUME NEW k \in Index
        PROVE  \A s \in Slots(ts, d, k) :
                   LineOf(ts, d, k)[s] # {} /\ KeptOf(ts, d, k).line[s] = TileAt(LineOf(ts, d, k), s)
    BY <2>2, <2>3, Stuck
  <2> QED BY <2>4, StaysIn
<1> QED BY <1>1, <1>2, <1>3

\* A move that is played leaves an empty cell: some line became shorter.
LEMMA RoomLeft ==
    ASSUME NEW ts, Placed(ts), NEW d \in Directions, applyMove(ts, d).moved
    PROVE  EmptyCells(applyMove(ts, d).tiles) # {}
<1> DEFINE a == applyMove(ts, d)
<1> SUFFICES ASSUME EmptyCells(a.tiles) = {} PROVE FALSE
  OBVIOUS
<1>1. ~(a.tiles \subseteq ts) /\ Placed(a.tiles)
  BY ApplyIs
<1>2. SIZE \in Index /\ SIZE \in Nat /\ Index = 1..SIZE
  BY TilesAssumption DEF Index
<1>3. ASSUME NEW k \in Index
      PROVE  \A s \in Slots(ts, d, k) :
                 LineOf(ts, d, k)[s] # {} /\ KeptOf(ts, d, k).line[s] = TileAt(LineOf(ts, d, k), s)
  <2> DEFINE cell == Cell(d, k, SIZE)
  <2>1. cell \in Index \X Index
    BY <1>2, CellTyped
  <2>2. PICK t \in a.tiles : <<t.r, t.c>> = cell
    <3> HIDE DEF cell, a
    <3> QED BY <2>1 DEF EmptyCells
  <2>3. PICK l \in Index : \E s \in Slots(ts, d, l) : t = Landed(ts, d, l, s)
    BY ApplyIs
  <2>4. PICK s \in Slots(ts, d, l) : t = Landed(ts, d, l, s)
    BY <2>3
  <2>5. s \in Index /\ Cell(d, l, s) = cell
    BY <2>2, <2>4, LandedIs
  <2>6. l = k /\ s = SIZE
    BY <1>2, <2>5, CellOnce
  <2> DEFINE line == LineOf(ts, d, k)
             b == KeptOf(ts, d, k)
  <2>7. b \in Sliding(TileRec) /\ Short(line, b, SIZE)
    <3>1. line \in Lines /\ \E row : ShowsValues(row, line)
      BY LineOfIs, RowShows
    <3> HIDE DEF line
    <3> QED BY <3>1, LineSlides DEF KeptOf, line
  <2>8. SIZE \in 1..Len(b.line)
    BY <2>4, <2>6 DEF Slots
  <2> HIDE DEF line, b
  <2>9. Len(b.line) = SIZE
    BY <1>2, <2>7, <2>8 DEF Short, Sliding
  <2>10. Whole(line, SIZE) /\ \A j \in 1..SIZE : b.line[j] = TileAt(line, j)
    BY <2>7, <2>9 DEF Short
  <2> QED BY <2>9, <2>10 DEF Slots, Whole, line, b
<1> QED BY <1>1, <1>3, StaysIn

LEMMA IdsCounted ==
    ASSUME NEW ts, Placed(ts)
    PROVE  Cardinality({t.id : t \in ts}) = Cardinality(ts)
<1> DEFINE cells == [t \in ts |-> <<t.r, t.c>>]
           ids == [t \in ts |-> t.id]
           T == {t.id : t \in ts}
<1>1. IsFiniteSet(Index \X Index)
  <2>1. IsFiniteSet(Index)
    BY TilesAssumption, FS_Interval DEF Index
  <2> QED BY <2>1, FS_Product
<1>2. cells \in Injection(ts, Index \X Index)
  <2>1. \A t \in ts : <<t.r, t.c>> \in Index \X Index
    BY DEF Placed, TileRec
  <2>2. \A t, u \in ts : <<t.r, t.c>> = <<u.r, u.c>> => t = u
    BY DEF Placed
  <2> QED BY <2>1, <2>2 DEF Injection, IsInjective
<1>3. IsFiniteSet(ts)
  <2> HIDE DEF cells
  <2> QED BY <1>1, <1>2, FS_Injection
<1>4. ids \in Surjection(ts, T) /\ ids \in Injection(ts, T)
  BY DEF Surjection, Injection, IsInjective, Placed
<1> HIDE DEF ids, T
<1>5. Cardinality(T) = Cardinality(ts)
  BY <1>3, <1>4, FS_Surjection
<1> QED BY <1>5 DEF T

-----------------------------------------------------------------------------
(* The games.                                                              *)

\* The ids a board is numbered with.
LEMMA Numbers ==
    ASSUME NEW r \in Index, NEW c \in Index, NEW x \in Index, NEW y \in Index,
           SIZE * (r - 1) + c = SIZE * (x - 1) + y
    PROVE  r = x /\ c = y
<1>1. SIZE \in Nat /\ SIZE > 0 /\ r - 1 \in Nat /\ x - 1 \in Nat
      /\ c \in 1..SIZE /\ y \in 1..SIZE /\ r \in Nat /\ x \in Nat
  BY TilesAssumption DEF Index
<1>2. ASSUME NEW p \in Nat, NEW q \in Nat, NEW a \in 1..SIZE, NEW b \in 1..SIZE, p < q
      PROVE  SIZE * p + a # SIZE * q + b
  <2>1. PICK n \in Nat : q = p + 1 + n
    <3>1. q - p - 1 \in Nat /\ q = p + 1 + (q - p - 1)
      BY <1>2
    <3> QED BY <3>1
  <2>2. SIZE * q = SIZE * p + SIZE + SIZE * n
    BY <1>1, <2>1
  <2>3. SIZE * n \in Nat /\ SIZE * p \in Nat
    BY <1>1
  <2>4. SIZE * q >= SIZE * p + SIZE
    BY <1>1, <2>2, <2>3
  <2> QED BY <1>1, <2>3, <2>4
<1>3. ~(r - 1 < x - 1) /\ ~(x - 1 < r - 1)
  BY <1>1, <1>2
<1>4. r = x
  BY <1>1, <1>3
<1>5. SIZE * (r - 1) \in Nat
  BY <1>1
<1> QED BY <1>1, <1>4, <1>5

LEMMA RenumberedPlaced ==
    ASSUME NEW ts, ts \subseteq TileRec
    PROVE  Placed(Renumbered(ts))
<1> DEFINE board == boardFromTiles(ts)
           cells == {q \in Index \X Index : board[q[1]][q[2]] # 0}
           tile(p) == [id |-> SIZE * (p[1] - 1) + p[2], value |-> board[p[1]][p[2]], r |-> p[1], c |-> p[2]]
<1>1. board \in Boards
  BY BoardIs
<1>2. Renumbered(ts) = {tile(p) : p \in cells}
  BY DEF Renumbered, tilesFromBoard
<1> HIDE DEF board
<1>3. ASSUME NEW p \in cells
      PROVE  /\ tile(p) \in TileRec /\ p[1] \in Index /\ p[2] \in Index /\ p = <<p[1], p[2]>>
             /\ tile(p).r = p[1] /\ tile(p).c = p[2] /\ tile(p).id = SIZE * (p[1] - 1) + p[2]
  <2>1. p[1] \in Index /\ p[2] \in Index /\ p = <<p[1], p[2]>> /\ board[p[1]][p[2]] # 0
    OBVIOUS
  <2>2. board[p[1]][p[2]] \in Nat \ {0}
    BY <1>1, <2>1 DEF Boards
  <2>3. SIZE * (p[1] - 1) + p[2] \in Nat
    <3>1. SIZE \in Nat /\ p[1] - 1 \in Nat /\ p[2] \in Nat
      BY <2>1, TilesAssumption DEF Index
    <3>2. SIZE * (p[1] - 1) \in Nat
      BY <3>1
    <3> QED BY <3>1, <3>2
  <2> QED BY <2>1, <2>2, <2>3 DEF TileRec
<1>4. ASSUME NEW p \in cells, NEW q \in cells,
             p = q \/ tile(p).id = tile(q).id \/ (tile(p).r = tile(q).r /\ tile(p).c = tile(q).c)
      PROVE  tile(p) = tile(q)
  <2>1. tile(p).id = tile(q).id => p[1] = q[1] /\ p[2] = q[2]
    <3> HIDE DEF cells, tile
    <3> QED BY <1>3, Numbers
  <2>2. p = q
    <3> HIDE DEF cells, tile
    <3> QED BY <1>3, <1>4, <2>1
  <2> QED BY <2>2
<1> HIDE DEF cells, tile
<1>5. \A t \in Renumbered(ts) : \E p \in cells : t = tile(p)
  BY <1>2
<1>6. Renumbered(ts) \subseteq TileRec
  BY <1>3, <1>5
<1>7. ASSUME NEW t \in Renumbered(ts), NEW u \in Renumbered(ts), t.id = u.id \/ (t.r = u.r /\ t.c = u.c) PROVE t = u
  <2>1. PICK p \in cells : t = tile(p)
    BY <1>5
  <2>2. PICK q \in cells : u = tile(q)
    BY <1>5
  <2> QED BY <1>4, <1>7, <2>1, <2>2
<1> QED BY <1>6, <1>7 DEF Placed

LEMMA SpawnTyped ==
    ASSUME NEW ts, ts \subseteq TileRec, NEW next \in SpawnedOn(ts)
    PROVE  next \subseteq TileRec
<1>1. PICK p \in EmptyCells(ts), v \in {2, 4} : next = ts \cup {[id |-> 0, value |-> v, r |-> p[1], c |-> p[2]]}
  BY DEF SpawnedOn
<1>2. p[1] \in Index /\ p[2] \in Index
  BY DEF EmptyCells
<1> QED BY <1>1, <1>2 DEF TileRec

TilesPlaced == Placed(tiles)

\* The board of every game that can be played has its tiles in place, and then the two
\* layers agree on every move (logic.ts, moveBoard and applyMove).
THEOREM LayersAlwaysAgree == TilesSpec => []TilesAgree
<1>1. TilesInit => TilesPlaced
  <2> SUFFICES ASSUME TilesInit PROVE Placed(tiles)
    BY DEF TilesPlaced
  <2>1. PICK one \in SpawnedOn({}) : \E ts \in SpawnedOn(one) : tiles = Renumbered(ts)
    BY DEF TilesInit
  <2>2. PICK ts \in SpawnedOn(one) : tiles = Renumbered(ts)
    BY <2>1
  <2>3. one \subseteq TileRec
    BY SpawnTyped
  <2>4. ts \subseteq TileRec
    BY <2>2, <2>3, SpawnTyped
  <2> QED BY <2>2, <2>4, RenumberedPlaced
<1>2. TilesPlaced /\ [TilesNext]_tiles => TilesPlaced'
  <2> SUFFICES ASSUME Placed(tiles), [TilesNext]_tiles PROVE Placed(tiles')
    BY DEF TilesPlaced
  <2>1. CASE UNCHANGED tiles
    BY <2>1 DEF Placed
  <2>2. ASSUME NEW d \in Directions, Play(d) PROVE Placed(tiles')
    <3>1. PICK next \in SpawnedOn(applyMove(tiles, d).tiles) : tiles' = Renumbered(next)
      BY <2>2 DEF Play
    <3>2. applyMove(tiles, d).tiles \subseteq TileRec
      BY ApplyIs DEF Placed
    <3>3. next \subseteq TileRec
      BY <3>2, SpawnTyped
    <3>4. Placed(Renumbered(next))
      BY <3>3, RenumberedPlaced
    <3> QED BY <3>1, <3>4
  <2> QED BY <2>1, <2>2 DEF TilesNext
<1>3. TilesPlaced => TilesAgree
  <2> SUFFICES ASSUME Placed(tiles), tiles # {} PROVE TilesAgree
    BY DEF TilesAgree, TilesPlaced
  <2>1. canMove(boardFromTiles(tiles)) <=> \E d \in Directions : applyMove(tiles, d).moved
    BY GameOver
  <2>2. ASSUME NEW d \in Directions
        PROVE  LET m == moveBoard(boardFromTiles(tiles), d)
                   a == applyMove(tiles, d)
               IN  /\ boardFromTiles(a.tiles) = m.board /\ a.gained = m.gained /\ a.moved = m.moved
                   /\ Cardinality({t.id : t \in a.tiles}) = Cardinality(a.tiles)
                   /\ a.moved => EmptyCells(a.tiles) # {}
    <3>1. Placed(applyMove(tiles, d).tiles)
      BY ApplyIs
    <3> QED BY <3>1, LayersAgree, IdsCounted, RoomLeft
  <2> QED BY <2>1, <2>2 DEF TilesAgree
<1> QED BY <1>1, <1>2, <1>3, PTL DEF TilesSpec
-----------------------------------------------------------------------------
(* The dashboard: no two cards closer than the gap, on any canvas.         *)

\* A recursion along an interval whose values stay in given sets has a solution.
KeepsIn(step, N, T) == \A n \in 1..N : \A s \in T[n - 1] : step[n][s] \in T[n]
RunsIn(f, N, S, T, first, step) ==
    /\ f \in [0..N -> S] /\ f[0] = first /\ \A n \in 1..N : f[n] = step[n][f[n - 1]]
    /\ \A n \in 0..N : f[n] \in T[n]

LEMMA RecursionIn ==
    ASSUME NEW N \in Nat, NEW S, NEW T \in [0..N -> SUBSET S], NEW first \in T[0], NEW step,
           KeepsIn(step, N, T)
    PROVE  \E f : RunsIn(f, N, S, T, first, step)
<1> DEFINE Goes(f, m) == /\ f \in [0..m -> S] /\ f[0] = first
                         /\ \A n \in 1..m : f[n] = step[n][f[n - 1]]
                         /\ \A n \in 0..m : f[n] \in T[n]
           R == {m \in 0..N : \E f : Goes(f, m)}
<1>1. 0 \in R
  <2> DEFINE f == [n \in 0..0 |-> first]
  <2>1. Goes(f, 0)
    OBVIOUS
  <2> HIDE DEF f, Goes
  <2> QED BY <2>1
<1>2. ASSUME NEW m \in 0..N, m \in R, m < N PROVE m + 1 \in R
  <2>1. PICK f : Goes(f, m)
    BY <1>2
  <2> DEFINE g == [n \in 0..(m + 1) |-> IF n = m + 1 THEN step[m + 1][f[m]] ELSE f[n]]
  <2>2. m \in 0..m /\ m + 1 \in 1..N /\ m + 1 \in 0..N /\ m + 1 - 1 = m /\ f[m] \in T[m]
    BY <1>2, <2>1
  <2>3. step[m + 1][f[m]] \in T[m + 1] /\ T[m + 1] \subseteq S
    BY <2>2 DEF KeepsIn
  <2>4. g \in [0..(m + 1) -> S]
    BY <2>1, <2>3
  <2>5. g[0] = first
    BY <2>1
  <2>6. ASSUME NEW n \in 1..(m + 1) PROVE g[n] = step[n][g[n - 1]]
    <3>1. n - 1 \in 0..m /\ g[n - 1] = f[n - 1]
      BY <2>6
    <3>2. CASE n = m + 1
      BY <3>1, <3>2
    <3>3. CASE n # m + 1
      <4>1. n \in 1..m /\ g[n] = f[n]
        BY <3>3
      <4> QED BY <2>1, <3>1, <4>1
    <3> QED BY <3>2, <3>3
  <2>7. \A n \in 0..(m + 1) : g[n] \in T[n]
    BY <2>1, <2>3
  <2>8. Goes(g, m + 1)
    BY <2>4, <2>5, <2>6, <2>7
  <2> HIDE DEF g, Goes
  <2> QED BY <2>2, <2>8
<1>3. 0..N \subseteq R
  <2> HIDE DEF R
  <2> QED BY <1>1, <1>2, Counting
<1>4. N \in R
  <2> HIDE DEF R
  <2> QED BY <1>3
<1> QED BY <1>4 DEF RunsIn

RectRec == [x : Nat, y : Nat, w : Nat]
\* Layouts of a set of cards, and those without a collision.
LayoutsOf(D) == [D -> RectRec]
Apart(D) == {l \in LayoutsOf(D) : Disjoint(l)}

LEMMA RectTyped ==
    ASSUME NEW x \in Nat, NEW y \in Nat, NEW w \in Nat
    PROVE  Rect(x, y, w) \in RectRec
BY DEF Rect, RectRec

LEMMA WithoutIs ==
    ASSUME NEW D, NEW l \in LayoutsOf(D), NEW c
    PROVE  /\ Without(l, c) \in LayoutsOf(D \ {c})
           /\ \A d \in D \ {c} : Without(l, c)[d] = l[d]
BY DEF Without, LayoutsOf

LEMMA DisjointIs ==
    ASSUME NEW D, NEW l \in LayoutsOf(D)
    PROVE  Disjoint(l) <=> \A c, d \in D : c # d => ~Overlap(l[c], l[d])
<1>1. DOMAIN l = D
  BY DEF LayoutsOf
<1>2. ASSUME NEW c \in D
      PROVE  FreeOf(l[c], Without(l, c)) <=> \A d \in D \ {c} : ~Overlap(l[c], l[d])
  BY DEF FreeOf, Without, LayoutsOf
<1> QED BY <1>1, <1>2 DEF Disjoint

LEMMA OverlapSymmetric ==
    ASSUME NEW p, NEW q, Overlap(p, q)
    PROVE  Overlap(q, p)
BY DEF Overlap

LEMMA WithIs ==
    ASSUME NEW D, NEW l \in LayoutsOf(D), NEW c, NEW p \in RectRec
    PROVE  /\ With(l, c, p) \in LayoutsOf(D \cup {c})
           /\ \A d \in D \ {c} : With(l, c, p)[d] = l[d]
           /\ With(l, c, p)[c] = p
BY DEF With, LayoutsOf

\* A card that is put where it is free of the others leaves no collision.
LEMMA WithApart ==
    ASSUME NEW D, NEW l \in Apart(D), NEW c, NEW p \in RectRec, FreeOf(p, Without(l, c))
    PROVE  With(l, c, p) \in Apart(D \cup {c})
<1> DEFINE m == With(l, c, p)
<1>1. l \in LayoutsOf(D) /\ \A a, b \in D : a # b => ~Overlap(l[a], l[b])
  BY DisjointIs DEF Apart
<1>2. m \in LayoutsOf(D \cup {c}) /\ m[c] = p /\ \A d \in D \ {c} : m[d] = l[d]
  BY <1>1 DEF With, LayoutsOf
<1>3. \A d \in D \ {c} : ~Overlap(p, l[d])
  BY <1>1 DEF FreeOf, Without, LayoutsOf
<1> HIDE DEF m
<1>4. ASSUME NEW a \in D \cup {c}, NEW b \in D \cup {c}, a # b PROVE ~Overlap(m[a], m[b])
  <2>1. CASE a = c
    BY <1>2, <1>3, <1>4, <2>1
  <2>2. CASE b = c
    BY <1>2, <1>3, <1>4, <2>2, OverlapSymmetric
  <2>3. CASE a # c /\ b # c
    BY <1>1, <1>2, <1>4, <2>3
  <2> QED BY <2>1, <2>2, <2>3
<1>5. Disjoint(m)
  BY <1>2, <1>4, DisjointIs
<1> QED BY <1>2, <1>5 DEF m, Apart

LEMMA WithNewApart ==
    ASSUME NEW D, NEW l \in Apart(D), NEW c, NEW p \in RectRec, c \notin D, FreeOf(p, l)
    PROVE  With(l, c, p) \in Apart(D \cup {c})
<1>1. l \in LayoutsOf(D)
  BY DEF Apart
<1>2. FreeOf(p, Without(l, c))
  BY <1>1 DEF FreeOf, Without, LayoutsOf
<1> QED BY <1>2, WithApart

LEMMA WithoutApart ==
    ASSUME NEW D, NEW l \in Apart(D), NEW c
    PROVE  Without(l, c) \in Apart(D \ {c})
<1>1. l \in LayoutsOf(D) /\ \A a, b \in D : a # b => ~Overlap(l[a], l[b])
  BY DisjointIs DEF Apart
<1>2. Without(l, c) \in LayoutsOf(D \ {c}) /\ \A d \in D \ {c} : Without(l, c)[d] = l[d]
  BY <1>1, WithoutIs
<1>3. Disjoint(Without(l, c))
  <2> DEFINE m == Without(l, c)
  <2> HIDE DEF m
  <2>1. \A a, b \in D \ {c} : a # b => ~Overlap(m[a], m[b])
    BY <1>1, <1>2 DEF m
  <2>2. m \in LayoutsOf(D \ {c})
    BY <1>2 DEF m
  <2>3. Disjoint(m)
    BY <2>1, <2>2, DisjointIs
  <2> QED BY <2>3 DEF m
<1> QED BY <1>2, <1>3 DEF Apart

LEMMA EmptyApart == Empty \in Apart({})
BY DEF Empty, Apart, LayoutsOf, Disjoint

\* The lowest edge of a layout is below every card.
LEMMA BottomIs ==
    ASSUME NEW D \in SUBSET Cards, NEW l \in LayoutsOf(D)
    PROVE  Bottom(l) \in Nat /\ \A c \in D : l[c].y + Height <= Bottom(l)
<1> DEFINE d(f, c) == IF c = 0 THEN 0
                      ELSE IF c \in DOMAIN l THEN Most(f[c - 1], l[c].y + Height) ELSE f[c - 1]
           Solves(f) == f = [c \in 0..CardCount |-> d(f, c)]
           low == CHOOSE f : Solves(f)
           step == [c \in 1..CardCount |-> [s \in Nat |-> IF c \in D THEN Most(s, l[c].y + Height) ELSE s]]
           T == [c \in 0..CardCount |-> Nat]
<1>1. /\ CardCount \in Nat /\ 0 \in 0..CardCount /\ \A c \in 0..CardCount : c = 0 \/ c \in 1..CardCount
      /\ \A c \in 1..CardCount : c \in 0..CardCount /\ c # 0 /\ c - 1 \in 0..CardCount
      /\ CardCount \in 0..CardCount
  BY LayoutAssumption
<1>2. DOMAIN l = D /\ \A c \in D : c \in 1..CardCount /\ l[c].y \in Nat
  BY DEF LayoutsOf, RectRec, Cards
<1>3. \A c \in 1..CardCount : \A s \in Nat : step[c][s] \in Nat
  BY <1>2 DEF Most, Height
<1>4. \E f : Solves(f)
  <2>1. PICK f : RunsIn(f, CardCount, Nat, T, 0, step)
    <3>1. T \in [0..CardCount -> SUBSET Nat] /\ 0 \in T[0] /\ \A c \in 1..CardCount : T[c - 1] = Nat /\ T[c] = Nat
      BY <1>1
    <3> HIDE DEF T, step
    <3>2. KeepsIn(step, CardCount, T)
      BY <1>3, <3>1 DEF KeepsIn
    <3> QED BY <1>1, <3>1, <3>2, RecursionIn
  <2>2. \A c \in 1..CardCount : f[c - 1] \in Nat
    BY <1>1, <2>1 DEF RunsIn
  <2>3. \A c \in 0..CardCount : f[c] = d(f, c)
    BY <1>1, <1>2, <2>1, <2>2 DEF RunsIn
  <2>4. f = [c \in 0..CardCount |-> f[c]]
    BY <2>1 DEF RunsIn
  <2> HIDE DEF d
  <2> QED BY <2>3, <2>4
<1>5. Solves(low)
  <2> HIDE DEF Solves
  <2> QED BY <1>4
<1>6. Bottom(l) = low[CardCount]
  BY DEF Bottom
<1> HIDE DEF low
<1>7. \A c \in 0..CardCount : low[c] = d(low, c)
  <2> HIDE DEF d
  <2> QED BY <1>5
<1>8. low[0] = 0 /\ \A c \in 1..CardCount : low[c] = IF c \in D THEN Most(low[c - 1], l[c].y + Height) ELSE low[c - 1]
  BY <1>1, <1>2, <1>7
<1> DEFINE R == {n \in 0..CardCount : low[n] \in Nat /\ \A c \in D : c <= n => l[c].y + Height <= low[n]}
<1>9. 0 \in R
  BY <1>1, <1>2, <1>8
<1>10. ASSUME NEW n \in 0..CardCount, n \in R, n < CardCount PROVE n + 1 \in R
  <2> DEFINE k == n + 1
  <2>1. k \in 1..CardCount /\ k - 1 = n /\ k \in 0..CardCount
    BY <1>1, <1>10
  <2>2. low[n] \in Nat /\ \A c \in D : c <= n => l[c].y + Height <= low[n]
    BY <1>10
  <2>3. \A c \in D : c <= k => c <= n \/ c = k
    BY <1>2, <2>1
  <2> HIDE DEF k
  <2>4. low[k] = IF k \in D THEN Most(low[n], l[k].y + Height) ELSE low[n]
    BY <1>8, <2>1
  <2>5. low[k] \in Nat /\ low[n] <= low[k] /\ (k \in D => l[k].y + Height <= low[k])
    BY <1>2, <2>2, <2>4 DEF Most, Height
  <2>6. \A c \in D : c <= k => l[c].y + Height <= low[k]
    BY <1>2, <2>2, <2>3, <2>5 DEF Height
  <2>7. k \in R
    BY <2>1, <2>5, <2>6
  <2> QED BY <2>7 DEF k
<1>11. 0..CardCount \subseteq R
  <2> HIDE DEF R
  <2> QED BY <1>1, <1>9, <1>10, Counting
<1>12. CardCount \in R
  <2> HIDE DEF R
  <2> QED BY <1>1, <1>11
<1> QED BY <1>2, <1>6, <1>12

\* The first free place exists: at the latest, below every card.
LEMMA FreePlaceFound ==
    ASSUME NEW D \in SUBSET Cards, NEW l \in LayoutsOf(D), NEW w \in Nat, NEW width \in Nat
    PROVE  /\ findFirstFreePosition(w, l, width) \in RectRec
           /\ FreeOf(findFirstFreePosition(w, l, width), l)
<1> DEFINE slots == {Rect(x, y, w) : x \in 0..Most(0, width - w), y \in 0..(Bottom(l) + Height)}
           free == {p \in slots : FreeOf(p, l)}
           Best(p) == \A q \in free : p.y < q.y \/ (p.y = q.y /\ p.x <= q.x)
<1>1. Bottom(l) \in Nat /\ \A c \in D : l[c].y + Height <= Bottom(l)
  BY BottomIs
<1>2. DOMAIN l = D /\ \A c \in D : l[c] \in RectRec
  BY DEF LayoutsOf
<1>3. slots \subseteq RectRec
  BY <1>1 DEF Rect, RectRec, Most, Height
<1>4. free # {}
  <2> DEFINE p == Rect(0, Bottom(l) + Height, w)
  <2>1. p \in slots
    BY <1>1 DEF Most, Height
  <2>2. FreeOf(p, l)
    <3> SUFFICES ASSUME NEW c \in D PROVE ~Overlap(p, l[c])
      BY <1>2 DEF FreeOf
    <3>1. l[c].y \in Nat /\ l[c].y + 1 <= Bottom(l)
      BY <1>1, <1>2 DEF RectRec, Height
    <3>2. p.y = Bottom(l) + 1
      BY DEF Rect, Height
    <3> HIDE DEF p
    <3> QED BY <1>1, <3>1, <3>2 DEF Overlap, Height, Gap
  <2> HIDE DEF slots, p
  <2> QED BY <2>1, <2>2
<1>5. \E p \in free : Best(p)
  <2> HIDE DEF slots
  <2>1. \A p \in free : p.x \in Nat /\ p.y \in Nat
    BY <1>3 DEF RectRec
  <2> HIDE DEF free
  <2> DEFINE Ys == {p.y : p \in free}
  <2>2. PICK y \in Ys : \A z \in Ys : y <= z
    <3>1. Ys \subseteq Nat /\ Ys # {}
      BY <1>4, <2>1
    <3> HIDE DEF Ys
    <3> QED BY <3>1, LeastOf
  <2> DEFINE Xs == {p.x : p \in {q \in free : q.y = y}}
  <2>3. PICK x \in Xs : \A z \in Xs : x <= z
    <3>1. Xs \subseteq Nat /\ Xs # {}
      BY <2>1, <2>2
    <3> HIDE DEF Xs
    <3> QED BY <3>1, LeastOf
  <2>4. PICK p \in free : p.y = y /\ p.x = x
    BY <2>3
  <2>5. ASSUME NEW q \in free PROVE p.y < q.y \/ (p.y = q.y /\ p.x <= q.x)
    <3>1. y <= q.y /\ (q.y = y => x <= q.x)
      BY <2>2, <2>3
    <3> QED BY <2>1, <2>4, <3>1
  <2> QED BY <2>4, <2>5
<1>6. findFirstFreePosition(w, l, width) = CHOOSE p \in free : Best(p)
  BY DEF findFirstFreePosition
<1>7. (CHOOSE p \in free : Best(p)) \in free
  <2> HIDE DEF free, Best
  <2> QED BY <1>5
<1>8. \A p \in free : p \in RectRec /\ FreeOf(p, l)
  BY <1>3
<1> QED
  <2> HIDE DEF free, Best
  <2> QED BY <1>6, <1>7, <1>8

\* The next card in either order is one of those left.
LEMMA FirstReadLeft ==
    ASSUME NEW D \in SUBSET Cards, NEW l \in LayoutsOf(D), NEW left \in SUBSET D, left # {}
    PROVE  FirstRead(l, left) \in left
<1>1. \A c \in left : c \in Nat /\ l[c].x \in Nat /\ l[c].y \in Nat
  BY LayoutAssumption DEF LayoutsOf, RectRec, Cards
<1> DEFINE Ys == {l[c].y : c \in left}
<1>2. PICK y \in Ys : \A z \in Ys : y <= z
  <2>1. Ys \subseteq Nat /\ Ys # {}
    BY <1>1
  <2> HIDE DEF Ys
  <2> QED BY <2>1, LeastOf
<1> DEFINE Xs == {l[c].x : c \in {d \in left : l[d].y = y}}
<1>3. PICK x \in Xs : \A z \in Xs : x <= z
  <2>1. Xs \subseteq Nat /\ Xs # {}
    BY <1>1, <1>2
  <2> HIDE DEF Xs
  <2> QED BY <2>1, LeastOf
<1> DEFINE Cs == {c \in left : l[c].y = y /\ l[c].x = x}
<1>4. PICK c \in Cs : \A d \in Cs : c <= d
  <2>1. Cs \subseteq Nat /\ Cs # {}
    BY <1>1, <1>3
  <2> HIDE DEF Cs
  <2> QED BY <2>1, LeastOf
<1>5. ASSUME NEW d \in left \ {c} PROVE ReadsBefore(l, c, d)
  <2>1. y <= l[d].y /\ (l[d].y = y => x <= l[d].x) /\ (l[d].y = y /\ l[d].x = x => c <= d)
    BY <1>2, <1>3, <1>4
  <2>2. l[c].y = y /\ l[c].x = x /\ c # d /\ c \in left
    BY <1>4
  <2> QED BY <1>1, <2>1, <2>2 DEF ReadsBefore
<1>6. \E e \in left : \A d \in left \ {e} : ReadsBefore(l, e, d)
  BY <1>4, <1>5
<1> QED BY <1>6 DEF FirstRead

LEMMA FirstComposedLeft ==
    ASSUME NEW left \in SUBSET Cards, left # {}
    PROVE  FirstComposed(left) \in left
<1>1. left \subseteq Nat
  BY LayoutAssumption DEF Cards
<1>2. \A c \in left : /\ WidgetSpec(c).order = IF c = CardCount THEN 0 ELSE 1
                      /\ WidgetSpec(c).defaultW = IF c = CardCount THEN 3 ELSE 2
  BY DEF WidgetSpec
<1>3. \E e \in left : \A d \in left \ {e} : ComposesBefore(e, d)
  <2>1. CASE CardCount \in left
    BY <1>2, <2>1 DEF ComposesBefore
  <2>2. CASE CardCount \notin left
    <3>1. PICK e \in left : \A d \in left : e <= d
      BY <1>1, LeastOf
    <3> QED BY <1>1, <1>2, <2>2, <3>1 DEF ComposesBefore
  <2> QED BY <2>1, <2>2
<1> QED BY <1>3 DEF FirstComposed

LEMMA ClimbsIn ==
    ASSUME NEW N \in Nat, NEW T, NEW f, f[0] \in T[0],
           \A n \in 1..N : f[n - 1] \in T[n - 1] => f[n] \in T[n]
    PROVE  \A n \in 0..N : f[n] \in T[n]
<1> DEFINE R == {n \in 0..N : f[n] \in T[n]}
<1>1. 0 \in R
  OBVIOUS
<1>2. ASSUME NEW n \in 0..N, n \in R, n < N PROVE n + 1 \in R
  <2>1. n + 1 \in 1..N /\ n + 1 - 1 = n /\ n + 1 \in 0..N
    BY <1>2
  <2> QED BY <1>2, <2>1
<1>3. 0..N \subseteq R
  <2> HIDE DEF R
  <2> QED BY <1>1, <1>2, Counting
<1> QED BY <1>3

LEMMA CardsAreFinite == \A D \in SUBSET Cards : IsFiniteSet(D) /\ Cardinality(D) \in Nat
<1>1. IsFiniteSet(Cards)
  BY LayoutAssumption, FS_Interval DEF Cards
<1> QED BY <1>1, FS_Subset, FS_CardinalityType

LEMMA OneMore ==
    ASSUME NEW D, IsFiniteSet(D), NEW E \in SUBSET D, NEW c \in D \ E
    PROVE  Cardinality(E \cup {c}) = Cardinality(E) + 1
BY FS_Subset, FS_AddElement

LEMMA NotAllYet ==
    ASSUME NEW D, IsFiniteSet(D), NEW E \in SUBSET D
    PROVE  /\ Cardinality(E) \in Nat
           /\ Cardinality(E) = Cardinality(D) <=> E = D
BY FS_Subset, FS_CardinalityType

\* The layouts of n cards of a set.
ApartUpTo(D) == UNION {Apart(E) : E \in SUBSET D}
ApartOf(D, n) == {k \in ApartUpTo(D) : Cardinality(DOMAIN k) = n}

LEMMA ApartUpToIs ==
    ASSUME NEW D, NEW k \in ApartUpTo(D)
    PROVE  DOMAIN k \in SUBSET D /\ k \in Apart(DOMAIN k) /\ k \in LayoutsOf(DOMAIN k)
BY DEF ApartUpTo, Apart, LayoutsOf

LEMMA RepairStep ==
    ASSUME NEW D \in SUBSET Cards, NEW l \in LayoutsOf(D), NEW width \in Nat,
           NEW n \in Nat, n < Cardinality(D), NEW k \in ApartOf(D, n)
    PROVE  Repairs(l, width, FirstRead(l, D \ DOMAIN k), k) \in ApartOf(D, n + 1)
<1> DEFINE E == DOMAIN k
           c == FirstRead(l, D \ E)
           p == IF FreeOf(l[c], k) THEN l[c] ELSE findFirstFreePosition(l[c].w, k, width)
<1>1. E \in SUBSET D /\ k \in Apart(E) /\ k \in LayoutsOf(E) /\ Cardinality(E) = n
  BY ApartUpToIs DEF ApartOf
<1>2. IsFiniteSet(D) /\ Cardinality(D) \in Nat
  BY CardsAreFinite
<1>3. E # D
  BY <1>1, <1>2
<1>4. c \in D \ E
  <2>1. D \ E \in SUBSET D /\ D \ E # {}
    BY <1>1, <1>3
  <2> HIDE DEF E
  <2> QED BY <2>1, FirstReadLeft
<1> HIDE DEF c
<1>5. l[c] \in RectRec /\ l[c].w \in Nat
  BY <1>4 DEF LayoutsOf, RectRec
<1>6. p \in RectRec /\ FreeOf(p, k)
  <2>1. E \in SUBSET Cards
    BY <1>1
  <2> HIDE DEF E
  <2>2. findFirstFreePosition(l[c].w, k, width) \in RectRec /\ FreeOf(findFirstFreePosition(l[c].w, k, width), k)
    BY <1>1, <1>5, <2>1, FreePlaceFound
  <2> QED BY <1>5, <2>2
<1>7. Repairs(l, width, c, k) = With(k, c, p)
  BY DEF Repairs
<1> HIDE DEF p
<1>8. With(k, c, p) \in Apart(E \cup {c})
  <2> HIDE DEF E
  <2> QED BY <1>1, <1>4, <1>6, WithNewApart
<1>9. E \cup {c} \in SUBSET D /\ Cardinality(E \cup {c}) = n + 1
  <2> HIDE DEF E
  <2> QED BY <1>1, <1>2, <1>4, OneMore
<1>10. DOMAIN With(k, c, p) = E \cup {c}
  BY <1>8 DEF Apart, LayoutsOf
<1> QED BY <1>7, <1>8, <1>9, <1>10 DEF ApartOf, ApartUpTo, c

\* A repaired layout has the same cards and no collision.
LEMMA Repaired ==
    ASSUME NEW D \in SUBSET Cards, NEW l \in LayoutsOf(D), NEW width \in Nat
    PROVE  repairCollisions(l, width) \in Apart(D)
<1> DEFINE N == Cardinality(D)
           go(k) == Repairs(l, width, FirstRead(l, DOMAIN l \ DOMAIN k), k)
           d(f, n) == IF n = 0 THEN Empty ELSE go(f[n - 1])
           Solves(f) == f = [n \in 0..Cardinality(DOMAIN l) |-> d(f, n)]
           kept == CHOOSE f : Solves(f)
           T == [n \in 0..N |-> ApartOf(D, n)]
           step == [n \in 1..N |-> [k \in ApartUpTo(D) |-> go(k)]]
<1>1. DOMAIN l = D /\ N \in Nat
  BY CardsAreFinite DEF LayoutsOf
<1>2. /\ 0 \in 0..N /\ N \in 0..N /\ \A n \in 0..N : n = 0 \/ n \in 1..N
      /\ \A n \in 1..N : n # 0 /\ n \in 0..N /\ n - 1 \in 0..N /\ n - 1 \in Nat /\ n - 1 < N /\ n - 1 + 1 = n
  BY <1>1
<1>3. ASSUME NEW n \in 1..N, NEW k \in T[n - 1] PROVE go(k) \in T[n]
  <2>1. k \in ApartOf(D, n - 1)
    BY <1>2
  <2>2. go(k) \in ApartOf(D, n)
    BY <1>1, <1>2, <2>1, RepairStep
  <2> QED BY <1>2, <2>2
<1>4. Empty \in T[0]
  <2>1. Empty \in ApartUpTo(D) /\ DOMAIN Empty = {}
    BY EmptyApart DEF ApartUpTo, Empty
  <2> QED BY <1>2, <2>1, FS_EmptySet DEF ApartOf
<1>5. \E f : Solves(f)
  <2>1. T \in [0..N -> SUBSET ApartUpTo(D)]
    BY DEF ApartOf
  <2>2. KeepsIn(step, N, T)
    <3>1. ASSUME NEW n \in 1..N, NEW k \in T[n - 1] PROVE step[n][k] \in T[n]
      <4>1. k \in ApartUpTo(D)
        BY <1>2, <2>1
      <4>2. step[n][k] = go(k)
        <5> HIDE DEF go, T
        <5> QED BY <4>1
      <4> HIDE DEF step, go, T
      <4> QED BY <1>3, <4>2
    <3> HIDE DEF step, T, N
    <3> QED BY <3>1 DEF KeepsIn
  <2> HIDE DEF step, T
  <2>3. PICK f : RunsIn(f, N, ApartUpTo(D), T, Empty, step)
    BY <1>1, <1>4, <2>1, <2>2, RecursionIn
  <2>4. \A n \in 1..N : f[n - 1] \in ApartUpTo(D) /\ f[n] = step[n][f[n - 1]]
    BY <1>2, <2>3 DEF RunsIn
  <2>5. \A n \in 1..N : f[n] = go(f[n - 1])
    <3> HIDE DEF go, N
    <3> QED BY <2>4 DEF step
  <2> HIDE DEF go
  <2>6. \A n \in 0..N : f[n] = d(f, n)
    BY <1>2, <2>3, <2>5 DEF RunsIn
  <2>7. f = [n \in 0..N |-> f[n]]
    BY <2>3 DEF RunsIn
  <2> HIDE DEF d
  <2>8. f = [n \in 0..Cardinality(DOMAIN l) |-> d(f, n)]
    BY <1>1, <2>6, <2>7
  <2> QED BY <2>8
<1>6. Solves(kept)
  <2> HIDE DEF Solves
  <2> QED BY <1>5
<1>7. repairCollisions(l, width) = kept[N]
  BY <1>1 DEF repairCollisions
<1> HIDE DEF kept
<1>8. \A n \in 0..N : kept[n] = d(kept, n)
  <2> HIDE DEF d
  <2> QED BY <1>1, <1>6
<1>9. kept[0] \in T[0] /\ \A n \in 1..N : kept[n] = go(kept[n - 1])
  <2> HIDE DEF go, T
  <2> QED BY <1>2, <1>4, <1>8
<1>10. \A n \in 1..N : kept[n - 1] \in T[n - 1] => kept[n] \in T[n]
  <2> HIDE DEF go, T
  <2> QED BY <1>3, <1>9
<1>11. kept[N] \in T[N]
  <2> HIDE DEF T
  <2>1. \A n \in 0..N : kept[n] \in T[n]
    BY <1>1, <1>9, <1>10, ClimbsIn
  <2> QED BY <1>2, <2>1
<1>12. kept[N] \in ApartOf(D, N)
  BY <1>2, <1>11
<1>13. DOMAIN kept[N] \in SUBSET D /\ kept[N] \in Apart(DOMAIN kept[N]) /\ Cardinality(DOMAIN kept[N]) = N
  BY <1>12, ApartUpToIs DEF ApartOf
<1>14. DOMAIN kept[N] = D
  BY <1>13, CardsAreFinite, NotAllYet
<1> QED BY <1>7, <1>13, <1>14

LEMMA SizeTyped ==
    ASSUME NEW c, NEW w \in Nat, NEW x \in Nat, NEW width \in Nat
    PROVE  clampWidgetSize(c, w, x, width) \in Nat /\ WidgetSpec(c).defaultW \in Nat
<1>1. /\ WidgetSpec(c).minW = IF c = CardCount THEN 2 ELSE 1
      /\ WidgetSpec(c).maxW = IF c = CardCount THEN 4 ELSE 2
      /\ WidgetSpec(c).defaultW = IF c = CardCount THEN 3 ELSE 2
  BY DEF WidgetSpec
<1> QED BY <1>1 DEF clampWidgetSize, Least, Most

LEMMA ClampedInside ==
    ASSUME NEW p \in RectRec, NEW width \in Nat
    PROVE  clampPlacement(p, width) \in RectRec
<1>1. p.x \in Nat /\ p.y \in Nat /\ p.w \in Nat
  BY DEF RectRec
<1>2. Most(0, Least(p.x, Most(0, width - p.w))) \in Nat /\ Most(0, p.y) \in Nat
  BY <1>1 DEF Most, Least
<1> QED BY <1>1, <1>2, RectTyped DEF clampPlacement

LEMMA SizedTyped ==
    ASSUME NEW p \in RectRec, NEW w \in Nat
    PROVE  Sized(p, w) \in RectRec
BY RectTyped DEF Sized, RectRec

LEMMA ClampedTyped ==
    ASSUME NEW D, NEW items \in LayoutsOf(D), NEW cards, NEW width \in Nat
    PROVE  Clamped(items, cards, width) \in LayoutsOf(D \cap cards)
<1> DEFINE full(c) == IF items[c].w = 0 THEN Sized(items[c], WidgetSpec(c).defaultW) ELSE items[c]
           p(c) == clampPlacement(full(c), width)
           q(c) == Sized(p(c), clampWidgetSize(c, p(c).w, p(c).x, width))
<1>1. ASSUME NEW c \in D PROVE q(c) \in RectRec
  <2>1. items[c] \in RectRec /\ WidgetSpec(c).defaultW \in Nat
    BY SizeTyped, <1>1 DEF LayoutsOf
  <2>2. full(c) \in RectRec
    BY <2>1, SizedTyped
  <2> HIDE DEF full
  <2>3. p(c) \in RectRec
    BY <2>2, ClampedInside
  <2> HIDE DEF p
  <2>4. p(c).w \in Nat /\ p(c).x \in Nat
    BY <2>3 DEF RectRec
  <2>5. clampWidgetSize(c, p(c).w, p(c).x, width) \in Nat
    BY <2>4, SizeTyped
  <2> QED BY <2>3, <2>5, SizedTyped
<1>2. DOMAIN items = D
  BY DEF LayoutsOf
<1>3. Clamped(items, cards, width) = [c \in D \cap cards |-> q(c)]
  BY <1>2 DEF Clamped
<1> HIDE DEF q
<1> QED BY <1>1, <1>3 DEF LayoutsOf

\* The layouts of n new cards beside those of D.
CompletedBy(D, new, n) ==
    {k \in ApartUpTo(D \cup new) : D \subseteq DOMAIN k /\ Cardinality(DOMAIN k \ D) = n}

LEMMA CompleteStep ==
    ASSUME NEW D \in SUBSET Cards, NEW new \in SUBSET Cards, D \cap new = {}, NEW width \in Nat,
           NEW n \in Nat, n < Cardinality(new), NEW k \in CompletedBy(D, new, n)
    PROVE  LET c == FirstComposed(new \ DOMAIN k)
           IN  With(k, c, findFirstFreePosition(clampWidgetSize(c, WidgetSpec(c).defaultW, 0, width), k, width))
                  \in CompletedBy(D, new, n + 1)
<1> DEFINE E == DOMAIN k
           c == FirstComposed(new \ E)
           w == clampWidgetSize(c, WidgetSpec(c).defaultW, 0, width)
           p == findFirstFreePosition(w, k, width)
<1>1. E \in SUBSET (D \cup new) /\ k \in Apart(E) /\ k \in LayoutsOf(E) /\ D \subseteq E /\ Cardinality(E \ D) = n
  BY ApartUpToIs DEF CompletedBy
<1>2. IsFiniteSet(new) /\ Cardinality(new) \in Nat
  BY CardsAreFinite
<1>3. E \ D \in SUBSET new /\ E \ D # new
  BY <1>1, <1>2
<1>4. c \in new \ E
  <2>1. new \ E \in SUBSET Cards /\ new \ E # {}
    BY <1>1, <1>3
  <2> HIDE DEF E
  <2> QED BY <2>1, FirstComposedLeft
<1> HIDE DEF c
<1>5. w \in Nat
  BY SizeTyped
<1> HIDE DEF w
<1>6. p \in RectRec /\ FreeOf(p, k)
  <2>1. E \in SUBSET Cards
    BY <1>1
  <2> HIDE DEF E
  <2> QED BY <1>1, <1>5, <2>1, FreePlaceFound
<1> HIDE DEF p
<1>7. With(k, c, p) \in Apart(E \cup {c})
  <2> HIDE DEF E
  <2> QED BY <1>1, <1>4, <1>6, WithNewApart
<1>8. /\ E \cup {c} \in SUBSET (D \cup new) /\ D \subseteq E \cup {c}
      /\ Cardinality((E \cup {c}) \ D) = n + 1
  <2>1. c \in new \ (E \ D) /\ (E \cup {c}) \ D = (E \ D) \cup {c}
    BY <1>1, <1>4
  <2>2. Cardinality((E \ D) \cup {c}) = n + 1
    <3> HIDE DEF E
    <3> QED BY <1>1, <1>2, <1>3, <2>1, OneMore
  <2> QED BY <1>1, <1>4, <2>1, <2>2
<1>9. DOMAIN With(k, c, p) = E \cup {c}
  BY <1>7 DEF Apart, LayoutsOf
<1>10. With(k, c, p) \in CompletedBy(D, new, n + 1)
  BY <1>7, <1>8, <1>9 DEF CompletedBy, ApartUpTo
<1> QED BY <1>10 DEF c, w, p

\* Completing a layout adds the missing cards and no collision.
LEMMA CompletedIs ==
    ASSUME NEW D \in SUBSET Cards, NEW l \in Apart(D), NEW hidden, NEW cards \in SUBSET Cards, NEW width \in Nat
    PROVE  Completed(l, hidden, cards, width) \in Apart(D \cup (cards \ hidden))
<1> DEFINE new == cards \ (D \cup hidden)
           N == Cardinality(new)
           go(k) == LET c == FirstComposed(new \ DOMAIN k)
                    IN  With(k, c, findFirstFreePosition(
                                       clampWidgetSize(c, WidgetSpec(c).defaultW, 0, width), k, width))
           d(f, n) == IF n = 0 THEN l ELSE go(f[n - 1])
           Solves(f) == f = [n \in 0..N |-> d(f, n)]
           placed == CHOOSE f : Solves(f)
           T == [n \in 0..N |-> CompletedBy(D, new, n)]
           step == [n \in 1..N |-> [k \in ApartUpTo(D \cup new) |-> go(k)]]
<1>1. DOMAIN l = D /\ N \in Nat /\ new \in SUBSET Cards /\ D \cap new = {}
  BY CardsAreFinite DEF LayoutsOf, Apart
<1>2. /\ 0 \in 0..N /\ N \in 0..N /\ \A n \in 0..N : n = 0 \/ n \in 1..N
      /\ \A n \in 1..N : n # 0 /\ n \in 0..N /\ n - 1 \in 0..N /\ n - 1 \in Nat /\ n - 1 < N /\ n - 1 + 1 = n
  BY <1>1
<1>3. ASSUME NEW n \in 1..N, NEW k \in T[n - 1] PROVE go(k) \in T[n]
  <2> HIDE DEF new
  <2>1. k \in CompletedBy(D, new, n - 1)
    BY <1>2
  <2>2. go(k) \in CompletedBy(D, new, n - 1 + 1)
    BY <1>1, <1>2, <2>1, CompleteStep
  <2>3. go(k) \in CompletedBy(D, new, n)
    <3> HIDE DEF go
    <3> QED BY <1>2, <2>2
  <2> HIDE DEF go
  <2> QED BY <1>2, <2>3
<1>4. l \in T[0]
  <2>1. l \in ApartUpTo(D \cup new) /\ DOMAIN l \ D = {}
    BY <1>1 DEF ApartUpTo
  <2> HIDE DEF new
  <2> QED BY <1>1, <1>2, <2>1, FS_EmptySet DEF CompletedBy
<1>5. Completed(l, hidden, cards, width) = placed[N]
  BY <1>1 DEF Completed
<1> HIDE DEF new
<1>6. \E f : Solves(f)
  <2>1. T \in [0..N -> SUBSET ApartUpTo(D \cup new)]
    BY DEF CompletedBy
  <2>2. KeepsIn(step, N, T)
    <3>1. ASSUME NEW n \in 1..N, NEW k \in T[n - 1] PROVE step[n][k] \in T[n]
      <4>1. k \in ApartUpTo(D \cup new)
        BY <1>2, <2>1
      <4>2. step[n][k] = go(k)
        <5> HIDE DEF go, T
        <5> QED BY <4>1
      <4> HIDE DEF step, go, T
      <4> QED BY <1>3, <4>2
    <3> HIDE DEF step, T, N
    <3> QED BY <3>1 DEF KeepsIn
  <2> HIDE DEF step, T
  <2>3. PICK f : RunsIn(f, N, ApartUpTo(D \cup new), T, l, step)
    BY <1>1, <1>4, <2>1, <2>2, RecursionIn
  <2>4. \A n \in 1..N : f[n - 1] \in ApartUpTo(D \cup new) /\ f[n] = step[n][f[n - 1]]
    BY <1>2, <2>3 DEF RunsIn
  <2>5. \A n \in 1..N : f[n] = go(f[n - 1])
    <3> HIDE DEF go, N
    <3> QED BY <2>4 DEF step
  <2> HIDE DEF go
  <2>6. \A n \in 0..N : f[n] = d(f, n)
    BY <1>2, <2>3, <2>5 DEF RunsIn
  <2>7. f = [n \in 0..N |-> f[n]]
    BY <2>3 DEF RunsIn
  <2> HIDE DEF d
  <2>8. f = [n \in 0..N |-> d(f, n)]
    BY <2>6, <2>7
  <2> QED BY <2>8
<1>7. Solves(placed)
  <2> HIDE DEF Solves
  <2> QED BY <1>6
<1> HIDE DEF placed
<1>8. \A n \in 0..N : placed[n] = d(placed, n)
  <2> HIDE DEF d
  <2> QED BY <1>1, <1>7
<1>9. placed[0] \in T[0] /\ \A n \in 1..N : placed[n] = go(placed[n - 1])
  <2> HIDE DEF go, T
  <2> QED BY <1>2, <1>4, <1>8
<1>10. \A n \in 1..N : placed[n - 1] \in T[n - 1] => placed[n] \in T[n]
  <2> HIDE DEF go, T
  <2> QED BY <1>3, <1>9
<1>11. placed[N] \in T[N]
  <2> HIDE DEF T
  <2>1. \A n \in 0..N : placed[n] \in T[n]
    BY <1>1, <1>9, <1>10, ClimbsIn
  <2> QED BY <1>2, <2>1
<1> DEFINE E == DOMAIN placed[N]
<1>12. placed[N] \in CompletedBy(D, new, N)
  BY <1>2, <1>11
<1>13. E \in SUBSET (D \cup new) /\ placed[N] \in Apart(E) /\ D \subseteq E /\ Cardinality(E \ D) = N
  BY <1>12, ApartUpToIs DEF CompletedBy
<1>14. E \ D = new
  <2>1. E \ D \in SUBSET new /\ IsFiniteSet(new)
    BY <1>1, <1>13, CardsAreFinite
  <2> HIDE DEF E
  <2> QED BY <1>13, <2>1, NotAllYet
<1>15. E = D \cup (cards \ hidden)
  BY <1>13, <1>14 DEF new
<1> QED BY <1>5, <1>13, <1>15

LEMMA FunctionIsSeq ==
    ASSUME NEW S, NEW n \in Nat, NEW f \in [1..n -> S]
    PROVE  f \in Seq(S) /\ Len(f) = n
OBVIOUS

\* In a row each card begins where the one before it and the gap end, or later.
LEMMA EdgesIs ==
    ASSUME NEW widths \in Seq(Nat)
    PROVE  /\ \A k \in 0..Len(widths) : Edges(widths)[k] \in Nat
           /\ \A j, k \in 0..Len(widths) :
                 j < k => Edges(widths)[j] + widths[j + 1] + Gap <= Edges(widths)[k]
<1> DEFINE N == Len(widths)
           d(f, k) == IF k = 0 THEN 0 ELSE f[k - 1] + widths[k] + Gap
           Solves(f) == f = [k \in 0..Len(widths) |-> d(f, k)]
           edge == CHOOSE f : Solves(f)
           step == [k \in 1..N |-> [s \in Nat |-> s + widths[k] + Gap]]
           T == [k \in 0..N |-> Nat]
<1>1. /\ N \in Nat /\ 0 \in 0..N /\ \A k \in 0..N : k = 0 \/ k \in 1..N
      /\ \A k \in 1..N : k \in 0..N /\ k # 0 /\ k - 1 \in 0..N
      /\ \A k \in 1..N : widths[k] \in Nat
  OBVIOUS
<1>3. \A k \in 1..N : \A s \in Nat : step[k][s] \in Nat
  BY <1>1 DEF Gap
<1>4. \E f : Solves(f)
  <2>1. PICK f : RunsIn(f, N, Nat, T, 0, step)
    <3>1. T \in [0..N -> SUBSET Nat] /\ 0 \in T[0] /\ \A k \in 1..N : T[k - 1] = Nat /\ T[k] = Nat
      BY <1>1
    <3> HIDE DEF T, step, N
    <3>2. KeepsIn(step, N, T)
      BY <1>3, <3>1 DEF KeepsIn
    <3> QED BY <1>1, <3>1, <3>2, RecursionIn
  <2>2. \A k \in 1..N : f[k - 1] \in Nat /\ f[k] = step[k][f[k - 1]]
    <3> HIDE DEF N, step
    <3> QED BY <1>1, <2>1 DEF RunsIn
  <2>3. \A k \in 0..N : f[k] = d(f, k)
    BY <1>1, <2>1, <2>2 DEF RunsIn
  <2>4. f = [k \in 0..N |-> f[k]]
    BY <2>1 DEF RunsIn
  <2> HIDE DEF d
  <2> QED BY <2>3, <2>4
<1>5. Solves(edge)
  <2> HIDE DEF Solves
  <2> QED BY <1>4
<1>6. Edges(widths) = edge
  BY DEF Edges
<1> HIDE DEF edge
<1>7. \A k \in 0..N : edge[k] = d(edge, k)
  <2> HIDE DEF d
  <2> QED BY <1>5
<1> HIDE DEF N
<1>8. edge[0] = 0 /\ \A k \in 1..N : edge[k] = edge[k - 1] + widths[k] + 1
  BY <1>1, <1>7 DEF Gap
<1> DEFINE R == {n \in 0..N : /\ edge[n] \in Nat
                              /\ \A j \in 0..N : j < n => edge[j] + widths[j + 1] + 1 <= edge[n]}
<1>9. 0 \in R
  BY <1>1, <1>8
<1>10. ASSUME NEW n \in 0..N, n \in R, n < N PROVE n + 1 \in R
  <2> DEFINE k == n + 1
  <2>1. k \in 1..N /\ k - 1 = n /\ k \in 0..N /\ widths[k] \in Nat
    BY <1>1, <1>10
  <2>2. edge[n] \in Nat /\ \A j \in 0..N : j < n => edge[j] + widths[j + 1] + 1 <= edge[n]
    BY <1>10
  <2>3. edge[k] = edge[n] + widths[k] + 1
    <3> HIDE DEF k
    <3> QED BY <1>8, <2>1
  <2>4. ASSUME NEW j \in 0..N, j < k PROVE edge[j] + widths[j + 1] + 1 <= edge[k]
    <3>1. CASE j = n
      BY <2>2, <2>3, <3>1, <2>1
    <3>2. CASE j < n
      <4>1. edge[j] \in Nat /\ widths[j + 1] \in Nat
        <5>1. j + 1 \in 1..N /\ j \in 0..N
          BY <1>1, <1>10, <3>2
        <5>2. \A m \in 0..n : edge[m] \in Nat
          <6> DEFINE Q == {m \in 0..n : edge[m] \in Nat}
          <6>1. 0 \in Q
            BY <1>1, <1>8
          <6>2. ASSUME NEW m \in 0..n, m \in Q, m < n PROVE m + 1 \in Q
            <7>1. m + 1 \in 1..N /\ m + 1 - 1 = m /\ m + 1 \in 0..n /\ widths[m + 1] \in Nat
              BY <1>1, <6>2
            <7>2. edge[m + 1] = edge[m + 1 - 1] + widths[m + 1] + 1
              BY <1>8, <7>1
            <7> QED BY <6>2, <7>1, <7>2
          <6>3. 0..n \subseteq Q
            <7> HIDE DEF Q
            <7>1. n \in Nat
              BY <1>1
            <7> QED BY <6>1, <6>2, <7>1, Counting
          <6> QED BY <6>3
        <5> QED BY <1>1, <3>2, <5>1, <5>2
      <4>2. edge[j] + widths[j + 1] + 1 <= edge[n]
        BY <2>2, <3>2
      <4> HIDE DEF k
      <4> QED BY <2>1, <2>2, <2>3, <4>1, <4>2
    <3>3. j \in Int /\ n \in Int
      BY <1>1
    <3> QED BY <2>4, <3>1, <3>2, <3>3
  <2>5. edge[k] \in Nat
    BY <2>1, <2>2, <2>3
  <2> HIDE DEF k
  <2>6. k \in R
    BY <2>1, <2>4, <2>5
  <2> QED BY <2>6 DEF k
<1>11. 0..N \subseteq R
  <2> HIDE DEF R
  <2> QED BY <1>1, <1>9, <1>10, Counting
<1>12. \A k \in 0..N : k \in R
  <2> HIDE DEF R
  <2> QED BY <1>11
<1> QED BY <1>6, <1>12 DEF N, Gap

LEMMA Shares ==
    ASSUME NEW a \in Nat, NEW n \in Nat \ {0}
    PROVE  a \div n \in Nat /\ a % n \in Nat
OBVIOUS

\* The cards of a row keep a width, and the slack widens them.
LEMMA JustifiedTyped ==
    ASSUME NEW row \in Seq(Cards), row # <<>>, NEW w \in [Cards -> Nat], NEW width \in Nat
    PROVE  Justified(row, w, width) \in Seq(Nat) /\ Len(Justified(row, w, width)) = Len(row)
<1>1. Len(row) \in Nat \ {0} /\ DOMAIN row = 1..Len(row) /\ \A i \in 1..Len(row) : w[row[i]] \in Nat
  OBVIOUS
<1>2. Units(row, w) \in [1..Len(row) -> Nat]
  BY <1>1 DEF Units
<1>3. Units(row, w) \in Seq(Nat) /\ Len(Units(row, w)) = Len(row)
  BY <1>1, <1>2, FunctionIsSeq
<1>4. Total(row, w) \in Int
  <2>1. Edges(Units(row, w))[Len(row)] \in Nat
    BY <1>1, <1>3, EdgesIs
  <2> QED BY <2>1 DEF Total, Gap
<1> DEFINE slack == IF Len(row) > 1 THEN Most(0, width - Total(row, w)) ELSE 0
<1>5. slack \in Nat
  BY <1>4 DEF Most
<1>6. slack \div Len(row) \in Nat /\ slack % Len(row) \in Nat
  <2> HIDE DEF slack
  <2> QED BY <1>1, <1>5, Shares
<1>7. Justified(row, w, width) =
          [i \in 1..Len(row) |-> w[row[i]] + slack \div Len(row) + (IF i <= slack % Len(row) THEN 1 ELSE 0)]
  BY <1>1 DEF Justified
<1> HIDE DEF slack
<1>8. Justified(row, w, width) \in [1..Len(row) -> Nat]
  BY <1>1, <1>6, <1>7
<1> QED BY <1>1, <1>8, FunctionIsSeq

LEMMA ScaledTyped ==
    ASSUME NEW c, NEW floor \in Nat, NEW width \in Nat
    PROVE  Scaled(c, floor, width) \in Nat
<1>1. WidgetSpec(c).defaultW \in Nat /\ Reference \in Nat \ {0} /\ 2 * Reference \in Nat \ {0}
  BY SizeTyped, LayoutAssumption
<1> DEFINE a == 2 * WidgetSpec(c).defaultW * width + Reference
<1>2. a \in Nat
  BY <1>1
<1>3. a \div (2 * Reference) \in Nat
  <2> HIDE DEF a
  <2> QED BY <1>1, <1>2, Shares
<1>4. Scaled(c, floor, width) = Most(1, Least(width, Most(floor, a \div (2 * Reference))))
  BY DEF Scaled
<1> HIDE DEF a
<1> QED BY <1>3, <1>4 DEF Most, Least

\* Rows of cards; In says that a card stands in one of them.
RowSeqs == Seq(Seq(Cards) \ {<<>>})
In(rows, c) == \E r \in DOMAIN rows : \E i \in DOMAIN rows[r] : rows[r][i] = c
RowsUpTo(cards, n) == {rows \in RowSeqs : (n > 0 => rows # <<>>) /\ \A m \in 1..n : In(rows, cards[m])}

LEMMA RowStays ==
    ASSUME NEW rows \in RowSeqs, NEW row \in Seq(Cards), row # <<>>, NEW c, In(rows, c)
    PROVE  In(Append(rows, row), c)
<1>1. PICK r \in DOMAIN rows : \E i \in DOMAIN rows[r] : rows[r][i] = c
  BY DEF In
<1>2. r \in DOMAIN Append(rows, row) /\ Append(rows, row)[r] = rows[r]
  BY DEF RowSeqs
<1> QED BY <1>1, <1>2 DEF In

LEMMA RowLengthened ==
    ASSUME NEW rows \in RowSeqs, rows # <<>>, NEW card \in Cards
    PROVE  LET long == [rows EXCEPT ![Len(rows)] = Append(rows[Len(rows)], card)]
           IN  /\ long \in RowSeqs /\ long # <<>> /\ In(long, card)
               /\ \A c : In(rows, c) => In(long, c)
<1> DEFINE L == Len(rows)
           last == rows[L]
           new == Append(last, card)
           long == [rows EXCEPT ![L] = new]
<1>1. L \in Nat \ {0} /\ L \in DOMAIN rows /\ DOMAIN rows = 1..L /\ last \in Seq(Cards)
  BY DEF RowSeqs
<1>2. /\ new \in Seq(Cards) /\ new # <<>> /\ Len(last) + 1 \in DOMAIN new /\ new[Len(last) + 1] = card
      /\ \A i \in DOMAIN last : i \in DOMAIN new /\ new[i] = last[i]
  <2> HIDE DEF last
  <2> QED BY <1>1
<1>3. rows \in Seq(Seq(Cards) \ {<<>>})
  BY DEF RowSeqs
<1> HIDE DEF new
<1>4. long \in Seq(Seq(Cards) \ {<<>>}) /\ Len(long) = L
  BY <1>1, <1>2, <1>3
<1>5. DOMAIN long = DOMAIN rows /\ long[L] = new /\ \A r \in DOMAIN rows : r # L => long[r] = rows[r]
  BY <1>1
<1> HIDE DEF long
<1>6. In(long, card)
  BY <1>1, <1>2, <1>5 DEF In
<1>7. ASSUME NEW c, In(rows, c) PROVE In(long, c)
  <2>1. PICK r \in DOMAIN rows : \E i \in DOMAIN rows[r] : rows[r][i] = c
    BY <1>7 DEF In
  <2>2. PICK i \in DOMAIN rows[r] : rows[r][i] = c
    BY <2>1
  <2>3. i \in DOMAIN long[r] /\ long[r][i] = c
    <3>1. CASE r = L
      BY <1>2, <1>5, <2>2, <3>1
    <3>2. CASE r # L
      BY <1>5, <2>2, <3>2
    <3> QED BY <3>1, <3>2
  <2> QED BY <1>5, <2>3 DEF In
<1>8. long # <<>>
  BY <1>1, <1>4
<1> QED BY <1>4, <1>6, <1>7, <1>8 DEF long, new, RowSeqs

LEMMA RowStarted ==
    ASSUME NEW rows \in RowSeqs, NEW card \in Cards
    PROVE  LET more == Append(rows, <<card>>)
           IN  /\ more \in RowSeqs /\ more # <<>> /\ In(more, card)
               /\ \A c : In(rows, c) => In(more, c)
<1>1. <<card>> \in Seq(Cards) /\ <<card>> # <<>>
  OBVIOUS
<1>2. \A c : In(rows, c) => In(Append(rows, <<card>>), c)
  BY <1>1, RowStays
<1>3. /\ Append(rows, <<card>>) \in RowSeqs /\ Append(rows, <<card>>) # <<>>
      /\ Len(rows) + 1 \in DOMAIN Append(rows, <<card>>)
      /\ Append(rows, <<card>>)[Len(rows) + 1] = <<card>>
  <2> DEFINE X == Seq(Cards) \ {<<>>}
             row == <<card>>
  <2>1. row \in X /\ rows \in Seq(X)
    BY <1>1 DEF RowSeqs
  <2> HIDE DEF X, row
  <2>2. Append(rows, row) \in Seq(X) /\ Len(Append(rows, row)) = Len(rows) + 1 /\ Append(rows, row)[Len(rows) + 1] = row
    BY <2>1
  <2>3. Append(rows, row) # <<>> /\ Len(rows) + 1 \in DOMAIN Append(rows, row)
    BY <2>1, <2>2
  <2> QED BY <2>2, <2>3 DEF X, row, RowSeqs
<1>4. In(Append(rows, <<card>>), card)
  <2>1. 1 \in DOMAIN <<card>> /\ <<card>>[1] = card
    OBVIOUS
  <2> QED BY <1>3, <2>1 DEF In
<1> QED BY <1>2, <1>3, <1>4

\* Every card of the sequence stands in some row.
LEMMA RowsOfIs ==
    ASSUME NEW cards \in Seq(Cards), NEW w, NEW width
    PROVE  RowsOf(cards, w, width) \in RowsUpTo(cards, Len(cards))
<1> DEFINE N == Len(cards)
           Fits(rows, n) == n > 1 /\ Total(Append(rows[Len(rows)], cards[n]), w) <= width
           go(rows, n) ==
               IF Fits(rows, n)
               THEN [rows EXCEPT ![Len(rows)] = Append(rows[Len(rows)], cards[n])]
               ELSE Append(rows, <<cards[n]>>)
           d(f, n) == IF n = 0 THEN <<>> ELSE go(f[n - 1], n)
           Solves(f) == f = [n \in 0..N |-> d(f, n)]
           fill == CHOOSE f : Solves(f)
           T == [n \in 0..N |-> RowsUpTo(cards, n)]
           step == [n \in 1..N |-> [rows \in RowSeqs |-> go(rows, n)]]
<1>1. /\ N \in Nat /\ 0 \in 0..N /\ N \in 0..N /\ \A n \in 0..N : n = 0 \/ n \in 1..N
      /\ \A n \in 1..N : n # 0 /\ n \in 0..N /\ n - 1 \in 0..N
      /\ \A n \in 1..N : cards[n] \in Cards
  OBVIOUS
<1>2. ASSUME NEW n \in 1..N, NEW rows \in T[n - 1] PROVE go(rows, n) \in T[n]
  <2>1. rows \in RowSeqs /\ (n - 1 > 0 => rows # <<>>) /\ \A m \in 1..(n - 1) : In(rows, cards[m])
    BY <1>1 DEF RowsUpTo
  <2>2. cards[n] \in Cards /\ \A m \in 1..n : m = n \/ m \in 1..(n - 1)
    BY <1>1
  <2> DEFINE next == go(rows, n)
  <2>3. next \in RowSeqs /\ next # <<>> /\ In(next, cards[n]) /\ \A c : In(rows, c) => In(next, c)
    <3>1. CASE Fits(rows, n)
      <4>1. rows # <<>>
        BY <1>1, <2>1, <3>1
      <4>2. next = [rows EXCEPT ![Len(rows)] = Append(rows[Len(rows)], cards[n])]
        BY <3>1
      <4> HIDE DEF next
      <4> QED BY <2>1, <2>2, <4>1, <4>2, RowLengthened
    <3>2. CASE ~Fits(rows, n)
      <4>1. next = Append(rows, <<cards[n]>>)
        BY <3>2
      <4> HIDE DEF next
      <4> QED BY <2>1, <2>2, <4>1, RowStarted
    <3> QED BY <3>1, <3>2
  <2> HIDE DEF next
  <2>4. next \in RowsUpTo(cards, n)
    BY <2>1, <2>2, <2>3 DEF RowsUpTo
  <2>5. next \in T[n]
    BY <1>1, <2>4
  <2> QED BY <2>5 DEF next
<1>3. <<>> \in T[0]
  BY <1>1 DEF RowsUpTo, RowSeqs
<1>4. \E f : Solves(f)
  <2>1. T \in [0..N -> SUBSET RowSeqs]
    BY DEF RowsUpTo
  <2>2. KeepsIn(step, N, T)
    <3>1. ASSUME NEW n \in 1..N, NEW rows \in T[n - 1] PROVE step[n][rows] \in T[n]
      <4>1. rows \in RowSeqs
        BY <1>1, <2>1
      <4>2. step[n][rows] = go(rows, n)
        <5> HIDE DEF go, T
        <5> QED BY <4>1
      <4> HIDE DEF step, go, T
      <4> QED BY <1>2, <4>2
    <3> HIDE DEF step, T, N
    <3> QED BY <3>1 DEF KeepsIn
  <2> HIDE DEF step, T
  <2>3. PICK f : RunsIn(f, N, RowSeqs, T, <<>>, step)
    BY <1>1, <1>3, <2>1, <2>2, RecursionIn
  <2>4. \A n \in 1..N : f[n - 1] \in RowSeqs /\ f[n] = step[n][f[n - 1]]
    BY <1>1, <2>3 DEF RunsIn
  <2>5. \A n \in 1..N : f[n] = go(f[n - 1], n)
    <3> HIDE DEF go, N
    <3> QED BY <2>4 DEF step
  <2> HIDE DEF go
  <2>6. \A n \in 0..N : f[n] = d(f, n)
    BY <1>1, <2>3, <2>5 DEF RunsIn
  <2>7. f = [n \in 0..N |-> f[n]]
    BY <2>3 DEF RunsIn
  <2> HIDE DEF d
  <2>8. f = [n \in 0..N |-> d(f, n)]
    BY <2>6, <2>7
  <2> QED BY <2>8
<1>5. Solves(fill)
  <2> HIDE DEF Solves
  <2> QED BY <1>4
<1>6. RowsOf(cards, w, width) = fill[N]
  BY DEF RowsOf
<1> HIDE DEF fill
<1>7. \A n \in 0..N : fill[n] = d(fill, n)
  <2> HIDE DEF d
  <2> QED BY <1>1, <1>5
<1>8. fill[0] \in T[0] /\ \A n \in 1..N : fill[n] = go(fill[n - 1], n)
  <2> HIDE DEF go, T
  <2> QED BY <1>1, <1>3, <1>7
<1>9. \A n \in 1..N : fill[n - 1] \in T[n - 1] => fill[n] \in T[n]
  <2> HIDE DEF go, T
  <2> QED BY <1>2, <1>8
<1>10. fill[N] \in T[N]
  <2> HIDE DEF T
  <2>1. \A n \in 0..N : fill[n] \in T[n]
    BY <1>1, <1>8, <1>9, ClimbsIn
  <2> QED BY <1>1, <2>1
<1> QED BY <1>1, <1>6, <1>10

\* Where the card of place i of row r goes.
PlaceIn(rows, w, width, r, i) ==
    Rect(Edges(Justified(rows[r], w, width))[i - 1], (r - 1) * (Height + Gap), Justified(rows[r], w, width)[i])

LEMMA PlacesApart ==
    ASSUME NEW rows \in RowSeqs, NEW w \in [Cards -> Nat], NEW width \in Nat,
           NEW r \in DOMAIN rows, NEW i \in DOMAIN rows[r], NEW s \in DOMAIN rows, NEW j \in DOMAIN rows[s]
    PROVE  /\ PlaceIn(rows, w, width, r, i) \in RectRec
           /\ r < s \/ (r = s /\ i < j) => ~Overlap(PlaceIn(rows, w, width, r, i), PlaceIn(rows, w, width, s, j))
<1>1. /\ rows[r] \in Seq(Cards) /\ rows[r] # <<>> /\ rows[s] \in Seq(Cards) /\ rows[s] # <<>>
      /\ r \in Nat \ {0} /\ s \in Nat \ {0}
  <2> DEFINE X == Seq(Cards) \ {<<>>}
  <2>1. rows \in Seq(X)
    BY DEF RowSeqs
  <2>2. rows[r] \in X /\ rows[s] \in X /\ r \in Nat \ {0} /\ s \in Nat \ {0}
    <3> HIDE DEF X
    <3> QED BY <2>1
  <2> QED BY <2>2
<1>2. i \in 1..Len(rows[r]) /\ j \in 1..Len(rows[s])
  BY <1>1
<1> DEFINE u == Justified(rows[r], w, width)
           v == Justified(rows[s], w, width)
<1>3. u \in Seq(Nat) /\ Len(u) = Len(rows[r]) /\ v \in Seq(Nat) /\ Len(v) = Len(rows[s])
  BY <1>1, JustifiedTyped
<1> HIDE DEF u, v
<1>4. /\ i - 1 \in 0..Len(u) /\ u[i] \in Nat /\ Edges(u)[i - 1] \in Nat
      /\ j - 1 \in 0..Len(v) /\ v[j] \in Nat /\ Edges(v)[j - 1] \in Nat
  <2>1. i - 1 \in 0..Len(u) /\ u[i] \in Nat /\ j - 1 \in 0..Len(v) /\ v[j] \in Nat
    BY <1>2, <1>3
  <2> QED BY <1>3, <2>1, EdgesIs
<1> DEFINE p == PlaceIn(rows, w, width, r, i)
           q == PlaceIn(rows, w, width, s, j)
<1>5. /\ p.x = Edges(u)[i - 1] /\ p.y = (r - 1) * 2 /\ p.w = u[i]
      /\ q.x = Edges(v)[j - 1] /\ q.y = (s - 1) * 2 /\ q.w = v[j]
  BY DEF PlaceIn, Rect, u, v, Height, Gap
<1>6. p \in RectRec
  <2>1. (r - 1) * (Height + Gap) \in Nat
    BY <1>1 DEF Height, Gap
  <2> QED BY <1>4, <2>1, RectTyped DEF PlaceIn, u
<1> HIDE DEF p, q
<1>7. CASE r < s
  <2>1. p.y + 2 <= q.y /\ p.y \in Int /\ q.y \in Int
    BY <1>1, <1>5, <1>7
  <2> QED BY <1>6, <2>1 DEF Overlap, Height, Gap, p, q
<1>8. CASE r = s /\ i < j
  <2>1. u = v
    BY <1>8 DEF u, v
  <2>2. i - 1 < j - 1 /\ i - 1 + 1 = i /\ j - 1 \in 0..Len(u)
    BY <1>2, <1>4, <1>8, <2>1
  <2>3. Edges(u)[i - 1] + u[i - 1 + 1] + Gap <= Edges(u)[j - 1]
    BY <1>3, <1>4, <2>2, EdgesIs
  <2>4. p.x + p.w + Gap <= q.x
    BY <1>5, <2>1, <2>2, <2>3
  <2>5. p.x \in Int /\ p.w \in Int /\ q.x \in Int
    BY <1>4, <1>5
  <2> QED BY <1>6, <2>4, <2>5 DEF Overlap, Gap, p, q
<1> QED BY <1>6, <1>7, <1>8 DEF p, q

CardsIn(cards) == {cards[n] : n \in DOMAIN cards}

\* The default composition places every card, without a collision.
LEMMA GeneratedApart ==
    ASSUME NEW cards \in Seq(Cards), NEW floor \in [Cards -> Nat], NEW width \in Nat
    PROVE  generateDefaultLayout(cards, floor, width) \in Apart(CardsIn(cards))
<1> DEFINE w == [c \in Cards |-> Scaled(c, floor[c], width)]
           rows == RowsOf(cards, w, width)
           RowWith(c) == CHOOSE r \in DOMAIN rows : \E i \in DOMAIN rows[r] : rows[r][i] = c
           PlaceOf(c) == CHOOSE i \in DOMAIN rows[RowWith(c)] : rows[RowWith(c)][i] = c
           S == CardsIn(cards)
           g == generateDefaultLayout(cards, floor, width)
<1>1. w \in [Cards -> Nat]
  BY ScaledTyped
<1>2. rows \in RowSeqs /\ \A c \in S : In(rows, c)
  <2>1. rows \in RowsUpTo(cards, Len(cards))
    BY RowsOfIs
  <2> HIDE DEF rows
  <2> QED BY <2>1 DEF RowsUpTo, CardsIn
<1>3. g = [c \in S |-> PlaceIn(rows, w, width, RowWith(c), PlaceOf(c))]
  BY DEF generateDefaultLayout, PlaceIn, CardsIn
<1> HIDE DEF w, rows
<1>4. ASSUME NEW c \in S
      PROVE  RowWith(c) \in DOMAIN rows /\ PlaceOf(c) \in DOMAIN rows[RowWith(c)] /\ rows[RowWith(c)][PlaceOf(c)] = c
  <2>1. RowWith(c) \in DOMAIN rows /\ \E i \in DOMAIN rows[RowWith(c)] : rows[RowWith(c)][i] = c
    BY <1>2 DEF In
  <2> HIDE DEF RowWith
  <2> QED BY <2>1
<1> HIDE DEF RowWith, PlaceOf, S, g
<1>5. g \in LayoutsOf(S)
  <2>1. \A c \in S : PlaceIn(rows, w, width, RowWith(c), PlaceOf(c)) \in RectRec
    BY <1>1, <1>2, <1>4, PlacesApart
  <2> QED BY <1>3, <2>1 DEF LayoutsOf
<1>6. ASSUME NEW c \in S, NEW e \in S, c # e PROVE ~Overlap(g[c], g[e])
  <2> DEFINE r == RowWith(c)
             i == PlaceOf(c)
             s == RowWith(e)
             j == PlaceOf(e)
  <2>1. /\ r \in DOMAIN rows /\ i \in DOMAIN rows[r] /\ s \in DOMAIN rows /\ j \in DOMAIN rows[s]
        /\ rows[r][i] = c /\ rows[s][j] = e
    BY <1>4
  <2>2. g[c] = PlaceIn(rows, w, width, r, i) /\ g[e] = PlaceIn(rows, w, width, s, j)
    BY <1>3
  <2> HIDE DEF r, i, s, j
  <2>3. r \in Nat /\ s \in Nat /\ i \in Nat /\ j \in Nat
    <3>1. r \in Nat /\ s \in Nat /\ rows[r] \in Seq(Cards) /\ rows[s] \in Seq(Cards)
      BY <1>2, <2>1 DEF RowSeqs
    <3> QED BY <2>1, <3>1
  <2>4. r < s \/ (r = s /\ i < j) \/ s < r \/ (s = r /\ j < i)
    BY <1>6, <2>1, <2>3
  <2>5. CASE r < s \/ (r = s /\ i < j)
    BY <1>1, <1>2, <2>1, <2>2, <2>5, PlacesApart
  <2>6. CASE s < r \/ (s = r /\ j < i)
    <3>1. ~Overlap(g[e], g[c])
      BY <1>1, <1>2, <2>1, <2>2, <2>6, PlacesApart
    <3> QED BY <3>1, OverlapSymmetric
  <2> QED BY <2>4, <2>5, <2>6
<1>7. Disjoint(g)
  BY <1>5, <1>6, DisjointIs
<1> QED BY <1>5, <1>7 DEF Apart, g, S

\* Sequences of n different cards of a set.
ComposedOf(cards, n) == {s \in Seq(cards) : Cardinality(CardsIn(s)) = n}

LEMMA ComposeStep ==
    ASSUME NEW cards \in SUBSET Cards, NEW n \in Nat, n < Cardinality(cards), NEW s \in ComposedOf(cards, n)
    PROVE  Append(s, FirstComposed(cards \ CardsIn(s))) \in ComposedOf(cards, n + 1)
<1> DEFINE E == CardsIn(s)
           c == FirstComposed(cards \ E)
<1>1. s \in Seq(cards) /\ Cardinality(E) = n
  BY DEF ComposedOf
<1>2. E \in SUBSET cards
  BY <1>1 DEF CardsIn
<1>3. IsFiniteSet(cards) /\ Cardinality(cards) \in Nat
  BY CardsAreFinite
<1> HIDE DEF E
<1>4. c \in cards \ E
  <2>1. cards \ E \in SUBSET Cards /\ cards \ E # {}
    BY <1>1, <1>2, <1>3
  <2> QED BY <2>1, FirstComposedLeft
<1> HIDE DEF c
<1>5. Append(s, c) \in Seq(cards)
  BY <1>1, <1>4
<1>6. CardsIn(Append(s, c)) = E \cup {c}
  <2>1. Len(Append(s, c)) = Len(s) + 1 /\ Append(s, c)[Len(s) + 1] = c
    BY <1>1, <1>4
  <2>2. \A i \in DOMAIN s : i \in DOMAIN Append(s, c) /\ Append(s, c)[i] = s[i]
    BY <1>1, <1>4
  <2>3. \A i \in DOMAIN Append(s, c) : i \in DOMAIN s \/ i = Len(s) + 1
    BY <1>1, <1>4
  <2>4. Len(s) + 1 \in DOMAIN Append(s, c)
    BY <1>1, <1>4
  <2> QED BY <2>1, <2>2, <2>3, <2>4 DEF CardsIn, E
<1>7. Cardinality(E \cup {c}) = n + 1
  BY <1>1, <1>2, <1>3, <1>4, OneMore
<1> QED BY <1>5, <1>6, <1>7 DEF ComposedOf, c, E

\* The default order names every card.
LEMMA CompositionIs ==
    ASSUME NEW cards \in SUBSET Cards
    PROVE  Composition(cards) \in Seq(Cards) /\ CardsIn(Composition(cards)) = cards
<1> DEFINE N == Cardinality(cards)
           go(s) == Append(s, FirstComposed(cards \ CardsIn(s)))
           d(f, n) == IF n = 0 THEN <<>> ELSE go(f[n - 1])
           Solves(f) == f = [n \in 0..N |-> d(f, n)]
           sorted == CHOOSE f : Solves(f)
           T == [n \in 0..N |-> ComposedOf(cards, n)]
           step == [n \in 1..N |-> [s \in Seq(cards) |-> go(s)]]
<1>1. N \in Nat
  BY CardsAreFinite
<1>2. /\ 0 \in 0..N /\ N \in 0..N /\ \A n \in 0..N : n = 0 \/ n \in 1..N
      /\ \A n \in 1..N : n # 0 /\ n \in 0..N /\ n - 1 \in 0..N /\ n - 1 \in Nat /\ n - 1 < N /\ n - 1 + 1 = n
  BY <1>1
<1>3. ASSUME NEW n \in 1..N, NEW s \in T[n - 1] PROVE go(s) \in T[n]
  <2>1. s \in ComposedOf(cards, n - 1)
    BY <1>2
  <2>2. go(s) \in ComposedOf(cards, n)
    BY <1>1, <1>2, <2>1, ComposeStep
  <2> QED BY <1>2, <2>2
<1>4. <<>> \in T[0]
  <2>1. CardsIn(<<>>) = {}
    BY DEF CardsIn
  <2> QED BY <1>2, <2>1, FS_EmptySet DEF ComposedOf
<1>5. \E f : Solves(f)
  <2>1. T \in [0..N -> SUBSET Seq(cards)]
    BY DEF ComposedOf
  <2>2. KeepsIn(step, N, T)
    <3>1. ASSUME NEW n \in 1..N, NEW s \in T[n - 1] PROVE step[n][s] \in T[n]
      <4>1. s \in Seq(cards)
        BY <1>2, <2>1
      <4>2. step[n][s] = go(s)
        <5> HIDE DEF go, T
        <5> QED BY <4>1
      <4> HIDE DEF step, go, T
      <4> QED BY <1>3, <4>2
    <3> HIDE DEF step, T, N
    <3> QED BY <3>1 DEF KeepsIn
  <2> HIDE DEF step, T
  <2>3. PICK f : RunsIn(f, N, Seq(cards), T, <<>>, step)
    BY <1>1, <1>4, <2>1, <2>2, RecursionIn
  <2>4. \A n \in 1..N : f[n - 1] \in Seq(cards) /\ f[n] = step[n][f[n - 1]]
    BY <1>2, <2>3 DEF RunsIn
  <2>5. \A n \in 1..N : f[n] = go(f[n - 1])
    <3> HIDE DEF go, N
    <3> QED BY <2>4 DEF step
  <2> HIDE DEF go
  <2>6. \A n \in 0..N : f[n] = d(f, n)
    BY <1>2, <2>3, <2>5 DEF RunsIn
  <2>7. f = [n \in 0..N |-> f[n]]
    BY <2>3 DEF RunsIn
  <2> HIDE DEF d
  <2>8. f = [n \in 0..N |-> d(f, n)]
    BY <2>6, <2>7
  <2> QED BY <2>8
<1>6. Solves(sorted)
  <2> HIDE DEF Solves
  <2> QED BY <1>5
<1>7. Composition(cards) = sorted[N]
  BY DEF Composition, CardsIn
<1> HIDE DEF sorted
<1>8. \A n \in 0..N : sorted[n] = d(sorted, n)
  <2> HIDE DEF d
  <2> QED BY <1>1, <1>6
<1>9. sorted[0] \in T[0] /\ \A n \in 1..N : sorted[n] = go(sorted[n - 1])
  <2> HIDE DEF go, T
  <2> QED BY <1>2, <1>4, <1>8
<1>10. \A n \in 1..N : sorted[n - 1] \in T[n - 1] => sorted[n] \in T[n]
  <2> HIDE DEF go, T
  <2> QED BY <1>3, <1>9
<1>11. sorted[N] \in T[N]
  <2> HIDE DEF T
  <2>1. \A n \in 0..N : sorted[n] \in T[n]
    BY <1>1, <1>9, <1>10, ClimbsIn
  <2> QED BY <1>2, <2>1
<1>12. sorted[N] \in Seq(cards) /\ Cardinality(CardsIn(sorted[N])) = N
  BY <1>2, <1>11 DEF ComposedOf
<1>13. CardsIn(sorted[N]) \in SUBSET cards
  BY <1>12 DEF CardsIn
<1>14. CardsIn(sorted[N]) = cards
  BY <1>12, <1>13, CardsAreFinite, NotAllYet
<1>15. sorted[N] \in Seq(Cards)
  BY <1>12
<1> QED BY <1>7, <1>14, <1>15

LEMMA DefaultApart ==
    ASSUME NEW cards \in SUBSET Cards, NEW width \in Nat
    PROVE  defaultLayout(cards, width) \in Apart(cards)
<1> DEFINE floor == [c \in Cards |-> WidgetSpec(c).minW]
<1>1. floor \in [Cards -> Nat]
  <2>1. \A c \in Cards : WidgetSpec(c).minW = IF c = CardCount THEN 2 ELSE 1
    BY DEF WidgetSpec
  <2> QED BY <2>1
<1>2. defaultLayout(cards, width) = generateDefaultLayout(Composition(cards), floor, width)
  BY DEF defaultLayout
<1> HIDE DEF floor
<1> QED BY <1>1, <1>2, CompositionIs, GeneratedApart

\* A list of the first version places the cards it names and hides the others.
LEMMA MigratedApart ==
    ASSUME NEW list \in Seq(Cards), NEW cards \in SUBSET Cards, NEW width \in Nat
    PROVE  LET m == migrateLegacyLayout(list, cards, width)
           IN  m.hidden \in SUBSET cards /\ m.items \in Apart(cards \ m.hidden)
<1> DEFINE N == Len(list)
           go(s, n) == IF list[n] \in cards THEN Append(s, list[n]) ELSE s
           d(f, n) == IF n = 0 THEN <<>> ELSE IF list[n] \in cards THEN Append(f[n - 1], list[n]) ELSE f[n - 1]
           Solves(f) == f = [n \in 0..N |-> d(f, n)]
           some == CHOOSE f : Solves(f)
           T == [n \in 0..N |-> Seq(cards)]
           step == [n \in 1..N |-> [s \in Seq(cards) |-> go(s, n)]]
           floor == [c \in Cards |-> 1]
<1>1. /\ N \in Nat /\ 0 \in 0..N /\ N \in 0..N /\ \A n \in 0..N : n = 0 \/ n \in 1..N
      /\ \A n \in 1..N : n # 0 /\ n \in 0..N /\ n - 1 \in 0..N
  OBVIOUS
<1>2. \A n \in 1..N : \A s \in Seq(cards) : go(s, n) \in Seq(cards)
  OBVIOUS
<1>3. \E f : Solves(f)
  <2>1. PICK f : RunsIn(f, N, Seq(cards), T, <<>>, step)
    <3>1. /\ T \in [0..N -> SUBSET Seq(cards)] /\ <<>> \in T[0]
          /\ \A n \in 1..N : T[n - 1] = Seq(cards) /\ T[n] = Seq(cards)
      BY <1>1
    <3>2. \A n \in 1..N : \A s \in Seq(cards) : step[n][s] = go(s, n)
      <4> HIDE DEF go
      <4> QED OBVIOUS
    <3> HIDE DEF T, step, N, go
    <3>3. KeepsIn(step, N, T)
      BY <1>2, <3>1, <3>2 DEF KeepsIn
    <3> QED BY <1>1, <3>1, <3>3, RecursionIn
  <2>2. \A n \in 1..N : f[n - 1] \in Seq(cards) /\ f[n] = step[n][f[n - 1]]
    <3> HIDE DEF N, step
    <3> QED BY <1>1, <2>1 DEF RunsIn
  <2>3. \A n \in 1..N : f[n] = go(f[n - 1], n)
    <3> HIDE DEF go, N
    <3> QED BY <2>2 DEF step
  <2>4. \A n \in 0..N : f[n] = d(f, n)
    <3> HIDE DEF N
    <3> QED BY <1>1, <2>1, <2>3 DEF RunsIn
  <2>5. f = [n \in 0..N |-> f[n]]
    BY <2>1 DEF RunsIn
  <2> HIDE DEF d
  <2> QED BY <2>4, <2>5
<1>4. Solves(some)
  <2> HIDE DEF Solves
  <2> QED BY <1>3
<1> DEFINE known == some[N]
<1>5. migrateLegacyLayout(list, cards, width) =
          [items |-> generateDefaultLayout(known, floor, width), hidden |-> cards \ CardsIn(known)]
  BY DEF migrateLegacyLayout, CardsIn
<1> HIDE DEF some
<1>6. \A n \in 0..N : some[n] = d(some, n)
  <2> HIDE DEF d
  <2> QED BY <1>4
<1>7. some[0] = <<>> /\ \A n \in 1..N : some[n] = go(some[n - 1], n)
  <2> HIDE DEF N
  <2> QED BY <1>1, <1>6
<1>8. \A n \in 0..N : some[n] \in Seq(cards)
  <2> DEFINE R == {n \in 0..N : some[n] \in Seq(cards)}
  <2> HIDE DEF N, go
  <2>0. <<>> \in Seq(cards)
    OBVIOUS
  <2>1. 0 \in R
    BY <1>1, <1>7, <2>0
  <2>2. ASSUME NEW n \in 0..N, n \in R, n < N PROVE n + 1 \in R
    <3>1. n + 1 \in 1..N /\ n + 1 - 1 = n /\ n + 1 \in 0..N
      BY <1>1, <2>2
    <3>2. some[n + 1] = go(some[n], n + 1)
      BY <1>7, <3>1
    <3> QED BY <1>2, <2>2, <3>1, <3>2
  <2>3. 0..N \subseteq R
    <3> HIDE DEF R
    <3> QED BY <1>1, <2>1, <2>2, Counting
  <2> QED BY <2>3
<1>9. known \in Seq(cards) /\ known \in Seq(Cards) /\ floor \in [Cards -> Nat]
  BY <1>1, <1>8
<1> HIDE DEF known, floor
<1>10. CardsIn(known) \in SUBSET cards
  BY <1>9 DEF CardsIn
<1>11. generateDefaultLayout(known, floor, width) \in Apart(CardsIn(known))
  BY <1>9, GeneratedApart
<1>12. CardsIn(known) = cards \ (cards \ CardsIn(known))
  BY <1>10
<1> DEFINE m == migrateLegacyLayout(list, cards, width)
<1>13. m.hidden = cards \ CardsIn(known) /\ m.items = generateDefaultLayout(known, floor, width)
  BY <1>5
<1> QED BY <1>11, <1>12, <1>13

\* What can be saved: no card both placed and hidden.
SettingSaved(s) ==
    /\ \E D \in SUBSET Cards : s.items \in LayoutsOf(D) /\ D \cap s.hidden = {}
    /\ s.list \in Seq(Cards)

\* Any setting is shown without a collision, each enabled card placed or hidden.
LEMMA EffectiveApart ==
    ASSUME NEW s, SettingSaved(s), NEW cards \in SUBSET Cards, NEW width \in Nat
    PROVE  LET e == resolveEffectiveLayout(s, cards, width)
           IN  e.hidden \in SUBSET cards /\ e.items \in Apart(cards \ e.hidden)
<1> DEFINE e == resolveEffectiveLayout(s, cards, width)
           Old == s.kind = "legacy"
<1>1. PICK D \in SUBSET Cards : s.items \in LayoutsOf(D) /\ D \cap s.hidden = {}
  BY DEF SettingSaved
<1>2. s.list \in Seq(Cards)
  BY DEF SettingSaved
<1>3. CASE Old
  <2>1. e = migrateLegacyLayout(s.list, cards, width)
    BY <1>3 DEF resolveEffectiveLayout
  <2> HIDE DEF e
  <2>2. e.hidden \in SUBSET cards /\ e.items \in Apart(cards \ e.hidden)
    BY <1>2, <2>1, MigratedApart
  <2> QED BY <2>2 DEF e
<1>4. CASE ~Old
  <2> DEFINE hidden == s.hidden \cap cards
             clamped == Clamped(s.items, cards, width)
             repaired == repairCollisions(clamped, width)
             all == Completed(repaired, hidden, cards, width)
  <2>1. e = [items |-> all, hidden |-> hidden]
    BY <1>4 DEF resolveEffectiveLayout
  <2> HIDE DEF e
  <2>2. D \cap cards \in SUBSET Cards
    OBVIOUS
  <2>3. clamped \in LayoutsOf(D \cap cards)
    BY <1>1, ClampedTyped
  <2> HIDE DEF clamped
  <2>4. repaired \in Apart(D \cap cards)
    BY <2>2, <2>3, Repaired
  <2> HIDE DEF repaired
  <2>5. all \in Apart((D \cap cards) \cup (cards \ hidden))
    BY <2>2, <2>4, CompletedIs
  <2>6. (D \cap cards) \cup (cards \ hidden) = cards \ hidden
    BY <1>1
  <2> HIDE DEF all
  <2>7. e.hidden = hidden /\ e.items = all
    BY <2>1
  <2>8. hidden \in SUBSET cards
    OBVIOUS
  <2> HIDE DEF hidden
  <2>9. e.hidden \in SUBSET cards /\ e.items \in Apart(cards \ e.hidden)
    BY <2>5, <2>6, <2>7, <2>8
  <2> QED BY <2>9 DEF e
<1> QED BY <1>3, <1>4

SavedDrafts ==
    {e \in [items : UNION {LayoutsOf(D) : D \in SUBSET Cards}, hidden : SUBSET Cards, done : BOOLEAN] :
        DOMAIN e.items \cap e.hidden = {}}

\* The draft places each enabled card or hides it; a card shown during a resize may collide.
DraftSound ==
    draft.on => /\ draft.hidden \in SUBSET enabled
                /\ draft.items \in LayoutsOf(enabled \ draft.hidden)
                /\ overtaken \/ Disjoint(draft.items)

\* The size that a resize would commit was checked, and nothing came in its way since.
ResizeSound ==
    /\ resizing \in [card : Nat, w : Nat, valid : BOOLEAN]
    /\ resizing # NoResize => draft.on
    /\ draft.on /\ ~overtaken /\ resizing.valid /\ resizing.card \in DOMAIN draft.items =>
          FreeOf(Sized(draft.items[resizing.card], resizing.w), Without(draft.items, resizing.card))

LayoutInv ==
    /\ SettingSaved(stored) /\ SettingSaved(parsed) /\ canvas \in Nat /\ enabled \in SUBSET Cards
    /\ saves \in Seq(SavedDrafts) /\ overtaken \in BOOLEAN
    /\ DraftSound /\ ResizeSound

LEMMA EmptySaved == SettingSaved(NoSetting)
<1>1. NoSetting.items = Empty /\ NoSetting.hidden = {} /\ NoSetting.list = <<>>
  BY DEF NoSetting
<1>2. Empty \in LayoutsOf({}) /\ {} \in SUBSET Cards /\ <<>> \in Seq(Cards)
  BY DEF Empty, LayoutsOf
<1> QED BY <1>1, <1>2 DEF SettingSaved

LEMMA SettingOfDraft ==
    ASSUME NEW e \in SavedDrafts
    PROVE  SettingSaved(V2(e.items, e.hidden))
<1>1. PICK D \in SUBSET Cards : e.items \in LayoutsOf(D)
  BY DEF SavedDrafts
<1>2. DOMAIN e.items = D /\ D \cap e.hidden = {}
  BY <1>1 DEF SavedDrafts, LayoutsOf
<1>3. /\ V2(e.items, e.hidden).items = e.items /\ V2(e.items, e.hidden).hidden = e.hidden
      /\ V2(e.items, e.hidden).list = <<>>
  BY DEF V2
<1> QED BY <1>1, <1>2, <1>3 DEF SettingSaved

LEMMA DraftSaved ==
    ASSUME NEW all \in SUBSET Cards, NEW hidden \in SUBSET all, NEW items \in LayoutsOf(all \ hidden),
           NEW done \in BOOLEAN
    PROVE  [items |-> items, hidden |-> hidden, done |-> done] \in SavedDrafts
<1>1. DOMAIN items = all \ hidden
  BY DEF LayoutsOf
<1>2. items \in UNION {LayoutsOf(D) : D \in SUBSET Cards}
  <2>1. all \ hidden \in SUBSET Cards
    OBVIOUS
  <2> QED BY <2>1
<1> HIDE DEF LayoutsOf
<1> QED BY <1>1, <1>2 DEF SavedDrafts

LEMMA CanvasTyped == CanvasUnits \subseteq Nat
BY LayoutAssumption

LEMMA LayoutInitially == LayoutInit => LayoutInv
<1> SUFFICES ASSUME LayoutInit PROVE LayoutInv
  OBVIOUS
<1>1. SettingSaved(stored)
  <2>1. CASE stored = NoSetting
    BY <2>1, EmptySaved
  <2>2. ASSUME NEW l \in SavedLayouts
        PROVE  SettingSaved(V2(l, {})) /\ SettingSaved(V2(Unsized(l), {}))
    <3>1. PICK s \in SUBSET Cards :
              l \in {k \in [s -> UNION {Savable(c) : c \in s}] : (\A c \in s : k[c] \in Savable(c)) /\ Disjoint(k)}
      BY <2>2 DEF SavedLayouts
    <3>2. \A c : Savable(c) \subseteq RectRec
      BY LayoutAssumption DEF Savable, Placements, Rect, RectRec
    <3>3. l \in LayoutsOf(s)
      BY <3>1, <3>2 DEF LayoutsOf
    <3>4. Unsized(l) \in LayoutsOf(s)
      <4>1. DOMAIN l = s /\ \A c \in s : Sized(l[c], 0) \in RectRec
        BY <3>3, SizedTyped DEF LayoutsOf
      <4> QED BY <4>1 DEF Unsized, LayoutsOf
    <3>5. \A k \in LayoutsOf(s) : SettingSaved(V2(k, {}))
      <4> SUFFICES ASSUME NEW k \in LayoutsOf(s) PROVE SettingSaved(V2(k, {}))
        OBVIOUS
      <4>1. V2(k, {}).items = k /\ V2(k, {}).hidden = {} /\ V2(k, {}).list = <<>>
        BY DEF V2
      <4>2. s \cap {} = {} /\ <<>> \in Seq(Cards)
        OBVIOUS
      <4> QED BY <4>1, <4>2 DEF SettingSaved
    <3> QED BY <3>3, <3>4, <3>5
  <2>3. ASSUME NEW l \in Lists, NEW n \in 0..CardCount PROVE SettingSaved(Legacy(SubSeq(l, 1, n)))
    <3>1. l \in [1..CardCount -> Cards] /\ CardCount \in Nat
      BY LayoutAssumption DEF Lists
    <3>2. l \in Seq(Cards) /\ Len(l) = CardCount
      BY <3>1, FunctionIsSeq
    <3>3. SubSeq(l, 1, n) \in Seq(Cards)
      BY <3>1, <3>2
    <3>4. /\ Legacy(SubSeq(l, 1, n)).items = Empty /\ Legacy(SubSeq(l, 1, n)).hidden = {}
          /\ Legacy(SubSeq(l, 1, n)).list = SubSeq(l, 1, n)
      BY DEF Legacy
    <3>5. Empty \in LayoutsOf({})
      BY DEF Empty, LayoutsOf
    <3> QED BY <3>3, <3>4, <3>5 DEF SettingSaved
  <2> QED BY <2>1, <2>2, <2>3 DEF LayoutInit
<1>2. SettingSaved(parsed) /\ canvas \in Nat /\ enabled \in SUBSET Cards
  BY <1>1, CanvasTyped DEF LayoutInit
<1>3. saves \in Seq(SavedDrafts) /\ overtaken \in BOOLEAN
  <2>1. saves = <<>>
    BY DEF LayoutInit
  <2>2. overtaken = FALSE
    BY DEF LayoutInit
  <2>3. <<>> \in Seq(SavedDrafts)
    OBVIOUS
  <2> QED BY <2>1, <2>2, <2>3
<1>4. DraftSound /\ ResizeSound
  BY DEF LayoutInit, DraftSound, ResizeSound, NotEditing, NoResize
<1> QED BY <1>1, <1>2, <1>3, <1>4 DEF LayoutInv

\* A draft that stays, and a resize that stays or ends.
LEMMA DraftStays ==
    ASSUME DraftSound, ResizeSound, UNCHANGED <<draft, enabled, overtaken>>,
           resizing' = resizing \/ resizing' = NoResize
    PROVE  DraftSound' /\ ResizeSound'
<1>1. DraftSound'
  BY DEF DraftSound
<1>2. CASE resizing' = resizing
  BY <1>1, <1>2 DEF ResizeSound, NoResize
<1>3. CASE resizing' = NoResize
  <2>1. resizing' \in [card : Nat, w : Nat, valid : BOOLEAN] /\ ~resizing'.valid
    BY <1>3 DEF NoResize
  <2>2. resizing' # NoResize => draft'.on
    BY <1>3
  <2>3. ~(draft'.on /\ ~overtaken' /\ resizing'.valid /\ resizing'.card \in DOMAIN draft'.items)
    BY <2>1
  <2>4. ResizeSound'
    BY <2>1, <2>2, <2>3 DEF ResizeSound
  <2> QED BY <1>1, <2>4
<1> QED BY <1>1, <1>2, <1>3

LEMMA NotEditingSound ==
    ASSUME draft' = NotEditing, resizing' = NoResize
    PROVE  DraftSound' /\ ResizeSound'
BY DEF DraftSound, ResizeSound, NotEditing, NoResize

\* A new draft, with a resize that is over or that cannot commit.
LEMMA NewDraftSound ==
    ASSUME NEW items, NEW hidden, draft' = Draft(items, hidden), hidden \in SUBSET enabled',
           items \in LayoutsOf(enabled' \ hidden), overtaken' \/ Disjoint(items),
           resizing' = NoResize
    PROVE  DraftSound' /\ ResizeSound'
<1>1. draft'.on /\ draft'.items = items /\ draft'.hidden = hidden
  BY DEF Draft
<1>2. resizing' \in [card : Nat, w : Nat, valid : BOOLEAN] /\ ~resizing'.valid
  BY DEF NoResize
<1> QED BY <1>1, <1>2 DEF DraftSound, ResizeSound

\* What is shown, and the defaults, as a draft.
LEMMA EffectiveShown ==
    ASSUME LayoutInv
    PROVE  /\ Effective.hidden \in SUBSET enabled /\ Effective.items \in Apart(enabled \ Effective.hidden)
           /\ Effective.items \in LayoutsOf(enabled \ Effective.hidden) /\ Disjoint(Effective.items)
<1>1. SettingSaved(parsed) /\ enabled \in SUBSET Cards /\ canvas \in Nat
  BY DEF LayoutInv
<1>2. /\ Effective.hidden \in SUBSET enabled /\ Effective.items \in Apart(enabled \ Effective.hidden)
  BY <1>1, EffectiveApart DEF Effective
<1> QED BY <1>2 DEF Apart

LEMMA SaveQueued ==
    ASSUME NEW items, NEW hidden, NEW done \in BOOLEAN, Enqueue(items, hidden, done),
           saves \in Seq(SavedDrafts), enabled \in SUBSET Cards,
           hidden \in SUBSET enabled, items \in LayoutsOf(enabled \ hidden)
    PROVE  saves' \in Seq(SavedDrafts)
<1>1. [items |-> items, hidden |-> hidden, done |-> done] \in SavedDrafts
  BY DraftSaved
<1>2. saves' = Append(saves, [items |-> items, hidden |-> hidden, done |-> done])
  BY DEF Enqueue
<1> QED BY <1>1, <1>2

LEMMA AutoSaved ==
    ASSUME LayoutInv, draft.on, NEW items, items \in LayoutsOf(enabled \ draft.hidden),
           overtaken \/ Disjoint(items), AutoSave(items), UNCHANGED <<stored, parsed, canvas, enabled, overtaken>>,
           resizing' = NoResize
    PROVE  LayoutInv'
<1>1. draft.hidden \in SUBSET enabled
  BY DEF LayoutInv, DraftSound
<1>2. draft' = Draft(items, draft.hidden)
  BY DEF AutoSave
<1>3. DraftSound' /\ ResizeSound'
  BY <1>1, <1>2, NewDraftSound
<1>4. saves' \in Seq(SavedDrafts)
  BY <1>1, SaveQueued DEF AutoSave, LayoutInv
<1> QED BY <1>3, <1>4 DEF LayoutInv

LEMMA CanvasStep ==
    ASSUME LayoutInv, CanvasChanges
    PROVE  LayoutInv'
<1>1. canvas' \in Nat /\ UNCHANGED <<stored, parsed, enabled, draft, resizing, saves, overtaken>>
  BY CanvasTyped DEF CanvasChanges
<1>2. DraftSound' /\ ResizeSound'
  BY <1>1, DraftStays DEF LayoutInv
<1> QED BY <1>1, <1>2 DEF LayoutInv

LEMMA MountStep ==
    ASSUME LayoutInv, MountDashboard
    PROVE  LayoutInv'
<1>1. /\ parsed' = stored /\ enabled' \in SUBSET Cards /\ draft' = NotEditing /\ resizing' = NoResize
      /\ overtaken' = FALSE /\ UNCHANGED <<stored, canvas, saves>>
  BY DEF MountDashboard
<1>2. DraftSound' /\ ResizeSound'
  BY <1>1, NotEditingSound
<1>3. overtaken' \in BOOLEAN
  BY <1>1
<1> QED BY <1>1, <1>2, <1>3 DEF LayoutInv

LEMMA StartStep ==
    ASSUME LayoutInv, startEditing
    PROVE  LayoutInv'
<1>1. /\ draft' = Draft(Effective.items, Effective.hidden) /\ overtaken' = FALSE
      /\ UNCHANGED <<canvas, enabled, stored, parsed, resizing, saves>>
  BY DEF startEditing, PageRest
<1>2. resizing = NoResize
  BY DEF LayoutInv, ResizeSound, startEditing
<1>3. DraftSound' /\ ResizeSound'
  BY <1>1, <1>2, EffectiveShown, NewDraftSound
<1>4. overtaken' \in BOOLEAN
  BY <1>1
<1> QED BY <1>1, <1>3, <1>4 DEF LayoutInv

\* Moving or resizing a card of the draft to a place that was checked.
LEMMA MovedSound ==
    ASSUME LayoutInv, draft.on, NEW c \in DOMAIN draft.items, NEW p \in RectRec,
           overtaken \/ FreeOf(p, Without(draft.items, c))
    PROVE  /\ With(draft.items, c, p) \in LayoutsOf(enabled \ draft.hidden)
           /\ overtaken \/ Disjoint(With(draft.items, c, p))
<1> DEFINE D == enabled \ draft.hidden
<1>1. draft.items \in LayoutsOf(D) /\ (overtaken \/ Disjoint(draft.items))
  BY DEF LayoutInv, DraftSound
<1>2. c \in D /\ D \cup {c} = D
  BY <1>1 DEF LayoutsOf
<1> HIDE DEF D
<1>3. With(draft.items, c, p) \in LayoutsOf(D)
  <2>1. With(draft.items, c, p) \in LayoutsOf(D \cup {c})
    BY <1>1, WithIs
  <2> QED BY <1>2, <2>1
<1>4. CASE ~overtaken
  <2>1. draft.items \in Apart(D)
    BY <1>1, <1>4 DEF Apart
  <2>2. With(draft.items, c, p) \in Apart(D \cup {c})
    BY <1>4, <2>1, WithApart
  <2> QED BY <1>3, <2>2 DEF Apart, D
<1>5. CASE overtaken
  BY <1>3, <1>5 DEF D
<1> QED BY <1>4, <1>5

LEMMA DraftCard ==
    ASSUME LayoutInv, draft.on, NEW c \in DOMAIN draft.items
    PROVE  c \in Cards /\ draft.items[c] \in RectRec /\ draft.items[c].w \in Nat /\ draft.items[c].x \in Nat
<1>1. draft.items[c] \in RectRec /\ c \in enabled
  BY DEF LayoutInv, DraftSound, LayoutsOf
<1> QED BY <1>1 DEF RectRec, LayoutInv

LEMMA DragStep ==
    ASSUME LayoutInv, onDragEnd
    PROVE  LayoutInv'
<1>1. PICK c \in DOMAIN draft.items, x \in 0..5, y \in 0..(MaxRow + 1) :
          LET p == clampPlacement(Rect(x, y, draft.items[c].w), canvas)
          IN  /\ draft.on /\ resizing = NoResize /\ Acts
              /\ p # draft.items[c] /\ FreeOf(p, Without(draft.items, c))
              /\ AutoSave(With(draft.items, c, p))
              /\ PageRest /\ UNCHANGED <<stored, parsed, resizing, overtaken>>
  BY DEF onDragEnd
<1> DEFINE p == clampPlacement(Rect(x, y, draft.items[c].w), canvas)
<1>2. p \in RectRec
  <2>1. x \in Nat /\ y \in Nat /\ canvas \in Nat
    BY LayoutAssumption DEF LayoutInv
  <2>2. draft.items[c].w \in Nat
    BY <1>1, DraftCard
  <2> QED BY <2>1, <2>2, RectTyped, ClampedInside
<1>3. /\ draft.on /\ FreeOf(p, Without(draft.items, c)) /\ AutoSave(With(draft.items, c, p))
      /\ UNCHANGED <<stored, parsed, canvas, enabled, overtaken>> /\ resizing' = NoResize
  BY <1>1 DEF PageRest
<1> HIDE DEF p
<1>4. /\ With(draft.items, c, p) \in LayoutsOf(enabled \ draft.hidden)
      /\ overtaken \/ Disjoint(With(draft.items, c, p))
  BY <1>2, <1>3, MovedSound
<1> QED BY <1>3, <1>4, AutoSaved

LEMMA SizedAsIs ==
    ASSUME NEW p \in RectRec
    PROVE  Sized(p, p.w) = p
BY DEF Sized, Rect, RectRec

LEMMA ResizeStartStep ==
    ASSUME LayoutInv, onResizeStart
    PROVE  LayoutInv'
<1>1. PICK c \in DOMAIN draft.items :
          /\ draft.on /\ resizing' = [card |-> c, w |-> draft.items[c].w, valid |-> TRUE]
          /\ PageRest /\ UNCHANGED <<stored, parsed, draft, saves, overtaken>>
  BY DEF onResizeStart
<1>2. c \in Nat /\ draft.items[c] \in RectRec /\ draft.items[c].w \in Nat
  BY <1>1, DraftCard, LayoutAssumption DEF Cards
<1>3. DraftSound'
  BY <1>1 DEF LayoutInv, DraftSound, PageRest
<1>4. /\ resizing' \in [card : Nat, w : Nat, valid : BOOLEAN]
      /\ resizing'.card = c /\ resizing'.w = draft.items[c].w
  BY <1>1, <1>2
<1>5. ~overtaken => FreeOf(Sized(draft.items[c], draft.items[c].w), Without(draft.items, c))
  <2>1. ~overtaken => FreeOf(draft.items[c], Without(draft.items, c))
    BY <1>1 DEF LayoutInv, DraftSound, Disjoint
  <2> QED BY <1>2, <2>1, SizedAsIs
<1>6. ResizeSound'
  BY <1>1, <1>4, <1>5 DEF ResizeSound
<1> QED BY <1>1, <1>3, <1>6 DEF LayoutInv, PageRest

LEMMA ResizedIs ==
    ASSUME LayoutInv, draft.on, NEW c \in DOMAIN draft.items, NEW w \in Int
    PROVE  /\ Resized(c, w).card = c /\ Resized(c, w).w \in Nat
           /\ Resized(c, w) \in [card : Nat, w : Nat, valid : BOOLEAN]
           /\ Resized(c, w).valid => FreeOf(Sized(draft.items[c], Resized(c, w).w), Without(draft.items, c))
<1>1. c \in Nat /\ draft.items[c].x \in Nat /\ canvas \in Nat
  BY DraftCard, LayoutAssumption DEF Cards, LayoutInv
<1> DEFINE to == clampWidgetSize(c, w, draft.items[c].x, canvas)
           free == FreeOf(Sized(draft.items[c], to), Without(draft.items, c))
<1>2. to \in Nat
  <2>1. /\ WidgetSpec(c).minW = IF c = CardCount THEN 2 ELSE 1
        /\ WidgetSpec(c).maxW = IF c = CardCount THEN 4 ELSE 2
    BY DEF WidgetSpec
  <2> QED BY <1>1, <2>1 DEF clampWidgetSize, Least, Most
<1>3. Resized(c, w) = [card |-> c, w |-> to, valid |-> free]
  BY DEF Resized
<1>4. free \in BOOLEAN
  BY DEF FreeOf
<1> HIDE DEF to, free
<1>5. /\ Resized(c, w).card = c /\ Resized(c, w).w = to /\ (Resized(c, w).valid <=> free)
      /\ Resized(c, w) \in [card : Nat, w : Nat, valid : BOOLEAN]
  BY <1>1, <1>2, <1>3, <1>4
<1> QED BY <1>2, <1>5 DEF free

LEMMA ResizeMoveStep ==
    ASSUME LayoutInv, onResizeMove
    PROVE  LayoutInv'
<1>1. PICK w \in 1..5 :
          /\ resizing # NoResize /\ resizing.card \in DOMAIN draft.items
          /\ resizing' = Resized(resizing.card, w)
          /\ PageRest /\ UNCHANGED <<stored, parsed, draft, saves, overtaken>>
  BY DEF onResizeMove
<1>2. draft.on
  BY <1>1 DEF LayoutInv, ResizeSound
<1> DEFINE c == resizing.card
           z == Resized(c, w)
<1>3. /\ z.card = c /\ z \in [card : Nat, w : Nat, valid : BOOLEAN]
      /\ z.valid => FreeOf(Sized(draft.items[c], z.w), Without(draft.items, c))
  BY <1>1, <1>2, ResizedIs
<1>4. resizing' = z
  BY <1>1
<1> HIDE DEF c, z
<1>5. DraftSound'
  BY <1>1 DEF LayoutInv, DraftSound, PageRest
<1>6. ResizeSound'
  BY <1>1, <1>2, <1>3, <1>4 DEF ResizeSound
<1> QED BY <1>1, <1>5, <1>6 DEF LayoutInv, PageRest

LEMMA ResizeEndStep ==
    ASSUME LayoutInv, onResizeEnd
    PROVE  LayoutInv'
<1> DEFINE c == resizing.card
           p == Sized(draft.items[c], resizing.w)
<1>1. /\ resizing # NoResize /\ resizing' = NoResize /\ PageRest /\ UNCHANGED <<stored, parsed, overtaken>>
      /\ \/ resizing.valid /\ c \in DOMAIN draft.items /\ AutoSave(With(draft.items, c, p))
         \/ UNCHANGED <<draft, saves>>
  BY DEF onResizeEnd
<1>2. draft.on /\ resizing.w \in Nat
  BY <1>1 DEF LayoutInv, ResizeSound
<1>3. CASE resizing.valid /\ c \in DOMAIN draft.items /\ AutoSave(With(draft.items, c, p))
  <2>1. draft.items[c] \in RectRec
    BY <1>2, <1>3, DraftCard
  <2>2. p \in RectRec
    BY <1>2, <2>1, SizedTyped
  <2>3. overtaken \/ FreeOf(p, Without(draft.items, c))
    BY <1>2, <1>3 DEF LayoutInv, ResizeSound
  <2> HIDE DEF p, c
  <2>4. /\ With(draft.items, c, p) \in LayoutsOf(enabled \ draft.hidden)
        /\ overtaken \/ Disjoint(With(draft.items, c, p))
    BY <1>2, <1>3, <2>2, <2>3, MovedSound
  <2> QED BY <1>1, <1>2, <1>3, <2>4, AutoSaved DEF PageRest
<1>4. CASE UNCHANGED <<draft, saves>>
  <2>1. DraftSound' /\ ResizeSound'
    BY <1>1, <1>4, DraftStays DEF LayoutInv, PageRest
  <2> QED BY <1>1, <1>4, <2>1 DEF LayoutInv, PageRest
<1> QED BY <1>1, <1>3, <1>4

LEMMA ResizeKeyStep ==
    ASSUME LayoutInv, onResizeKeyDown
    PROVE  LayoutInv'
<1>1. PICK c \in DOMAIN draft.items, d \in {1, 0 - 1} :
          LET to == Resized(c, draft.items[c].w + d)
          IN  /\ draft.on /\ resizing = NoResize /\ to.valid
              /\ AutoSave(With(draft.items, c, Sized(draft.items[c], to.w)))
              /\ PageRest /\ UNCHANGED <<stored, parsed, resizing, overtaken>>
  BY DEF onResizeKeyDown
<1> DEFINE w == draft.items[c].w + d
           z == Resized(c, w)
           p == Sized(draft.items[c], z.w)
<1>2. draft.on /\ draft.items[c] \in RectRec /\ w \in Int
  BY <1>1, DraftCard
<1> HIDE DEF w
<1>3. z.w \in Nat /\ (z.valid => FreeOf(p, Without(draft.items, c)))
  BY <1>2, ResizedIs
<1>4. z.valid /\ AutoSave(With(draft.items, c, p)) /\ resizing' = NoResize
      /\ UNCHANGED <<stored, parsed, canvas, enabled, overtaken>>
  BY <1>1 DEF PageRest, w
<1>5. p \in RectRec
  BY <1>2, <1>3, SizedTyped
<1> HIDE DEF p, z
<1>6. /\ With(draft.items, c, p) \in LayoutsOf(enabled \ draft.hidden)
      /\ overtaken \/ Disjoint(With(draft.items, c, p))
  BY <1>2, <1>3, <1>4, <1>5, MovedSound
<1> QED BY <1>2, <1>4, <1>6, AutoSaved

LEMMA HideStep ==
    ASSUME LayoutInv, hideWidget
    PROVE  LayoutInv'
<1>1. PICK c \in DOMAIN draft.items :
          /\ draft.on /\ draft' = Draft(Without(draft.items, c), draft.hidden \cup {c})
          /\ PageRest /\ UNCHANGED <<stored, parsed, resizing, saves, overtaken>>
  BY DEF hideWidget
<1> DEFINE D == enabled \ draft.hidden
           items == Without(draft.items, c)
<1>2. /\ draft.hidden \in SUBSET enabled /\ draft.items \in LayoutsOf(D)
      /\ overtaken \/ Disjoint(draft.items)
  BY <1>1 DEF LayoutInv, DraftSound
<1>3. c \in D /\ DOMAIN draft.items = D
  BY <1>2 DEF LayoutsOf
<1>4. draft'.on /\ draft'.items = items /\ draft'.hidden = draft.hidden \cup {c}
  BY <1>1 DEF Draft
<1>5. items \in LayoutsOf(D \ {c}) /\ \A k \in D \ {c} : items[k] = draft.items[k]
  <2> HIDE DEF D
  <2> QED BY <1>2 DEF Without, LayoutsOf
<1>6. overtaken \/ Disjoint(items)
  <2>1. CASE ~overtaken
    <3>1. draft.items \in Apart(D)
      BY <1>2, <2>1 DEF Apart
    <3> QED BY <3>1, WithoutApart DEF Apart
  <2> QED BY <2>1
<1>7. D \ {c} = enabled \ (draft.hidden \cup {c}) /\ draft.hidden \cup {c} \in SUBSET enabled
  BY <1>2, <1>3
<1>8. DraftSound'
  <2> HIDE DEF D, items
  <2> QED BY <1>1, <1>4, <1>5, <1>6, <1>7 DEF DraftSound, PageRest
<1>9. ResizeSound'
  <2> DEFINE k == resizing.card
  <2>1. ASSUME ~overtaken, resizing.valid, k \in DOMAIN items
        PROVE  FreeOf(Sized(items[k], resizing.w), Without(items, k))
    <3>1. k \in D \ {c} /\ DOMAIN items = D \ {c} /\ items[k] = draft.items[k]
      BY <1>5, <2>1 DEF LayoutsOf
    <3> DEFINE p == Sized(draft.items[k], resizing.w)
    <3>2. FreeOf(p, Without(draft.items, k))
      BY <1>1, <1>3, <2>1, <3>1 DEF LayoutInv, ResizeSound
    <3> HIDE DEF p
    <3>3. \A e \in D \ {k} : ~Overlap(p, draft.items[e])
      BY <1>3, <3>2 DEF FreeOf, Without
    <3>4. \A e \in (D \ {c}) \ {k} : ~Overlap(p, items[e])
      BY <1>5, <3>3
    <3> HIDE DEF items, D, k
    <3>5. FreeOf(p, Without(items, k))
      BY <3>1, <3>4 DEF FreeOf, Without
    <3> QED BY <3>1, <3>5 DEF p
  <2>2. resizing \in [card : Nat, w : Nat, valid : BOOLEAN]
    BY DEF LayoutInv, ResizeSound
  <2> HIDE DEF items, D
  <2> QED BY <1>1, <1>4, <2>1, <2>2 DEF ResizeSound
<1> QED BY <1>1, <1>8, <1>9 DEF LayoutInv, PageRest

LEMMA ShowStep ==
    ASSUME LayoutInv, showWidget
    PROVE  LayoutInv'
<1>1. PICK c \in draft.hidden :
          /\ draft.on
          /\ LET p == findFirstFreePosition(WidgetSpec(c).defaultW, draft.items, canvas)
             IN  draft' = Draft(With(draft.items, c, p), draft.hidden \ {c})
          /\ overtaken' = (overtaken \/ resizing # NoResize)
          /\ PageRest /\ UNCHANGED <<stored, parsed, resizing, saves>>
  BY DEF showWidget
<1> DEFINE D == enabled \ draft.hidden
           p == findFirstFreePosition(WidgetSpec(c).defaultW, draft.items, canvas)
           items == With(draft.items, c, p)
<1>2. /\ draft.hidden \in SUBSET enabled /\ draft.items \in LayoutsOf(D)
      /\ overtaken \/ Disjoint(draft.items)
  BY <1>1 DEF LayoutInv, DraftSound
<1>3. draft'.on /\ draft'.items = items /\ draft'.hidden = draft.hidden \ {c}
  BY <1>1 DEF Draft
<1>4. p \in RectRec /\ FreeOf(p, draft.items)
  <2>1. D \in SUBSET Cards /\ canvas \in Nat /\ WidgetSpec(c).defaultW \in Nat
    BY <1>2, SizeTyped DEF LayoutInv
  <2> HIDE DEF D
  <2> QED BY <1>2, <2>1, FreePlaceFound
<1> HIDE DEF p
<1>5. c \notin D /\ D \cup {c} = enabled \ (draft.hidden \ {c}) /\ draft.hidden \ {c} \in SUBSET enabled
  BY <1>1, <1>2
<1> HIDE DEF D
<1>6. items \in LayoutsOf(D \cup {c})
  BY <1>2, <1>4, WithIs
<1>7. overtaken \/ Disjoint(items)
  <2>1. CASE ~overtaken
    <3>1. draft.items \in Apart(D)
      BY <1>2, <2>1 DEF Apart
    <3>2. items \in Apart(D \cup {c})
      BY <1>4, <1>5, <3>1, WithNewApart
    <3> QED BY <3>2 DEF Apart
  <2> QED BY <2>1
<1> HIDE DEF items
<1>8. overtaken' \/ Disjoint(items)
  BY <1>1, <1>7
<1>9. DraftSound'
  BY <1>1, <1>3, <1>5, <1>6, <1>8 DEF DraftSound, PageRest
<1>10. ResizeSound'
  <2>1. resizing \in [card : Nat, w : Nat, valid : BOOLEAN]
    BY DEF LayoutInv, ResizeSound
  <2>2. ~overtaken' => ~resizing.valid
    <3>1. ~overtaken' => resizing = NoResize
      BY <1>1
    <3>2. ~NoResize.valid
      BY DEF NoResize
    <3> QED BY <3>1, <3>2
  <2> QED BY <1>1, <1>3, <2>1, <2>2 DEF ResizeSound
<1>11. overtaken' \in BOOLEAN
  BY <1>1
<1> QED BY <1>1, <1>9, <1>10, <1>11 DEF LayoutInv, PageRest

LEMMA ResetStep ==
    ASSUME LayoutInv, performReset
    PROVE  LayoutInv'
<1> DEFINE items == defaultLayout(enabled, canvas)
<1>1. /\ draft' = Draft(items, {}) /\ resizing' = NoResize /\ overtaken' = FALSE
      /\ Enqueue(items, {}, FALSE) /\ UNCHANGED <<stored, parsed, canvas, enabled>>
  BY DEF performReset, PageRest
<1>2. enabled \in SUBSET Cards /\ canvas \in Nat /\ saves \in Seq(SavedDrafts)
  BY DEF LayoutInv
<1>3. items \in Apart(enabled) /\ enabled = enabled \ {}
  BY <1>2, DefaultApart
<1> HIDE DEF items
<1>4. items \in LayoutsOf(enabled \ {}) /\ Disjoint(items) /\ {} \in SUBSET enabled
  BY <1>3 DEF Apart
<1>5. DraftSound' /\ ResizeSound'
  BY <1>1, <1>4, NewDraftSound
<1>6. saves' \in Seq(SavedDrafts)
  BY <1>1, <1>2, <1>4, SaveQueued
<1>7. overtaken' \in BOOLEAN
  BY <1>1
<1> QED BY <1>1, <1>5, <1>6, <1>7 DEF LayoutInv

LEMMA FinishStep ==
    ASSUME LayoutInv, finishEditing
    PROVE  LayoutInv'
<1>1. /\ draft.on /\ Enqueue(draft.items, draft.hidden, TRUE)
      /\ UNCHANGED <<canvas, enabled, stored, parsed, draft, resizing, overtaken>>
  BY DEF finishEditing, PageRest
<1>2. /\ draft.hidden \in SUBSET enabled /\ draft.items \in LayoutsOf(enabled \ draft.hidden)
      /\ enabled \in SUBSET Cards /\ saves \in Seq(SavedDrafts)
  BY <1>1 DEF LayoutInv, DraftSound
<1>3. saves' \in Seq(SavedDrafts)
  BY <1>1, <1>2, SaveQueued
<1>4. DraftSound' /\ ResizeSound'
  BY <1>1, DraftStays DEF LayoutInv
<1> QED BY <1>1, <1>3, <1>4 DEF LayoutInv

LEMMA SaveStep ==
    ASSUME LayoutInv, SaveLayout
    PROVE  LayoutInv'
<1> DEFINE first == saves[1]
<1>1. /\ saves # <<>> /\ saves' = Tail(saves) /\ stored' = V2(first.items, first.hidden)
      /\ parsed' = stored' \/ parsed' = parsed
      /\ (draft' = NotEditing /\ resizing' = NoResize) \/ UNCHANGED <<draft, resizing>>
      /\ UNCHANGED <<canvas, enabled, overtaken>>
  BY DEF SaveLayout, PageRest
<1>2. first \in SavedDrafts /\ saves' \in Seq(SavedDrafts)
  BY <1>1 DEF LayoutInv
<1>3. SettingSaved(stored') /\ SettingSaved(parsed')
  <2>1. SettingSaved(stored')
    BY <1>1, <1>2, SettingOfDraft
  <2>2. CASE parsed' = stored'
    BY <2>1, <2>2
  <2>3. CASE parsed' = parsed
    BY <2>1, <2>3 DEF LayoutInv
  <2> QED BY <1>1, <2>1, <2>2, <2>3
<1>4. DraftSound' /\ ResizeSound'
  <2>1. CASE draft' = NotEditing /\ resizing' = NoResize
    BY <2>1, NotEditingSound
  <2>2. CASE UNCHANGED <<draft, resizing>>
    BY <1>1, <2>2, DraftStays DEF LayoutInv
  <2> QED BY <1>1, <2>1, <2>2
<1> QED BY <1>1, <1>2, <1>3, <1>4 DEF LayoutInv

LEMMA SaveFailStep ==
    ASSUME LayoutInv, SaveLayoutFails
    PROVE  LayoutInv'
<1>1. saves # <<>> /\ saves' = Tail(saves)
      /\ UNCHANGED <<canvas, enabled, stored, parsed, draft, resizing, overtaken>>
  BY DEF SaveLayoutFails, PageRest
<1>2. saves' \in Seq(SavedDrafts)
  BY <1>1 DEF LayoutInv
<1>3. DraftSound' /\ ResizeSound'
  BY <1>1, DraftStays DEF LayoutInv
<1> QED BY <1>1, <1>2, <1>3 DEF LayoutInv

\* Whatever is saved, on whatever canvas it is shown or edited, no two cards are closer
\* than the gap, and every card of an enabled app is placed or hidden, not both
\* (resolveEffectiveLayout, repairCollisions, findFirstFreePosition and the handlers of
\* Dashboard.tsx), except after a card was shown during a live resize.
THEOREM CardsAlwaysApart == LayoutSpec => []CardsDisjoint
<1>1. LayoutInv /\ [LayoutNext]_layoutVars => LayoutInv'
  <2> SUFFICES ASSUME LayoutInv, [LayoutNext]_layoutVars PROVE LayoutInv'
    OBVIOUS
  <2>1. CASE UNCHANGED layoutVars
    <3>1. UNCHANGED <<stored, parsed, canvas, enabled, draft, resizing, saves, overtaken>>
      BY <2>1 DEF layoutVars
    <3>2. DraftSound' /\ ResizeSound'
      BY <3>1, DraftStays DEF LayoutInv
    <3> QED BY <3>1, <3>2 DEF LayoutInv
  <2>2. CASE LayoutNext
    BY <2>2, CanvasStep, MountStep, StartStep, DragStep, ResizeStartStep, ResizeMoveStep, ResizeEndStep,
       ResizeKeyStep, HideStep, ShowStep, ResetStep, FinishStep, SaveStep, SaveFailStep DEF LayoutNext
  <2> QED BY <2>1, <2>2
<1>2. LayoutInv => CardsDisjoint
  <2> SUFFICES ASSUME LayoutInv PROVE CardsDisjoint
    OBVIOUS
  <2> DEFINE shown == Effective
  <2>1. shown.hidden \in SUBSET enabled /\ shown.items \in LayoutsOf(enabled \ shown.hidden) /\ Disjoint(shown.items)
    BY EffectiveShown
  <2> HIDE DEF shown
  <2>2. DOMAIN shown.items = enabled \ shown.hidden
    BY <2>1 DEF LayoutsOf
  <2>3. draft.on => (overtaken \/ Disjoint(draft.items)) /\ DOMAIN draft.items = enabled \ draft.hidden
    BY DEF LayoutInv, DraftSound, LayoutsOf
  <2>4. DOMAIN shown.items \cap shown.hidden = {} /\ DOMAIN shown.items \cup shown.hidden = enabled
    BY <2>1, <2>2
  <2> QED BY <2>1, <2>3, <2>4 DEF CardsDisjoint, shown
<1> QED BY <1>1, <1>2, LayoutInitially, PTL DEF LayoutSpec
=============================================================================
