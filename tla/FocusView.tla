----------------------------- MODULE FocusView ------------------------------
(***************************************************************************)
(* The focus timer as the pages show it: useFocusState.ts, mounted by the  *)
(* focus page and by the widgets of one document, and the alert controller *)
(* they share (FocusAlerts, of which a verification only needs that it     *)
(* claims a session once).  Every observer reads the state of the          *)
(* server on its own (deadline, poll, broadcast, return to the tab) and    *)
(* may start, pause, resume or stop.  The server's answer is a version and *)
(* the active session; FocusSession says how it comes about.               *)
(***************************************************************************)
EXTENDS FocusAlerts

CONSTANTS Observers,     \* mounted pages and widgets of one document
          MaxFocusIds,   \* bound: sessions
          MaxVersion     \* bound: versions of the server's state

ASSUME FocusViewAssumption == MaxFocusIds \in Nat /\ MaxVersion \in Nat

VARIABLES truth,     \* the server: version, active session (0 when none), status of each session
          view,      \* the refs of each observer
          read,      \* its newest read of the state
          late,      \* an earlier read, superseded but still under way
          request,   \* its mutation
          claimed,   \* the sessions the alert controller has announced
          rung,      \* history: announcements of each session
          wentBack   \* history: an observer replaced a state by an older one

focusViewVars == <<truth, view, read, late, request, claimed, rung, wentBack>>

FocusIds == 1..MaxFocusIds
NoRead == [pc |-> "none", ver |-> 0, active |-> 0]
NoRequest == [pc |-> "none", op |-> "none", base |-> 0, ver |-> 0, active |-> 0]
Unmounted == [up |-> FALSE, ver |-> 0, active |-> 0, busy |-> FALSE, pending |-> {}, handled |-> {}]

FocusViewInit ==
    /\ truth = [ver |-> 1, active |-> 0, status |-> [s \in FocusIds |-> "none"]]
    /\ view = [o \in Observers |-> Unmounted]
    /\ read = [o \in Observers |-> NoRead] /\ late = [o \in Observers |-> NoRead]
    /\ request = [o \in Observers |-> NoRequest]
    /\ claimed = {} /\ rung = [s \in FocusIds |-> 0] /\ wentBack = FALSE

Fresh(t) == {s \in FocusIds : t.status[s] = "none"}
NewestFirst(t) == CHOOSE s \in Fresh(t) : \A other \in Fresh(t) : s <= other

\* The server's state after an operation; a start beside an active session, or a
\* change of a session that moved on, is a conflict and changes nothing.
After(t, op, base) ==
    CASE op = "start" /\ t.active = 0 /\ Fresh(t) # {} ->
            [ver |-> t.ver + 1, active |-> NewestFirst(t),
             status |-> [t.status EXCEPT ![NewestFirst(t)] = "running"]]
      [] op = "pause" /\ t.active # 0 /\ base = t.ver -> [t EXCEPT !.ver = @ + 1]
      [] op = "stop" /\ t.active # 0 /\ base = t.ver ->
            [ver |-> t.ver + 1, active |-> 0, status |-> [t.status EXCEPT ![t.active] = "cancelled"]]
      [] OTHER -> t

\* applyState: a session that is no longer active has to be verified, once.
Applied(v, answer) ==
    LET gone == {v.active} \ ({0, answer.active} \cup v.handled)
    IN  [v EXCEPT !.ver = answer.ver, !.active = answer.active, !.pending = @ \cup gone]

ViewShows(o, answer, idle) ==
    /\ view' = [view EXCEPT ![o] = [Applied(view[o], answer) EXCEPT !.busy = @ /\ ~idle]]
    /\ wentBack' = (wentBack \/ answer.ver < view[o].ver)

\* The read under way is superseded: its sequence or its generation is no longer current.
Superseded(o) == IF read[o].pc = "none" THEN late[o] ELSE read[o]

-----------------------------------------------------------------------------
\* The first effect: a new epoch, nothing remembered, a first read.
Mount(o) ==
    /\ ~view[o].up
    /\ view' = [view EXCEPT ![o].up = TRUE]
    /\ read' = [read EXCEPT ![o] = [NoRead EXCEPT !.pc = "asked"]]
    /\ UNCHANGED <<truth, late, request, claimed, rung, wentBack>>

\* Its cleanup: answers of the old epoch are dropped.
Unmount(o) ==
    /\ view[o].up
    /\ view' = [view EXCEPT ![o] = Unmounted]
    /\ read' = [read EXCEPT ![o] = NoRead] /\ late' = [late EXCEPT ![o] = NoRead]
    /\ request' = [request EXCEPT ![o] = NoRequest]
    /\ UNCHANGED <<truth, claimed, rung, wentBack>>

\* loadState: from the deadline timer, the poll, a broadcast, a click; not while busy.
Load(o) ==
    /\ view[o].up /\ ~view[o].busy
    /\ late' = [late EXCEPT ![o] = Superseded(o)]
    /\ read' = [read EXCEPT ![o] = [NoRead EXCEPT !.pc = "asked"]]
    /\ UNCHANGED <<truth, view, request, claimed, rung, wentBack>>

Snapshot(r) == [r EXCEPT !.pc = "served", !.ver = truth.ver, !.active = truth.active]
ServeLoad(o) ==
    /\ \/ read[o].pc = "asked" /\ read' = [read EXCEPT ![o] = Snapshot(@)] /\ UNCHANGED late
       \/ late[o].pc = "asked" /\ late' = [late EXCEPT ![o] = Snapshot(@)] /\ UNCHANGED read
    /\ UNCHANGED <<truth, view, request, claimed, rung, wentBack>>

LoadArrives(o) ==
    /\ read[o].pc = "served"
    /\ ViewShows(o, read[o], FALSE)
    /\ read' = [read EXCEPT ![o] = NoRead]
    /\ UNCHANGED <<truth, late, request, claimed, rung>>

\* current(): whether a superseded read is let through.
LetsThrough(o) == view[o].up
IsCurrent(o) == FALSE

LateArrives(o) ==
    /\ late[o].pc = "served"
    /\ IF IsCurrent(o) THEN ViewShows(o, late[o], FALSE) ELSE UNCHANGED <<view, wentBack>>
    /\ late' = [late EXCEPT ![o] = NoRead]
    /\ UNCHANGED <<truth, read, request, claimed, rung>>

LoadLost(o) ==
    /\ read[o].pc # "none"
    /\ read' = [read EXCEPT ![o] = NoRead]
    /\ UNCHANGED <<truth, view, late, request, claimed, rung, wentBack>>

\* dispatch: one mutation at a time, which invalidates every earlier read.
Dispatch(o, op) ==
    /\ view[o].up /\ ~view[o].busy
    /\ view' = [view EXCEPT ![o].busy = TRUE]
    /\ request' = [request EXCEPT ![o] = [NoRequest EXCEPT !.pc = "asked", !.op = op,
                                                           !.base = view[o].ver]]
    /\ late' = [late EXCEPT ![o] = Superseded(o)]
    /\ read' = [read EXCEPT ![o] = NoRead]
    /\ UNCHANGED <<truth, claimed, rung, wentBack>>

ServeDispatch(o) ==
    /\ request[o].pc = "asked" /\ truth.ver < MaxVersion
    /\ truth' = After(truth, request[o].op, request[o].base)
    /\ request' = [request EXCEPT ![o] = [NoRequest EXCEPT !.pc = "served", !.ver = truth'.ver,
                                                           !.active = truth'.active]]
    /\ UNCHANGED <<view, read, late, claimed, rung, wentBack>>

\* The answer, or the state in the body of a 409; the other observers load on the broadcast.
DispatchArrives(o) ==
    /\ request[o].pc = "served"
    /\ ViewShows(o, request[o], TRUE)
    /\ request' = [request EXCEPT ![o] = NoRequest]
    /\ UNCHANGED <<truth, read, late, claimed, rung>>

\* Any other error, sync_stale among them, leaves the state.
DispatchFails(o) ==
    /\ request[o].pc # "none"
    /\ view' = [view EXCEPT ![o].busy = FALSE]
    /\ request' = [request EXCEPT ![o] = NoRequest]
    /\ UNCHANGED <<truth, read, late, claimed, rung, wentBack>>

\* announce: once per session, whichever observer verified it.
ClaimsAlways(s) == TRUE
Claims(s) == s \notin claimed

\* verifyPending: the lookup of exactly this session.  A status that is terminal stays
\* as it is, so the lookup and its answer are one step; anything else is retried.
Verify(o, s) ==
    /\ s \in view[o].pending
    /\ truth.status[s] \in {"completed", "cancelled"}
    /\ view' = [view EXCEPT ![o].pending = @ \ {s}, ![o].handled = @ \cup {s}]
    /\ IF truth.status[s] = "completed" /\ Claims(s)
       THEN claimed' = claimed \cup {s} /\ rung' = [rung EXCEPT ![s] = @ + 1]
       ELSE UNCHANGED <<claimed, rung>>
    /\ UNCHANGED <<truth, read, late, request, wentBack>>

\* Environment: time completes the active session, another document starts, pauses, stops.
OtherDocument ==
    /\ truth.ver < MaxVersion
    /\ truth' \in {After(truth, op, truth.ver) : op \in {"start", "pause", "stop"}} \cup
                  (IF truth.active = 0 THEN {}
                   ELSE {[ver |-> truth.ver + 1, active |-> 0,
                          status |-> [truth.status EXCEPT ![truth.active] = "completed"]]})
    /\ UNCHANGED <<view, read, late, request, claimed, rung, wentBack>>

FocusViewNext ==
    \/ \E o \in Observers :
          \/ Mount(o) \/ Unmount(o) \/ Load(o) \/ ServeLoad(o) \/ LoadArrives(o)
          \/ LateArrives(o) \/ LoadLost(o)
          \/ (\E op \in {"start", "pause", "stop"} : Dispatch(o, op))
          \/ ServeDispatch(o) \/ DispatchArrives(o) \/ DispatchFails(o)
          \/ (\E s \in FocusIds : Verify(o, s))
    \/ OtherDocument

FocusViewSpec == FocusViewInit /\ [][FocusViewNext]_focusViewVars

\* The state an observer shows is never replaced by an older one, however its reads
\* overtake each other and its mutations ("Server-authoritative state with ordered reads").
TimerNotOlder == ~wentBack

\* A session is announced at most once in a document and only if it completed, also when
\* several observers saw it end, mount again or lost the answers in between.
AnnouncedOnce == \A s \in FocusIds : rung[s] <= 1 /\ (rung[s] = 1 => truth.status[s] = "completed")

\* Both, of every observer of the timer in a document, and what their controller promises.
ObserversAgree == TimerNotOlder /\ AnnouncedOnce /\ AlertsAsChosen /\ AnnouncedSeldom
=============================================================================
