---------------------------- MODULE FocusSession ----------------------------
(***************************************************************************)
(* The focus timer of one user: timer.ts, repository.ts and the routes of  *)
(* focus/index.ts.  A request reads the clock before its transaction; the  *)
(* transaction first finds and locks the active session, then writes and   *)
(* commits; its events are published after the commit, and a conflict is   *)
(* answered from a second transaction.  Requests of several tabs interleave*)
(* at each of these points.  Time is counted in whole seconds.             *)
(***************************************************************************)
EXTENDS Integers, Sequences, FiniteSets

CONSTANTS
    FocusRequests,  \* requests in flight
    Durations,      \* planned seconds a start asks for
    LastSecond,     \* bound: the clock stops here
    MaxDelay,       \* bound: seconds between reading the clock and the transaction's end
    MaxSessions,    \* bound: rows ever inserted
    MaxRevision,    \* bound: a session that reached it is paused no more
    Fenced          \* the user's binding is linked: a write must present what it saw

ASSUME FocusAssumption ==
    /\ LastSecond \in Nat /\ MaxDelay \in Nat /\ MaxSessions \in Nat /\ MaxRevision \in Nat
    /\ \A planned \in Durations : planned \in Nat /\ 1 <= planned /\ planned <= 86400
    /\ Fenced \in BOOLEAN

VARIABLES
    second,     \* the clock of the server
    sessions,   \* focus.sessions, by order of insertion
    focusReq,   \* the point a request stands at
    told        \* events published, by session

focusVars == <<second, sessions, focusReq, told>>

Never == 0 - 1
IsActive(row) == row.status \in {"running", "paused"}

(* timer.ts *)
Clamp(n, lo, hi) == IF n < lo THEN lo ELSE IF n > hi THEN hi ELSE n

Elapsed(row, now) ==
    IF row.status = "running"
    THEN Clamp(row.before + (now - row.resumedAt), 0, row.planned)
    ELSE row.before

ExpectedEnd(row) == row.resumedAt + (row.planned - row.before)
Expired(row, now) == row.status = "running" /\ now >= ExpectedEnd(row)

Paused(row, now) ==
    [row EXCEPT !.status = "paused", !.before = Elapsed(row, now),
                !.resumedAt = Never, !.revision = @ + 1]

Resumed(row, now) ==
    [row EXCEPT !.status = "running", !.resumedAt = now, !.revision = @ + 1]

Stopped(row, now) ==
    [row EXCEPT !.status = "cancelled", !.actual = Elapsed(row, now),
                !.endedAt = now, !.revision = @ + 1]

\* It ended when its time ran out, however late that is noticed.
NaturallyCompleted(row) ==
    [row EXCEPT !.status = "completed", !.endedAt = ExpectedEnd(row), !.before = row.planned,
                !.actual = row.planned, !.resumedAt = Never, !.revision = @ + 1]

StartedRow(planned, now) ==
    [status |-> "running", planned |-> planned, before |-> 0,
     resumedAt |-> now, endedAt |-> Never, actual |-> Never, revision |-> 1]

-----------------------------------------------------------------------------
(* Every transaction begins in the same way, so which route a request is for shows  *)
(* when it commits.  "seen" is the revision, and with it the row, that its page saw. *)
Idle == [pc |-> "idle", now |-> 0, seen |-> 0, found |-> 0, tell |-> {}, conflict |-> FALSE]

FocusInit ==
    /\ second = 0
    /\ sessions = <<>>
    /\ focusReq = [r \in FocusRequests |-> Idle]
    /\ told = [i \in 1..MaxSessions |-> 0]

Stands(r, pc) == focusReq[r].pc = pc
ActiveIds == {i \in DOMAIN sessions : IsActive(sessions[i])}
ActiveId == IF ActiveIds = {} THEN 0 ELSE CHOOSE i \in ActiveIds : \A j \in ActiveIds : j <= i

Locked(i) == i # 0 /\ \E r \in FocusRequests : Stands(r, "hold") /\ focusReq[r].found = i

\* Mutant: the completion is published when it is found, inside the transaction.
HoldAndTell(r, request, i) ==
    /\ focusReq' = [focusReq EXCEPT ![r] = [request EXCEPT !.pc = "hold", !.found = i]]
    /\ told' = IF i # 0 /\ Expired(sessions[i], request.now)
               THEN [told EXCEPT ![i] = @ + 1] ELSE told
    /\ UNCHANGED <<second, sessions>>

Hold(r, request, i) ==
    /\ focusReq' = [focusReq EXCEPT ![r] = [request EXCEPT !.pc = "hold", !.found = i]]
    /\ UNCHANGED <<second, sessions, told>>

(* SELECT ... FOR UPDATE: a locked row is waited for and then looked at again;  *)
(* if it is active no longer the query finds nothing, not the row after it.     *)
FindLocked(r, request) ==
    /\ Locked(ActiveId)
    /\ focusReq' = [focusReq EXCEPT ![r] = [request EXCEPT !.pc = "wait", !.found = ActiveId]]
    /\ UNCHANGED <<second, sessions, told>>

Find(r, request) == FindLocked(r, request) \/ (~Locked(ActiveId) /\ Hold(r, request, ActiveId))

Wake(r) ==
    LET i == focusReq[r].found
    IN Stands(r, "wait") /\ ~Locked(i) /\ Hold(r, focusReq[r], IF IsActive(sessions[i]) THEN i ELSE 0)

Clocks == {now \in 0..second : second - now <= MaxDelay}

Begin(r) ==
    /\ Stands(r, "idle")
    /\ \E now \in Clocks :
          Find(r, [Idle EXCEPT !.now = now,
                               !.seen = IF ActiveId = 0 THEN 0 ELSE sessions[ActiveId].revision])

(* The second transaction of a request whose first one was a conflict: syncState. *)
ReadAgain(r) == Stands(r, "again") /\ Find(r, focusReq[r])

-----------------------------------------------------------------------------
(* The rest of the transaction.  reconcileActive closes the session that was found  *)
(* expired; "live" is the session left active.                                      *)
Found(r) == focusReq[r].found
Closes(r) == Found(r) # 0 /\ Expired(sessions[Found(r)], focusReq[r].now)
Live(r) == IF Closes(r) THEN 0 ELSE Found(r)
Reconciled(r) ==
    IF Closes(r) THEN [sessions EXCEPT ![Found(r)] = NaturallyCompleted(@)] ELSE sessions
ToTell(r) == IF Closes(r) THEN {Found(r)} ELSE {}

(* What is left to do: publish, then answer, or read the state again for a 409. *)
Rest(r, tell, conflict) ==
    IF tell = {} /\ ~conflict THEN Idle
    ELSE [Idle EXCEPT !.pc = IF tell = {} THEN "again" ELSE "committed",
                      !.now = IF conflict THEN focusReq[r].now ELSE 0,
                      !.tell = tell, !.conflict = conflict]

Commit(r, rows, tell, conflict) ==
    /\ sessions' = rows
    /\ focusReq' = [focusReq EXCEPT ![r] = Rest(r, tell, conflict)]
    /\ UNCHANGED <<second, told>>

Conflict(r) == Commit(r, Reconciled(r), ToTell(r), TRUE)
OnlyReconcile(r) == Commit(r, Reconciled(r), ToTell(r), FALSE)

\* A read of the state, and a pause or resume that was done before.
SyncState(r) == Stands(r, "hold") /\ OnlyReconcile(r)

\* The other routes; a request that is at its second transaction only reads.
Decides(r) == Stands(r, "hold") /\ ~focusReq[r].conflict

\* A start while a session is live, a transition without one, or one that is out of date.
Refuse(r) == Decides(r) /\ Conflict(r)

\* Mutant: no unique index on the active sessions.
OneActiveIndexAbsent(r) == TRUE
OneActiveIndex(r) == \A i \in ActiveIds : i \in ToTell(r)

StartSession(r) ==
    /\ Decides(r) /\ Live(r) = 0 /\ OneActiveIndex(r)
    /\ Len(sessions) < MaxSessions
    /\ \E planned \in Durations :
          Commit(r, Append(Reconciled(r), StartedRow(planned, focusReq[r].now)), ToTell(r), FALSE)

(* 23505: another start committed first; everything this one did is rolled back. *)
StartLost(r) == Decides(r) /\ Live(r) = 0 /\ ~OneActiveIndex(r) /\ Commit(r, sessions, {}, TRUE)

(* revisionConflict and hashConflict: what is presented must be the row; without a  *)
(* linked binding nothing has to be presented.                                       *)
Accepted(r) == focusReq[r].seen = sessions[Live(r)].revision \/ ~Fenced

Transition(r, statuses, row) ==
    /\ Decides(r) /\ Live(r) # 0 /\ Accepted(r)
    /\ sessions[Live(r)].status \in statuses
    /\ Commit(r, [sessions EXCEPT ![Live(r)] = row], IF IsActive(row) THEN {} ELSE {Live(r)}, FALSE)

PauseSession(r) ==
    /\ Live(r) # 0 /\ sessions[Live(r)].revision < MaxRevision
    /\ Transition(r, {"running"}, Paused(sessions[Live(r)], focusReq[r].now))

ResumeSession(r) ==
    Live(r) # 0 /\ Transition(r, {"paused"}, Resumed(sessions[Live(r)], focusReq[r].now))

StopSession(r) ==
    /\ Live(r) # 0
    /\ Transition(r, {"running", "paused"}, Stopped(sessions[Live(r)], focusReq[r].now))

(* finishTransition *)
Publish(r) ==
    /\ Stands(r, "committed")
    /\ told' = [i \in DOMAIN told |-> IF i \in focusReq[r].tell THEN told[i] + 1 ELSE told[i]]
    /\ focusReq' = [focusReq EXCEPT ![r] = Rest(r, {}, focusReq[r].conflict)]
    /\ UNCHANGED <<second, sessions>>

Tick ==
    /\ second < LastSecond
    /\ \A r \in FocusRequests : Stands(r, "idle") \/ second - focusReq[r].now < MaxDelay
    /\ second' = second + 1
    /\ UNCHANGED <<sessions, focusReq, told>>

FocusStep(r) ==
    \/ Begin(r) \/ ReadAgain(r) \/ Wake(r)
    \/ SyncState(r) \/ Refuse(r) \/ StartSession(r) \/ StartLost(r)
    \/ PauseSession(r) \/ ResumeSession(r) \/ StopSession(r) \/ Publish(r)

FocusNext == Tick \/ \E r \in FocusRequests : FocusStep(r)

FocusSpec == FocusInit /\ [][FocusNext]_focusVars

-----------------------------------------------------------------------------
(* At most one session of a user is running or paused, whatever starts, expiries and  *)
(* restarts overlap (focus/index.ts start, sessions_one_active_idx).                  *)
OneActiveSession == Cardinality(ActiveIds) <= 1

(* A session is announced at most once, as completed or as cancelled, and only after  *)
(* the transaction that ended it committed (publishCompleted, publishCancelled).      *)
ToldOnce == \A i \in DOMAIN told : told[i] <= 1 /\ (told[i] = 1 => i \in DOMAIN sessions
                                                      /\ ~IsActive(sessions[i]))

(* Both: a session that two requests and the clock find over is ended by one of them.   *)
SessionsEndOnce == OneActiveSession /\ ToldOnce
=============================================================================
