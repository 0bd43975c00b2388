--------------------------- MODULE BackendProofs ----------------------------
(***************************************************************************)
(* What the backend does in several steps, for any number of requests and   *)
(* rows: the focus timer, the accounts, and the copies of the data.         *)
(***************************************************************************)
EXTENDS FocusSession, Accounts, SyncFiles, SnapshotMerge, SyncGraph, TLAPS, FiniteSetTheorems,
        WellFoundedInduction

-----------------------------------------------------------------------------
(***************************************************************************)
(* The focus timer.                                                        *)
(***************************************************************************)
Session ==
    [status : {"running", "paused", "completed", "cancelled"}, planned : Nat, before : Int,
     resumedAt : Int, endedAt : Int, actual : Int, revision : Int]

FocusRequest ==
    [pc : {"idle", "wait", "hold", "committed", "again"}, now : Nat, seen : Int, found : Nat,
     tell : SUBSET Nat, conflict : BOOLEAN]

FocusTypeOK ==
    /\ second \in Nat
    /\ sessions \in Seq(Session) /\ Len(sessions) <= MaxSessions
    /\ focusReq \in [FocusRequests -> FocusRequest]
    /\ told \in [1..MaxSessions -> Nat]

Ended(i) == i \in DOMAIN sessions /\ ~IsActive(sessions[i])

\* The unique index on the active sessions.
OneActive == \A i, j \in ActiveIds : i = j

(* A request that waits or holds has found a row; the one that holds it has it alone,  *)
(* so the row is active until that request commits.                                    *)
RowsHeld ==
    /\ \A r \in FocusRequests : Stands(r, "wait") => Found(r) \in DOMAIN sessions
    /\ \A r \in FocusRequests : Stands(r, "hold") /\ Found(r) # 0 => Found(r) \in ActiveIds
    /\ \A r, s \in FocusRequests :
          Stands(r, "hold") /\ Stands(s, "hold") /\ Found(r) = Found(s) /\ Found(r) # 0 => r = s

(* What a request has still to tell has ended, has not been told, and no other request *)
(* has it to tell.                                                                     *)
TellsOnce ==
    /\ \A i \in 1..MaxSessions : told[i] <= 1 /\ (told[i] = 1 => Ended(i))
    /\ \A r \in FocusRequests : \A i \in focusReq[r].tell :
          i \in 1..MaxSessions /\ Ended(i) /\ told[i] = 0
    /\ \A r, s \in FocusRequests : focusReq[r].tell \cap focusReq[s].tell # {} => r = s
    /\ \A r \in FocusRequests : focusReq[r].tell # {} => Stands(r, "committed")

FocusInv == FocusTypeOK /\ OneActive /\ RowsHeld /\ TellsOnce

\* The four ways a row is written.
LEMMA WrittenRows ==
    ASSUME NEW old \in Session, NEW now \in Nat
    PROVE  /\ Paused(old, now) \in Session /\ Paused(old, now).status = "paused"
           /\ Resumed(old, now) \in Session /\ Resumed(old, now).status = "running"
           /\ Stopped(old, now) \in Session /\ Stopped(old, now).status = "cancelled"
           /\ NaturallyCompleted(old) \in Session /\ NaturallyCompleted(old).status = "completed"
<1>1. Elapsed(old, now) \in Int /\ ExpectedEnd(old) \in Int
  BY DEF Elapsed, Clamp, ExpectedEnd, Session
<1>2. \A x \in Session, v \in Int :
         LET x1 == [x EXCEPT !.before = v]
             x2 == [x EXCEPT !.resumedAt = v]
             x3 == [x EXCEPT !.revision = v]
             x4 == [x EXCEPT !.actual = v]
             x5 == [x EXCEPT !.endedAt = v]
         IN  /\ x1 \in Session /\ x1.status = x.status
             /\ x2 \in Session /\ x2.status = x.status
             /\ x3 \in Session /\ x3.status = x.status
             /\ x4 \in Session /\ x4.status = x.status
             /\ x5 \in Session /\ x5.status = x.status
  BY DEF Session
<1>3. \A s \in {"running", "paused", "completed", "cancelled"} :
         [old EXCEPT !.status = s] \in Session /\ [old EXCEPT !.status = s].status = s
  BY DEF Session
<1>4. now \in Int /\ old.revision + 1 \in Int /\ Never \in Int /\ old.planned \in Int
  BY DEF Session, Never
<1>5. Paused(old, now) \in Session /\ Paused(old, now).status = "paused"
  <2> DEFINE a == [old EXCEPT !.status = "paused"]
             b == [a EXCEPT !.before = Elapsed(old, now)]
             c == [b EXCEPT !.resumedAt = Never]
             d == [c EXCEPT !.revision = old.revision + 1]
  <2>1. a \in Session /\ a.status = "paused"
    BY <1>3
  <2> HIDE DEF a
  <2>2. b \in Session /\ b.status = "paused"
    BY <1>1, <1>2, <2>1
  <2> HIDE DEF b
  <2>3. c \in Session /\ c.status = "paused"
    BY <1>2, <1>4, <2>2
  <2> HIDE DEF c
  <2>4. d \in Session /\ d.status = "paused"
    BY <1>2, <1>4, <2>3
  <2>5. Paused(old, now) = d
    BY DEF Paused, a, b, c
  <2> QED BY <2>4, <2>5
<1>6. Resumed(old, now) \in Session /\ Resumed(old, now).status = "running"
  <2> DEFINE a == [old EXCEPT !.status = "running"]
             b == [a EXCEPT !.resumedAt = now]
             c == [b EXCEPT !.revision = old.revision + 1]
  <2>1. a \in Session /\ a.status = "running"
    BY <1>3
  <2> HIDE DEF a
  <2>2. b \in Session /\ b.status = "running"
    BY <1>2, <1>4, <2>1
  <2> HIDE DEF b
  <2>3. c \in Session /\ c.status = "running"
    BY <1>2, <1>4, <2>2
  <2>4. Resumed(old, now) = c
    BY DEF Resumed, a, b
  <2> QED BY <2>3, <2>4
<1>7. Stopped(old, now) \in Session /\ Stopped(old, now).status = "cancelled"
  <2> DEFINE a == [old EXCEPT !.status = "cancelled"]
             b == [a EXCEPT !.actual = Elapsed(old, now)]
             c == [b EXCEPT !.endedAt = now]
             d == [c EXCEPT !.revision = old.revision + 1]
  <2>1. a \in Session /\ a.status = "cancelled"
    BY <1>3
  <2> HIDE DEF a
  <2>2. b \in Session /\ b.status = "cancelled"
    BY <1>1, <1>2, <2>1
  <2> HIDE DEF b
  <2>3. c \in Session /\ c.status = "cancelled"
    BY <1>2, <1>4, <2>2
  <2> HIDE DEF c
  <2>4. d \in Session /\ d.status = "cancelled"
    BY <1>2, <1>4, <2>3
  <2>5. Stopped(old, now) = d
    BY DEF Stopped, a, b, c
  <2> QED BY <2>4, <2>5
<1>8. NaturallyCompleted(old) \in Session /\ NaturallyCompleted(old).status = "completed"
  <2> DEFINE a == [old EXCEPT !.status = "completed"]
             b == [a EXCEPT !.endedAt = ExpectedEnd(old)]
             c == [b EXCEPT !.before = old.planned]
             d == [c EXCEPT !.actual = old.planned]
             e == [d EXCEPT !.resumedAt = Never]
             f == [e EXCEPT !.revision = old.revision + 1]
  <2>1. a \in Session /\ a.status = "completed"
    BY <1>3
  <2> HIDE DEF a
  <2>2. b \in Session /\ b.status = "completed"
    BY <1>1, <1>2, <2>1
  <2> HIDE DEF b
  <2>3. c \in Session /\ c.status = "completed"
    BY <1>2, <1>4, <2>2
  <2> HIDE DEF c
  <2>4. d \in Session /\ d.status = "completed"
    BY <1>2, <1>4, <2>3
  <2> HIDE DEF d
  <2>5. e \in Session /\ e.status = "completed"
    BY <1>2, <1>4, <2>4
  <2> HIDE DEF e
  <2>6. f \in Session /\ f.status = "completed"
    BY <1>2, <1>4, <2>5
  <2>7. NaturallyCompleted(old) = f
    BY DEF NaturallyCompleted, a, b, c, d, e
  <2> QED BY <2>6, <2>7
<1> QED BY <1>5, <1>6, <1>7, <1>8

\* A new row runs.
LEMMA StartedType ==
    ASSUME NEW planned \in Durations, NEW now \in Nat
    PROVE  StartedRow(planned, now) \in Session /\ StartedRow(planned, now).status = "running"
<1>1. planned \in Nat
  BY FocusAssumption
<1> QED BY <1>1 DEF StartedRow, Session, Never

\* A row replaced by another.
LEMMA SessionPut ==
    ASSUME sessions \in Seq(Session), NEW i \in DOMAIN sessions, NEW new \in Session
    PROVE  LET after == [sessions EXCEPT ![i] = new]
           IN  /\ after \in Seq(Session) /\ Len(after) = Len(sessions) /\ DOMAIN after = DOMAIN sessions
               /\ \A j \in DOMAIN sessions : after[j] = IF j = i THEN new ELSE sessions[j]
               /\ DOMAIN sessions = 1..Len(sessions) /\ sessions[i] \in Session
OBVIOUS

\* A request that is done.
LEMMA IdleType == Idle \in FocusRequest /\ Idle.pc = "idle" /\ Idle.tell = {}
BY DEF Idle, FocusRequest

\* What a request may become.
LEMMA RestType ==
    ASSUME FocusTypeOK, NEW r \in FocusRequests, NEW tell \in SUBSET Nat, NEW conflict \in BOOLEAN
    PROVE  /\ Rest(r, tell, conflict) \in FocusRequest
           /\ Rest(r, tell, conflict).pc \in {"idle", "again", "committed"}
           /\ Rest(r, tell, conflict).tell = tell
<1>1. focusReq[r].now \in Nat
  BY DEF FocusTypeOK, FocusRequest
<1>2. Idle \in FocusRequest /\ Idle.pc = "idle" /\ Idle.tell = {}
  BY IdleType
<1>3. ASSUME NEW pc \in {"again", "committed"}, NEW now \in Nat
      PROVE  LET rest == [Idle EXCEPT !.pc = pc, !.now = now, !.tell = tell, !.conflict = conflict]
             IN  rest \in FocusRequest /\ rest.pc = pc /\ rest.tell = tell
  <2> DEFINE a == [Idle EXCEPT !.pc = pc]
             b == [a EXCEPT !.now = now]
             c == [b EXCEPT !.tell = tell]
             d == [c EXCEPT !.conflict = conflict]
  <2>1. a \in FocusRequest /\ a.pc = pc
    BY <1>2 DEF FocusRequest
  <2> HIDE DEF a
  <2>2. b \in FocusRequest /\ b.pc = pc
    BY <2>1 DEF FocusRequest
  <2> HIDE DEF b
  <2>3. c \in FocusRequest /\ c.pc = pc /\ c.tell = tell
    BY <2>2 DEF FocusRequest
  <2> HIDE DEF c
  <2>4. d \in FocusRequest /\ d.pc = pc /\ d.tell = tell
    BY <2>3 DEF FocusRequest
  <2> QED BY <2>4 DEF a, b, c
<1>4. CASE tell = {} /\ ~conflict
  BY <1>2, <1>4 DEF Rest
<1>5. CASE ~(tell = {} /\ ~conflict)
  <2> DEFINE pc == IF tell = {} THEN "again" ELSE "committed"
             now == IF conflict THEN focusReq[r].now ELSE 0
  <2>1. pc \in {"again", "committed"} /\ now \in Nat
    BY <1>1
  <2>2. Rest(r, tell, conflict) = [Idle EXCEPT !.pc = pc, !.now = now, !.tell = tell, !.conflict = conflict]
    BY <1>5 DEF Rest
  <2> HIDE DEF pc, now
  <2>3. LET rest == [Idle EXCEPT !.pc = pc, !.now = now, !.tell = tell, !.conflict = conflict]
        IN  rest \in FocusRequest /\ rest.pc = pc /\ rest.tell = tell
    BY <1>3, <2>1
  <2> QED BY <2>1, <2>2, <2>3
<1> QED BY <1>4, <1>5

\* The active session, if there is one.
LEMMA ActiveIdIsActive ==
    ASSUME FocusTypeOK, OneActive
    PROVE  ActiveId \in Nat /\ (ActiveId # 0 => ActiveId \in ActiveIds)
<1>1. CASE ActiveIds = {}
  BY <1>1 DEF ActiveId
<1>2. CASE ActiveIds # {}
  <2>1. PICK i \in ActiveIds : \A j \in ActiveIds : j <= i
    <3>1. PICK i \in ActiveIds : TRUE
      BY <1>2
    <3>2. i \in Nat /\ \A j \in ActiveIds : j = i
      BY DEF OneActive, ActiveIds, FocusTypeOK
    <3> QED BY <3>2
  <2>2. ActiveId \in ActiveIds
    BY <1>2, <2>1 DEF ActiveId
  <2> QED BY <2>2 DEF ActiveIds, FocusTypeOK
<1> QED BY <1>1, <1>2

(* A request finds a row, or waits for it: nothing is written, and a row that is held  *)
(* is found by nobody else.                                                            *)
LEMMA FoundKeeps ==
    ASSUME FocusInv, NEW r \in FocusRequests, ~Stands(r, "hold"),
           NEW request \in FocusRequest, request.tell = {},
           NEW i \in Nat, NEW pc \in {"wait", "hold"},
           pc = "hold" => ~Locked(i) /\ (i # 0 => i \in ActiveIds),
           pc = "wait" => i \in DOMAIN sessions,
           focusReq' = [focusReq EXCEPT ![r] = [request EXCEPT !.pc = pc, !.found = i]],
           UNCHANGED <<second, sessions, told>>
    PROVE  FocusInv'
<1> DEFINE new == [request EXCEPT !.pc = pc, !.found = i]
<1>1. new \in FocusRequest /\ new.pc = pc /\ new.found = i /\ new.tell = {}
  <2> DEFINE at == [request EXCEPT !.pc = pc]
  <2>1. at \in FocusRequest /\ at.pc = pc /\ at.tell = {}
    BY DEF FocusRequest
  <2> HIDE DEF at
  <2>2. [at EXCEPT !.found = i] \in FocusRequest /\ [at EXCEPT !.found = i].pc = pc
        /\ [at EXCEPT !.found = i].found = i /\ [at EXCEPT !.found = i].tell = {}
    BY <2>1 DEF FocusRequest
  <2> QED BY <2>2 DEF at
<1>2. focusReq' = [focusReq EXCEPT ![r] = new]
  OBVIOUS
<1> HIDE DEF new
<1>3. \A s \in FocusRequests : focusReq'[s] = IF s = r THEN new ELSE focusReq[s]
  BY <1>2 DEF FocusInv, FocusTypeOK
<1>4. FocusTypeOK'
  BY <1>1, <1>2 DEF FocusInv, FocusTypeOK
<1>5. OneActive' /\ ActiveIds' = ActiveIds
  BY DEF FocusInv, OneActive, ActiveIds
<1>6. RowsHeld'
  <2>1. \A s \in FocusRequests : s # r /\ Stands(s, "hold") /\ pc = "hold" /\ i # 0 => Found(s) # i
    BY DEF Locked, Found
  <2> QED BY <1>1, <1>3, <1>5, <2>1 DEF FocusInv, RowsHeld, Stands, Found
<1>7. TellsOnce'
  BY <1>1, <1>3 DEF FocusInv, TellsOnce, Ended, Stands
<1> QED BY <1>4, <1>5, <1>6, <1>7 DEF FocusInv

\* The SELECT of a transaction that starts.
LEMMA FindKeeps ==
    ASSUME FocusInv, NEW r \in FocusRequests, ~Stands(r, "hold"),
           NEW request \in FocusRequest, request.tell = {}, Find(r, request)
    PROVE  FocusInv'
<1>1. PICK i \in Nat : i = ActiveId /\ (i # 0 => i \in ActiveIds)
  BY ActiveIdIsActive DEF FocusInv
<1>2. CASE FindLocked(r, request)
  <2>1. i \in DOMAIN sessions
    BY <1>1, <1>2 DEF FindLocked, Locked, ActiveIds
  <2> QED BY <1>1, <1>2, <2>1, FoundKeeps DEF FindLocked
<1>3. CASE ~Locked(ActiveId) /\ Hold(r, request, ActiveId)
  BY <1>1, <1>3, FoundKeeps DEF Hold
<1> QED BY <1>2, <1>3 DEF Find

\* The steps that only look.
LEMMA LookingKeeps ==
    ASSUME FocusInv, NEW r \in FocusRequests, Begin(r) \/ ReadAgain(r) \/ Wake(r)
    PROVE  FocusInv'
<1>1. focusReq[r] \in FocusRequest /\ sessions \in Seq(Session)
  BY DEF FocusInv, FocusTypeOK
<1>2. CASE Begin(r)
  <2>1. PICK now \in Clocks :
           Find(r, [Idle EXCEPT !.now = now, !.seen = IF ActiveId = 0 THEN 0 ELSE sessions[ActiveId].revision])
    BY <1>2 DEF Begin
  <2>2. PICK seen \in Int : seen = IF ActiveId = 0 THEN 0 ELSE sessions[ActiveId].revision
    <3>1. ActiveId # 0 => sessions[ActiveId] \in Session
      BY <1>1, ActiveIdIsActive DEF FocusInv, ActiveIds
    <3> QED BY <3>1 DEF Session
  <2> DEFINE dated == [Idle EXCEPT !.now = now]
             request == [dated EXCEPT !.seen = seen]
  <2>3. dated \in FocusRequest /\ dated.tell = {}
    <3>1. now \in Nat
      BY DEF Clocks
    <3> QED BY <3>1, IdleType DEF FocusRequest
  <2> HIDE DEF dated
  <2>4. request \in FocusRequest /\ request.tell = {}
    BY <2>3 DEF FocusRequest
  <2>5. Find(r, request)
    BY <2>1, <2>2 DEF dated
  <2> HIDE DEF request
  <2> QED BY <1>2, <2>4, <2>5, FindKeeps DEF Begin, Stands
<1>3. CASE ReadAgain(r)
  BY <1>1, <1>3, FindKeeps DEF ReadAgain, Stands, FocusInv, TellsOnce
<1>4. CASE Wake(r)
  <2>1. PICK i \in Nat : i = focusReq[r].found /\ i \in DOMAIN sessions
    BY <1>1, <1>4 DEF Wake, FocusInv, RowsHeld, Found, FocusRequest
  <2>2. PICK j \in Nat : j = (IF IsActive(sessions[i]) THEN i ELSE 0)
    OBVIOUS
  <2>3. ~Locked(j) /\ (j # 0 => j \in ActiveIds)
    BY <1>4, <2>1, <2>2 DEF Wake, Locked, ActiveIds
  <2>4. Hold(r, focusReq[r], j)
    BY <1>4, <2>1, <2>2 DEF Wake
  <2>5. ~Stands(r, "hold") /\ focusReq[r].tell = {}
    BY <1>4 DEF Wake, Stands, FocusInv, TellsOnce
  <2>6. focusReq' = [focusReq EXCEPT ![r] = [focusReq[r] EXCEPT !.pc = "hold", !.found = j]]
        /\ UNCHANGED <<second, sessions, told>>
    BY <2>4 DEF Hold
  <2> QED BY <1>1, <2>3, <2>5, <2>6, FoundKeeps
<1> QED BY <1>2, <1>3, <1>4

(* A transaction that commits: it writes no row but the one it holds and the new one,  *)
(* and tells of the row it holds only if it ended it.                                  *)
LEMMA CommitKeeps ==
    ASSUME FocusInv, NEW r \in FocusRequests, Stands(r, "hold"),
           NEW rows \in Seq(Session), Len(rows) <= MaxSessions, Len(sessions) <= Len(rows),
           \A j \in DOMAIN sessions : j # Found(r) => rows[j] = sessions[j],
           \A i, j \in DOMAIN rows : IsActive(rows[i]) /\ IsActive(rows[j]) => i = j,
           NEW tell \in SUBSET Nat,
           \A j \in tell : j = Found(r) /\ j \in DOMAIN sessions /\ ~IsActive(rows[j]),
           NEW conflict \in BOOLEAN, Commit(r, rows, tell, conflict)
    PROVE  FocusInv'
<1> DEFINE new == Rest(r, tell, conflict)
<1>1. new \in FocusRequest /\ new.pc \in {"idle", "again", "committed"} /\ new.tell = tell
      /\ (tell # {} => new.pc = "committed")
  <2>1. FocusTypeOK
    BY DEF FocusInv
  <2>2. tell # {} => new.pc = "committed"
    BY DEF Rest, Idle
  <2> QED BY <2>1, <2>2, RestType
<1>2. /\ sessions' = rows /\ UNCHANGED <<second, told>>
      /\ focusReq' = [focusReq EXCEPT ![r] = new]
  BY DEF Commit
<1> HIDE DEF new
<1>3. \A s \in FocusRequests : focusReq'[s] = IF s = r THEN new ELSE focusReq[s]
  BY <1>2 DEF FocusInv, FocusTypeOK
<1>4. FocusTypeOK'
  BY <1>1, <1>2 DEF FocusInv, FocusTypeOK
<1>5. OneActive'
  BY <1>2 DEF OneActive, ActiveIds
<1>6. DOMAIN sessions \subseteq DOMAIN rows /\ DOMAIN sessions \subseteq 1..MaxSessions
  BY FocusAssumption DEF FocusInv, FocusTypeOK
<1>7. Found(r) # 0 => Found(r) \in ActiveIds
  BY DEF FocusInv, RowsHeld
<1>8. RowsHeld'
  <2>1. \A s \in FocusRequests : s # r /\ Stands(s, "hold") /\ Found(s) # 0 => Found(s) # Found(r)
    BY DEF FocusInv, RowsHeld
  <2>2. \A s \in FocusRequests : s # r /\ Stands(s, "hold") /\ Found(s) # 0 => Found(s) \in ActiveIds'
    BY <1>2, <1>6, <2>1 DEF FocusInv, RowsHeld, ActiveIds
  <2>3. \A s \in FocusRequests : Stands(s, "wait") => Found(s) \in DOMAIN rows
    BY <1>6 DEF FocusInv, RowsHeld
  <2> QED BY <1>1, <1>2, <1>3, <2>2, <2>3 DEF FocusInv, RowsHeld, Stands, Found
<1>9. TellsOnce'
  <2>1. \A i : Ended(i) => Ended(i)' /\ i # Found(r)
    BY <1>2, <1>6, <1>7 DEF Ended, ActiveIds, FocusInv, RowsHeld, FocusTypeOK
  <2>2. \A i \in tell : i \in 1..MaxSessions /\ Ended(i)' /\ told[i] = 0 /\ ~Ended(i)
    BY <1>2, <1>6, <1>7, FocusAssumption DEF Ended, ActiveIds, FocusInv, TellsOnce, FocusTypeOK
  <2>3. \A s \in FocusRequests : focusReq[s].tell \cap tell = {}
    BY <2>2 DEF FocusInv, TellsOnce
  <2>4. \A s \in FocusRequests : focusReq'[s].tell = IF s = r THEN tell ELSE focusReq[s].tell
    BY <1>1, <1>3
  <2>5. \A i \in 1..MaxSessions : told'[i] <= 1 /\ (told'[i] = 1 => Ended(i)')
    BY <1>2, <2>1 DEF FocusInv, TellsOnce
  <2>6. \A s \in FocusRequests : \A i \in focusReq'[s].tell :
            i \in 1..MaxSessions /\ Ended(i)' /\ told'[i] = 0
    <3>1. \A s \in FocusRequests : \A i \in focusReq[s].tell :
              i \in 1..MaxSessions /\ Ended(i)' /\ told'[i] = 0
      BY <1>2, <2>1 DEF FocusInv, TellsOnce
    <3>2. \A i \in tell : i \in 1..MaxSessions /\ Ended(i)' /\ told'[i] = 0
      BY <1>2, <2>2
    <3> QED BY <2>4, <3>1, <3>2
  <2>7. \A s, q \in FocusRequests : focusReq'[s].tell \cap focusReq'[q].tell # {} => s = q
    BY <2>3, <2>4 DEF FocusInv, TellsOnce
  <2>8. \A s \in FocusRequests : focusReq'[s].tell # {} => Stands(s, "committed")'
    BY <1>1, <1>3, <2>4 DEF FocusInv, TellsOnce, Stands
  <2> QED BY <2>5, <2>6, <2>7, <2>8 DEF TellsOnce
<1> QED BY <1>4, <1>5, <1>8, <1>9 DEF FocusInv

\* What a transaction finds, and what it closes.
LEMMA HoldFacts ==
    ASSUME FocusInv, NEW r \in FocusRequests, Stands(r, "hold")
    PROVE  /\ Found(r) \in Nat /\ focusReq[r].now \in Nat
           /\ Found(r) # 0 => Found(r) \in DOMAIN sessions /\ IsActive(sessions[Found(r)])
                              /\ sessions[Found(r)] \in Session
           /\ \A i \in ActiveIds : Found(r) # 0 => i = Found(r)
           /\ sessions \in Seq(Session) /\ Len(sessions) \in Nat /\ Len(sessions) <= MaxSessions
           /\ DOMAIN sessions = 1..Len(sessions)
<1>1. focusReq[r] \in FocusRequest
  BY DEF FocusInv, FocusTypeOK
<1>2. Found(r) # 0 => Found(r) \in ActiveIds
  BY DEF FocusInv, RowsHeld
<1> QED BY <1>1, <1>2 DEF FocusInv, FocusTypeOK, FocusRequest, Found, ActiveIds, OneActive

\* What reconcileActive leaves: the row it found expired is completed.
LEMMA ReconciledRows ==
    ASSUME FocusInv, NEW r \in FocusRequests, Stands(r, "hold")
    PROVE  /\ Reconciled(r) \in Seq(Session) /\ Len(Reconciled(r)) = Len(sessions)
           /\ \A j \in DOMAIN sessions : j # Found(r) => Reconciled(r)[j] = sessions[j]
           /\ \A i \in DOMAIN sessions : IsActive(Reconciled(r)[i]) => i \in ActiveIds /\ i \notin ToTell(r)
           /\ ToTell(r) \in SUBSET Nat
           /\ \A j \in ToTell(r) : j = Found(r) /\ j \in DOMAIN sessions /\ ~IsActive(Reconciled(r)[j])
<1>1. CASE Closes(r)
  <2>1. Found(r) \in DOMAIN sessions /\ sessions[Found(r)] \in Session
    BY <1>1, HoldFacts DEF Closes
  <2> DEFINE new == NaturallyCompleted(sessions[Found(r)])
  <2>2. new \in Session /\ ~IsActive(new)
    BY <2>1, HoldFacts, WrittenRows DEF IsActive
  <2>3. Reconciled(r) = [sessions EXCEPT ![Found(r)] = new] /\ ToTell(r) = {Found(r)}
    BY <1>1 DEF Reconciled, ToTell
  <2> HIDE DEF new
  <2>4. /\ Reconciled(r) \in Seq(Session) /\ Len(Reconciled(r)) = Len(sessions)
        /\ \A j \in DOMAIN sessions : Reconciled(r)[j] = IF j = Found(r) THEN new ELSE sessions[j]
    BY <2>1, <2>2, <2>3, SessionPut, HoldFacts
  <2> QED BY <2>1, <2>2, <2>3, <2>4, HoldFacts DEF ActiveIds
<1>2. CASE ~Closes(r)
  BY <1>2, HoldFacts DEF Reconciled, ToTell, ActiveIds
<1> QED BY <1>1, <1>2

\* A transaction that only reconciles.
LEMMA ReconcileKeeps ==
    ASSUME FocusInv, NEW r \in FocusRequests, Stands(r, "hold"), Conflict(r) \/ OnlyReconcile(r)
    PROVE  FocusInv'
<1>1. \A i, j \in DOMAIN Reconciled(r) : IsActive(Reconciled(r)[i]) /\ IsActive(Reconciled(r)[j]) => i = j
  BY ReconciledRows, HoldFacts DEF FocusInv, OneActive
<1>2. /\ Reconciled(r) \in Seq(Session)
      /\ Len(Reconciled(r)) <= MaxSessions /\ Len(sessions) <= Len(Reconciled(r))
      /\ \A j \in DOMAIN sessions : j # Found(r) => Reconciled(r)[j] = sessions[j]
      /\ ToTell(r) \in SUBSET Nat
      /\ \A j \in ToTell(r) : j = Found(r) /\ j \in DOMAIN sessions /\ ~IsActive(Reconciled(r)[j])
  BY ReconciledRows, HoldFacts
<1>3. \E conflict \in BOOLEAN : Commit(r, Reconciled(r), ToTell(r), conflict)
  BY DEF Conflict, OnlyReconcile
<1> QED BY <1>1, <1>2, <1>3, CommitKeeps

(* A start: the index refuses a second active row, and the one this request closed no  *)
(* longer counts.                                                                      *)
LEMMA StartKeeps ==
    ASSUME FocusInv, NEW r \in FocusRequests, StartSession(r)
    PROVE  FocusInv'
<1>1. Stands(r, "hold") /\ Len(sessions) < MaxSessions /\ ActiveIds \subseteq ToTell(r)
  BY DEF StartSession, Decides, OneActiveIndex
<1>2. PICK planned \in Durations :
         Commit(r, Append(Reconciled(r), StartedRow(planned, focusReq[r].now)), ToTell(r), FALSE)
  BY DEF StartSession
<1> DEFINE new == StartedRow(planned, focusReq[r].now)
           rows == Append(Reconciled(r), new)
<1>3. new \in Session
  BY <1>1, HoldFacts, StartedType
<1> HIDE DEF new
<1>4. /\ Reconciled(r) \in Seq(Session) /\ Len(Reconciled(r)) = Len(sessions)
      /\ Len(sessions) \in Nat /\ DOMAIN sessions = 1..Len(sessions)
  BY <1>1, ReconciledRows, HoldFacts
<1>5. /\ rows \in Seq(Session) /\ Len(rows) = Len(sessions) + 1 /\ DOMAIN rows = 1..(Len(sessions) + 1)
      /\ \A j \in DOMAIN sessions : rows[j] = Reconciled(r)[j]
  BY <1>3, <1>4
<1> HIDE DEF rows
<1>6. \A j \in DOMAIN sessions : ~IsActive(rows[j])
  BY <1>1, <1>5, ReconciledRows
<1>7. \A i, j \in DOMAIN rows : IsActive(rows[i]) /\ IsActive(rows[j]) => i = j
  BY <1>4, <1>5, <1>6
<1>8. Len(rows) <= MaxSessions /\ Len(sessions) <= Len(rows)
  BY <1>1, <1>4, <1>5, FocusAssumption
<1>9. \A j \in DOMAIN sessions : j # Found(r) => rows[j] = sessions[j]
  BY <1>1, <1>5, ReconciledRows
<1>10. ToTell(r) \in SUBSET Nat
       /\ \A j \in ToTell(r) : j = Found(r) /\ j \in DOMAIN sessions /\ ~IsActive(rows[j])
  BY <1>1, <1>5, ReconciledRows
<1>11. Commit(r, rows, ToTell(r), FALSE)
  BY <1>2 DEF rows, new
<1> QED BY <1>1, <1>5, <1>7, <1>8, <1>9, <1>10, <1>11, CommitKeeps

\* A start that lost: what it reconciled is rolled back.
LEMMA LostKeeps ==
    ASSUME FocusInv, NEW r \in FocusRequests, StartLost(r)
    PROVE  FocusInv'
<1>1. Stands(r, "hold") /\ Commit(r, sessions, {}, TRUE)
  BY DEF StartLost, Decides
<1>2. \A i, j \in DOMAIN sessions : IsActive(sessions[i]) /\ IsActive(sessions[j]) => i = j
  BY DEF FocusInv, OneActive, ActiveIds
<1>3. /\ sessions \in Seq(Session) /\ Len(sessions) <= MaxSessions /\ Len(sessions) <= Len(sessions)
      /\ \A j \in {} : j = Found(r) /\ j \in DOMAIN sessions /\ ~IsActive(sessions[j])
  BY <1>1, HoldFacts
<1> QED BY <1>1, <1>2, <1>3, CommitKeeps

\* A pause, a resume, a stop.
LEMMA TransitionKeeps ==
    ASSUME FocusInv, NEW r \in FocusRequests, NEW statuses, NEW new \in Session, Transition(r, statuses, new)
    PROVE  FocusInv'
<1>1. Stands(r, "hold") /\ Live(r) = Found(r) /\ Found(r) # 0
  BY DEF Transition, Decides, Live
<1>2. PICK i \in DOMAIN sessions : i = Found(r) /\ i \in Nat /\ \A j \in ActiveIds : j = i
  BY <1>1, HoldFacts
<1> DEFINE rows == [sessions EXCEPT ![i] = new]
           tell == IF IsActive(new) THEN {} ELSE {i}
<1>3. /\ rows \in Seq(Session) /\ Len(rows) = Len(sessions) /\ DOMAIN rows = DOMAIN sessions
      /\ \A j \in DOMAIN sessions : rows[j] = IF j = i THEN new ELSE sessions[j]
  BY <1>1, HoldFacts, SessionPut
<1>4. Commit(r, rows, tell, FALSE)
  BY <1>1, <1>2 DEF Transition
<1> HIDE DEF rows
<1>5. \A j, k \in DOMAIN rows : IsActive(rows[j]) /\ IsActive(rows[k]) => j = k
  BY <1>2, <1>3 DEF ActiveIds
<1>6. tell \in SUBSET Nat /\ \A j \in tell : j = Found(r) /\ j \in DOMAIN sessions /\ ~IsActive(rows[j])
  BY <1>2, <1>3
<1> HIDE DEF tell
<1>7. /\ Len(rows) <= MaxSessions /\ Len(sessions) <= Len(rows)
      /\ \A j \in DOMAIN sessions : j # Found(r) => rows[j] = sessions[j]
  BY <1>1, <1>2, <1>3, HoldFacts
<1> QED BY <1>1, <1>3, <1>4, <1>5, <1>6, <1>7, CommitKeeps

\* What was to be told is told.
LEMMA PublishKeeps ==
    ASSUME FocusInv, NEW r \in FocusRequests, Publish(r)
    PROVE  FocusInv'
<1> DEFINE new == Rest(r, {}, focusReq[r].conflict)
<1>1. focusReq[r].conflict \in BOOLEAN /\ focusReq[r].tell \subseteq 1..MaxSessions
  BY DEF FocusInv, FocusTypeOK, FocusRequest, TellsOnce
<1>2. new \in FocusRequest /\ new.pc \in {"idle", "again", "committed"} /\ new.tell = {}
  BY <1>1, RestType DEF FocusInv
<1>3. /\ focusReq' = [focusReq EXCEPT ![r] = new] /\ UNCHANGED <<second, sessions>>
      /\ told' = [i \in 1..MaxSessions |-> IF i \in focusReq[r].tell THEN told[i] + 1 ELSE told[i]]
  BY DEF Publish, FocusInv, FocusTypeOK
<1> HIDE DEF new
<1>4. \A s \in FocusRequests : focusReq'[s] = IF s = r THEN new ELSE focusReq[s]
  BY <1>3 DEF FocusInv, FocusTypeOK
<1>5. FocusTypeOK'
  BY <1>2, <1>3 DEF FocusInv, FocusTypeOK
<1>6. OneActive' /\ RowsHeld'
  BY <1>2, <1>3, <1>4 DEF FocusInv, OneActive, RowsHeld, ActiveIds, Stands, Found
<1>7. TellsOnce'
  <2>1. \A i \in 1..MaxSessions : told'[i] = IF i \in focusReq[r].tell THEN 1 ELSE told[i]
    BY <1>3 DEF FocusInv, TellsOnce
  <2>2. \A i : Ended(i)' = Ended(i)
    BY <1>3 DEF Ended
  <2>3. \A s \in FocusRequests : s # r => focusReq[s].tell \cap focusReq[r].tell = {}
    BY DEF FocusInv, TellsOnce
  <2> QED BY <1>1, <1>2, <1>4, <2>1, <2>2, <2>3 DEF FocusInv, TellsOnce, Stands
<1> QED BY <1>5, <1>6, <1>7 DEF FocusInv

\* Every step of the timer keeps the invariant.
LEMMA FocusInvKept == FocusInv /\ [FocusNext]_focusVars => FocusInv'
<1> SUFFICES ASSUME FocusInv, [FocusNext]_focusVars PROVE FocusInv'
  OBVIOUS
<1>1. ASSUME NEW r \in FocusRequests, SyncState(r) \/ Refuse(r) PROVE FocusInv'
  BY <1>1, ReconcileKeeps DEF SyncState, Refuse, Decides
<1>2. ASSUME NEW r \in FocusRequests, PauseSession(r) \/ ResumeSession(r) \/ StopSession(r)
      PROVE  FocusInv'
  <2>1. Stands(r, "hold") /\ Live(r) = Found(r) /\ Found(r) # 0
    BY <1>2 DEF PauseSession, ResumeSession, StopSession, Transition, Decides, Live
  <2>2. sessions[Live(r)] \in Session /\ focusReq[r].now \in Nat
    BY <2>1, HoldFacts
  <2> QED BY <1>2, <2>2, WrittenRows, TransitionKeeps DEF PauseSession, ResumeSession, StopSession
<1>3. CASE Tick
  BY <1>3 DEF Tick, FocusInv, FocusTypeOK, OneActive, RowsHeld, TellsOnce, ActiveIds, Stands, Found, Ended
<1>4. CASE UNCHANGED focusVars
  BY <1>4 DEF focusVars, FocusInv, FocusTypeOK, OneActive, RowsHeld, TellsOnce, ActiveIds, Stands, Found, Ended
<1> QED BY <1>1, <1>2, <1>3, <1>4, LookingKeeps, StartKeeps, LostKeeps, PublishKeeps DEF FocusNext, FocusStep

(* However many tabs start, pause, stop and let the timer run out at once, one session *)
(* is active and each ended one is announced once, after the commit that ended it.      *)
THEOREM FocusEndsOnce == FocusSpec => []SessionsEndOnce
<1>1. FocusInit => FocusInv
  <2> SUFFICES ASSUME FocusInit PROVE FocusInv
    OBVIOUS
  <2>1. FocusTypeOK
    BY IdleType, FocusAssumption DEF FocusInit, FocusTypeOK
  <2> QED BY <2>1, IdleType DEF FocusInit, FocusInv, OneActive, RowsHeld, TellsOnce, ActiveIds, Stands, Found, Ended
<1>2. FocusInv => SessionsEndOnce
  <2> SUFFICES ASSUME FocusInv PROVE SessionsEndOnce
    OBVIOUS
  <2>1. OneActiveSession
    <3>1. CASE ActiveIds = {}
      BY <3>1, FS_EmptySet DEF OneActiveSession
    <3>2. CASE ActiveIds # {}
      <4>1. PICK i : ActiveIds = {i}
        BY <3>2 DEF FocusInv, OneActive
      <4> QED BY <4>1, FS_Singleton DEF OneActiveSession
    <3> QED BY <3>1, <3>2
  <2>2. ToldOnce
    BY DEF ToldOnce, FocusInv, TellsOnce, FocusTypeOK, Ended
  <2> QED BY <2>1, <2>2 DEF SessionsEndOnce
<1> QED BY <1>1, <1>2, FocusInvKept, PTL DEF FocusSpec

-----------------------------------------------------------------------------
(***************************************************************************)
(* Accounts.                                                               *)
(***************************************************************************)
UserRow ==
    [name : LoginNames, hash : Passwords \cup {"pending"}, role : {"admin", "user"}, active : BOOLEAN]

Booting ==
    [pc : {"idle", "activate", "placeholder", "rename", "admins", "create"}, name : LoginNames \cup {"none"},
     password : Passwords \cup {"none"}, id : Owners]

Placeholders == {u \in DOMAIN users : isPendingBootstrapHash(users[u].hash)}

AccountsTypeOK ==
    /\ users = [u \in DOMAIN users |-> users[u]] /\ DOMAIN users \subseteq Owners
    /\ \A u \in DOMAIN users : users[u] \in UserRow
    /\ boot \in [Bootstraps -> Booting]
    /\ \A b \in Bootstraps : boot[b].pc # "idle" => boot[b].password \in Passwords /\ boot[b].name \in LoginNames

(* The placeholder of the migration is the only one, and while it waits for its        *)
(* password there is no admin; the process that bootstraps stands at a placeholder,     *)
(* or past the point where it found that there is none, or no admin.                    *)
BootstrapPoints ==
    /\ Placeholders \subseteq {Seed}
    /\ Placeholders # {} => ActiveAdmins(users) = {}
    /\ \A b \in Bootstraps :
          /\ boot[b].pc \in {"activate", "rename"} => boot[b].id \in Placeholders
          /\ boot[b].pc \in {"admins", "create"} => Placeholders = {}
          /\ boot[b].pc = "create" => ActiveAdmins(users) = {}

AccountsInv == AccountsTypeOK /\ BootstrapPoints

AccountWrites ==
    /\ \A u \in DOMAIN users : ~isPendingBootstrapHash(users[u].hash) => users'[u] = users[u]
    /\ ActiveAdmins(users) # {} => ActiveAdmins(users') = ActiveAdmins(users)

\* Bootstraps do not overlap: the server starts, or the command line runs, not both.
OneBootstrap == \A b, c \in Bootstraps : b = c

\* The hash of a password is no placeholder.
LEMMA RealHash == \A password \in Passwords : ~isPendingBootstrapHash(password) /\ password # "none"
BY AccountAssumption DEF isPendingBootstrapHash

\* A request of the bootstrap that has nothing to do.
LEMMA NotBootingType == NotBooting \in Booting /\ NotBooting.pc = "idle"
BY AccountAssumption DEF NotBooting, Booting

(* A placeholder gets its first password, and maybe another name: it was the only one,  *)
(* so it may be the first admin.                                                       *)
LEMMA FirstPassword ==
    ASSUME AccountsInv, OneBootstrap, NEW b \in Bootstraps, NEW id \in Placeholders,
           NEW new \in UserRow, ~isPendingBootstrapHash(new.hash),
           users' = [users EXCEPT ![id] = new], boot' = [boot EXCEPT ![b] = NotBooting]
    PROVE  AccountsInv' /\ AccountWrites
<1>1. id \in DOMAIN users /\ isPendingBootstrapHash(users[id].hash) /\ id = Seed
      /\ Placeholders = {Seed} /\ ActiveAdmins(users) = {}
  BY DEF Placeholders, AccountsInv, BootstrapPoints
<1>2. DOMAIN users' = DOMAIN users /\ \A u \in DOMAIN users : users'[u] = IF u = id THEN new ELSE users[u]
  BY <1>1
<1>3. Placeholders' = {}
  BY <1>1, <1>2 DEF Placeholders
<1>4. \A c \in Bootstraps : boot'[c] = NotBooting
  BY DEF AccountsInv, AccountsTypeOK, OneBootstrap
<1>5. AccountsTypeOK'
  BY <1>2, <1>4, NotBootingType DEF AccountsInv, AccountsTypeOK
<1>6. BootstrapPoints'
  BY <1>3, <1>4, NotBootingType DEF BootstrapPoints
<1>7. AccountWrites
  BY <1>1, <1>2 DEF AccountWrites
<1> QED BY <1>5, <1>6, <1>7 DEF AccountsInv

\* A row is inserted: no placeholder, and an admin only where there is none.
LEMMA RowInserted ==
    ASSUME AccountsInv, NEW id \in Owners \ DOMAIN users, NEW new \in UserRow,
           ~isPendingBootstrapHash(new.hash), Inserted(id, new)
    PROVE  /\ users' = [u \in DOMAIN users' |-> users'[u]] /\ DOMAIN users' \subseteq Owners
           /\ \A u \in DOMAIN users' : users'[u] \in UserRow
           /\ \A u \in DOMAIN users : u \in DOMAIN users' /\ users'[u] = users[u]
           /\ Placeholders' = Placeholders
           /\ new.role # "admin" => ActiveAdmins(users') = ActiveAdmins(users)
<1>1. CASE users' = users
  BY <1>1 DEF AccountsInv, AccountsTypeOK, Placeholders
<1>2. CASE users' = [u \in DOMAIN users \cup {id} |-> IF u = id THEN new ELSE users[u]]
  <2>1. /\ DOMAIN users' = DOMAIN users \cup {id} /\ users'[id] = new
        /\ \A u \in DOMAIN users : users'[u] = users[u]
    BY <1>2
  <2>2. users' = [u \in DOMAIN users' |-> users'[u]]
    BY <1>2, <2>1
  <2>3. Placeholders' = Placeholders
    BY <2>1 DEF Placeholders
  <2>4. new.role # "admin" => ActiveAdmins(users') = ActiveAdmins(users)
    BY <2>1 DEF ActiveAdmins
  <2> QED BY <2>1, <2>2, <2>3, <2>4 DEF AccountsInv, AccountsTypeOK
<1> QED BY <1>1, <1>2 DEF Inserted

\* The bootstrap goes on to its next query and writes nothing.
LEMMA BootstrapGoes ==
    ASSUME AccountsInv, NEW b \in Bootstraps, NEW new \in Booting, UNCHANGED users,
           new.pc # "idle" => new.password \in Passwords /\ new.name \in LoginNames,
           new.pc \in {"activate", "rename"} => new.id \in Placeholders,
           new.pc \in {"admins", "create"} => Placeholders = {},
           new.pc = "create" => ActiveAdmins(users) = {},
           boot' = [boot EXCEPT ![b] = new]
    PROVE  AccountsInv' /\ AccountWrites
<1>1. boot' \in [Bootstraps -> Booting] /\ \A c \in Bootstraps : boot'[c] = IF c = b THEN new ELSE boot[c]
  BY DEF AccountsInv, AccountsTypeOK
<1>2. Placeholders' = Placeholders /\ ActiveAdmins(users') = ActiveAdmins(users)
  BY DEF Placeholders
<1> QED BY <1>1, <1>2 DEF AccountsInv, AccountsTypeOK, BootstrapPoints, AccountWrites

(* The bootstrap reads accounts and writes at most one: a placeholder it activates or   *)
(* renames, or the first admin; it may stop between two queries.                        *)
LEMMA BootstrapKeeps ==
    ASSUME AccountsInv, OneBootstrap, NEW b \in Bootstraps,
           \/ FindAccount(b) \/ ActivateAccount(b) \/ FindPlaceholder(b) \/ RenamePlaceholder(b)
           \/ FindActiveAdmin(b) \/ CreateAdmin(b) \/ BootstrapDies(b)
    PROVE  AccountsInv' /\ AccountWrites
<1>1. boot[b] \in Booting /\ (boot[b].pc # "idle" => boot[b].password \in Passwords /\ boot[b].name \in LoginNames)
  BY DEF AccountsInv, AccountsTypeOK
<1>2. CASE FindAccount(b)
  <2>1. PICK name \in LoginNames, password \in Passwords \cup {"none"} :
          LET existing == {u \in DOMAIN users : users[u].name = name}
              to == [NotBooting EXCEPT !.name = name, !.password = password]
          IN  /\ password # "none" /\ UNCHANGED users
              /\ \A u \in existing : isPendingBootstrapHash(users[u].hash)
              /\ boot' = [boot EXCEPT ![b] = IF existing = {} THEN [to EXCEPT !.pc = "placeholder"]
                                ELSE [to EXCEPT !.pc = "activate", !.id = CHOOSE u \in existing : TRUE]]
    BY <1>2 DEF FindAccount, MayActivate
  <2> DEFINE existing == {u \in DOMAIN users : users[u].name = name}
             to == [NotBooting EXCEPT !.name = name, !.password = password]
             new == IF existing = {} THEN [to EXCEPT !.pc = "placeholder"]
                    ELSE [to EXCEPT !.pc = "activate", !.id = CHOOSE u \in existing : TRUE]
  <2>2. existing # {} => (CHOOSE u \in existing : TRUE) \in Placeholders
    BY <2>1 DEF Placeholders
  <2>3. Placeholders \subseteq Owners
    BY DEF Placeholders, AccountsInv, AccountsTypeOK
  <2>4. /\ new \in Booting /\ new.pc \in {"placeholder", "activate"} /\ new.password \in Passwords
        /\ new.name \in LoginNames /\ (new.pc = "activate" => new.id \in Placeholders)
    BY <2>1, <2>2, <2>3, AccountAssumption DEF NotBooting, Booting
  <2>5. boot' = [boot EXCEPT ![b] = new] /\ UNCHANGED users
    BY <2>1
  <2> HIDE DEF new
  <2> QED BY <2>4, <2>5, BootstrapGoes
<1>3. CASE ActivateAccount(b)
  <2>1. boot[b].id \in Placeholders /\ boot[b].password \in Passwords
    BY <1>1, <1>3 DEF ActivateAccount, AccountsInv, BootstrapPoints
  <2> DEFINE id == boot[b].id
             new == [users[id] EXCEPT !.hash = boot[b].password]
  <2>2. id \in DOMAIN users /\ users[id] \in UserRow
    BY <2>1 DEF Placeholders, AccountsInv, AccountsTypeOK
  <2>3. new \in UserRow /\ ~isPendingBootstrapHash(new.hash)
    BY <2>1, <2>2, RealHash DEF UserRow
  <2>4. users' = [users EXCEPT ![id] = new] /\ boot' = [boot EXCEPT ![b] = NotBooting]
    BY <1>3, <2>2 DEF ActivateAccount
  <2> HIDE DEF new, id
  <2>5. id \in Placeholders
    BY <2>1 DEF id
  <2> QED BY <2>3, <2>4, <2>5, FirstPassword
<1>4. CASE FindPlaceholder(b)
  <2> DEFINE new == IF Placeholders = {} THEN [boot[b] EXCEPT !.pc = "admins"]
                    ELSE [boot[b] EXCEPT !.pc = "rename", !.id = CHOOSE u \in Placeholders : TRUE]
  <2>1. boot' = [boot EXCEPT ![b] = new] /\ UNCHANGED users /\ boot[b].pc = "placeholder"
    BY <1>4 DEF FindPlaceholder, Placeholders, AccountsInv, AccountsTypeOK
  <2>2. Placeholders # {} => (CHOOSE u \in Placeholders : TRUE) \in Placeholders
    OBVIOUS
  <2>3. Placeholders \subseteq Owners
    BY DEF Placeholders, AccountsInv, AccountsTypeOK
  <2>4. /\ new \in Booting /\ new.pc \in {"admins", "rename"} /\ new.password \in Passwords
        /\ new.name \in LoginNames /\ (new.pc = "rename" => new.id \in Placeholders)
        /\ (new.pc = "admins" => Placeholders = {})
    BY <1>1, <2>1, <2>2, <2>3 DEF Booting
  <2> HIDE DEF new
  <2> QED BY <2>1, <2>4, BootstrapGoes
<1>5. CASE RenamePlaceholder(b)
  <2> DEFINE id == boot[b].id
             new == [users[id] EXCEPT !.name = boot[b].name, !.hash = boot[b].password]
  <2>1. id \in Placeholders /\ boot[b].password \in Passwords /\ boot[b].name \in LoginNames
    BY <1>1, <1>5 DEF RenamePlaceholder, AccountsInv, BootstrapPoints
  <2>2. id \in DOMAIN users /\ users[id] \in UserRow
    BY <2>1 DEF Placeholders, AccountsInv, AccountsTypeOK
  <2>3. new \in UserRow /\ ~isPendingBootstrapHash(new.hash)
    BY <2>1, <2>2, RealHash DEF UserRow
  <2>4. boot' = [boot EXCEPT ![b] = NotBooting] /\ (users' = users \/ users' = [users EXCEPT ![id] = new])
    BY <1>5, <2>2 DEF RenamePlaceholder
  <2>5. CASE users' = users
    BY <2>4, <2>5, NotBootingType, BootstrapGoes
  <2> HIDE DEF new, id
  <2>6. id \in Placeholders
    BY <2>1 DEF id
  <2> QED BY <2>3, <2>4, <2>5, <2>6, FirstPassword
<1>6. CASE FindActiveAdmin(b)
  <2> DEFINE new == IF ActiveAdmins(users) = {} THEN [boot[b] EXCEPT !.pc = "create"] ELSE NotBooting
  <2>1. boot' = [boot EXCEPT ![b] = new] /\ UNCHANGED users /\ boot[b].pc = "admins"
    BY <1>6 DEF FindActiveAdmin, AccountsInv, AccountsTypeOK
  <2>2. Placeholders = {}
    BY <2>1 DEF AccountsInv, BootstrapPoints
  <2>3. /\ new \in Booting /\ new.pc \in {"create", "idle"} /\ (new.pc = "create" => ActiveAdmins(users) = {})
        /\ (new.pc # "idle" => new.password \in Passwords /\ new.name \in LoginNames)
    BY <1>1, <2>1, NotBootingType DEF Booting
  <2> HIDE DEF new
  <2> QED BY <2>1, <2>2, <2>3, BootstrapGoes
<1>7. CASE CreateAdmin(b)
  <2> DEFINE new == User(boot[b].name, boot[b].password, "admin")
  <2>1. /\ boot[b].pc = "create" /\ Placeholders = {} /\ ActiveAdmins(users) = {}
        /\ boot[b].password \in Passwords /\ boot[b].name \in LoginNames
    BY <1>1, <1>7 DEF CreateAdmin, AccountsInv, BootstrapPoints
  <2>2. PICK id \in Owners \ DOMAIN users : Inserted(id, new)
    BY <1>7 DEF CreateAdmin
  <2>3. boot' = [boot EXCEPT ![b] = NotBooting]
    BY <1>7 DEF CreateAdmin
  <2>4. new \in UserRow /\ ~isPendingBootstrapHash(new.hash)
    BY <2>1, RealHash DEF User, UserRow
  <2> HIDE DEF new
  <2>5. /\ users' = [u \in DOMAIN users' |-> users'[u]] /\ DOMAIN users' \subseteq Owners
        /\ \A u \in DOMAIN users' : users'[u] \in UserRow
        /\ \A u \in DOMAIN users : u \in DOMAIN users' /\ users'[u] = users[u]
        /\ Placeholders' = Placeholders
    BY <2>2, <2>4, RowInserted
  <2>6. boot' \in [Bootstraps -> Booting] /\ \A c \in Bootstraps : boot'[c] = NotBooting
    BY <2>3, NotBootingType DEF AccountsInv, AccountsTypeOK, OneBootstrap
  <2>7. AccountsTypeOK'
    BY <2>5, <2>6, NotBootingType DEF AccountsTypeOK
  <2>8. BootstrapPoints'
    BY <2>1, <2>5, <2>6, NotBootingType DEF BootstrapPoints
  <2>9. AccountWrites
    BY <2>1, <2>5 DEF AccountWrites
  <2> QED BY <2>7, <2>8, <2>9 DEF AccountsInv
<1>8. CASE BootstrapDies(b)
  BY <1>8, NotBootingType, BootstrapGoes DEF BootstrapDies
<1> QED BY <1>2, <1>3, <1>4, <1>5, <1>6, <1>7, <1>8

\* An admin creates a member: no placeholder and no admin.
LEMMA CreateUserKeeps == ASSUME AccountsInv, createUser PROVE AccountsInv' /\ AccountWrites
<1>1. PICK id \in Owners \ DOMAIN users, name \in LoginNames, password \in Passwords :
        Inserted(id, User(name, password, "user")) /\ UNCHANGED boot
  BY DEF createUser
<1> DEFINE new == User(name, password, "user")
<1>2. new \in UserRow /\ ~isPendingBootstrapHash(new.hash) /\ new.role # "admin"
  BY RealHash DEF User, UserRow
<1>3. Inserted(id, new) /\ UNCHANGED boot
  BY <1>1
<1> HIDE DEF new
<1>4. /\ users' = [u \in DOMAIN users' |-> users'[u]] /\ DOMAIN users' \subseteq Owners
      /\ \A u \in DOMAIN users' : users'[u] \in UserRow
      /\ \A u \in DOMAIN users : u \in DOMAIN users' /\ users'[u] = users[u]
      /\ Placeholders' = Placeholders /\ ActiveAdmins(users') = ActiveAdmins(users)
  BY <1>2, <1>3, RowInserted
<1> QED BY <1>3, <1>4 DEF AccountsInv, AccountsTypeOK, BootstrapPoints, AccountWrites

\* Every step of the accounts keeps the invariant and writes as promised.
LEMMA AccountsInvKept ==
    ASSUME OneBootstrap, AccountsInv, [AccountsNext]_accountVars
    PROVE  AccountsInv' /\ [AccountWrites]_accountVars
<1>1. CASE UNCHANGED <<users, boot>>
  BY <1>1 DEF AccountsInv, AccountsTypeOK, BootstrapPoints, Placeholders, AccountWrites
<1>2. ASSUME NEW l \in Logins, ReadCredentials(l) \/ VerifyPassword(l) \/ InsertSession(l)
      PROVE  UNCHANGED <<users, boot>>
  BY <1>2 DEF ReadCredentials, VerifyPassword, InsertSession
<1>3. CASE logout \/ SessionExpires \/ purgeExpiredSessions \/ UNCHANGED accountVars
  BY <1>1, <1>3 DEF logout, SessionExpires, purgeExpiredSessions, accountVars
<1> QED BY <1>1, <1>2, <1>3, BootstrapKeeps, CreateUserKeeps DEF AccountsNext

(* For any number of accounts, names and passwords, through restarts with another       *)
(* name or password and stops between two queries: an account with a real hash is never *)
(* written by the bootstrap, and it creates an admin only where there is none; for      *)
(* bootstraps that do not overlap.                                                      *)
THEOREM BootstrapWritesOnce == ASSUME OneBootstrap PROVE AccountsSpec => BootstrapOnce
<1>1. AccountsInit => AccountsInv
  <2> SUFFICES ASSUME AccountsInit PROVE AccountsInv
    OBVIOUS
  <2>1. PICK ids \in SUBSET {Seed} : users = [u \in ids |-> User("admin", "pending", "admin")]
    BY DEF AccountsInit
  <2>2. ActiveAdmins(users) = {} /\ Placeholders \subseteq {Seed}
    BY <2>1 DEF ActiveAdmins, Placeholders, User, isPendingBootstrapHash
  <2>3. boot \in [Bootstraps -> Booting] /\ \A b \in Bootstraps : boot[b].pc = "idle"
    BY NotBootingType DEF AccountsInit
  <2>4. AccountsTypeOK
    BY <2>1, <2>3, AccountAssumption DEF AccountsTypeOK, UserRow, User
  <2> QED BY <2>2, <2>3, <2>4 DEF AccountsInv, BootstrapPoints
<1>2. AccountsInv /\ [AccountsNext]_accountVars => AccountsInv' /\ [AccountWrites]_accountVars
  BY AccountsInvKept
<1> QED BY <1>1, <1>2, PTL DEF AccountsSpec, BootstrapOnce, AccountWrites

-----------------------------------------------------------------------------
(***************************************************************************)
(* The files of continuous sync.                                           *)
(***************************************************************************)
AttachmentRow == [key : Nat, content : Contents \cup {NoContent}]
SyncPoints == {"rest", "materialize", "choose", "stage", "commit", "remove", "retire", "remember", "put",
               "publish", "finish", "retain", "prune", "unlink"}
SyncRequest == [pc : SyncPoints, seen : AttachmentRow, content : Contents \cup {NoContent}, new : Nat, old : Nat,
                settles : BOOLEAN, keys : SUBSET Nat, objects : SUBSET (Contents \cup {NoContent})]
SyncRefs == [head : SUBSET Contents, pending : SUBSET (Contents \cup {NoContent}), disputed : SUBSET Contents,
             unknown : BOOLEAN]

FilesTypeOK ==
    /\ placed \in AttachmentRow /\ clouds \in Contents \cup {NoContent} /\ cache \subseteq Contents \cup {NoContent}
    /\ refs \in SyncRefs /\ lastKey \in Nat /\ overran \in BOOLEAN
    /\ stored \subseteq Nat /\ \A k \in stored : 1 <= k /\ k <= lastKey
    /\ placed.key <= lastKey
    /\ holder \in [by : SyncRequests \cup {NoRequest}, live : BOOLEAN]
    /\ syncReq \in [SyncRequests -> SyncRequest]

\* A key that is staged is no row's, and no request is about to retire or discard it too.
StagedApart ==
    /\ \A r \in SyncRequests : syncReq[r].pc = "commit" =>
          /\ syncReq[r].new # placed.key /\ 1 <= syncReq[r].new /\ syncReq[r].new <= lastKey
          /\ \A q \in SyncRequests : syncReq[q].pc = "retire" => syncReq[q].old # syncReq[r].new
          /\ \A q \in SyncRequests : syncReq[q].pc = "commit" /\ q # r => syncReq[q].new # syncReq[r].new
    /\ \A r \in SyncRequests :
          /\ syncReq[r].pc \in {"materialize", "remove"} => syncReq[r].new = 0 /\ syncReq[r].content = NoContent
          /\ syncReq[r].pc = "retire" => syncReq[r].old <= lastKey
          /\ syncReq[r].pc = "unlink" => \A k \in syncReq[r].keys : k <= lastKey

\* What a request counts on for as long as it has the lease: nobody else commits or prunes.
Holding(req) ==
    /\ req.pc = "commit" => req.new \in stored
    /\ req.pc \in {"stage", "commit", "retire", "remember"} => req.content = NoContent \/ req.content \in cache
    /\ req.pc = "prune" => /\ placed = NoRow \/ placed.key \in req.keys \cup uploaded
                           /\ refs.disputed \subseteq req.objects
    /\ req.pc = "unlink" => /\ placed = NoRow \/ placed.key \notin req.keys
                            /\ refs.disputed \cap req.objects = {}

FilesKept ==
    /\ placed = NoRow \/ placed.key \in stored
    /\ refs.disputed \subseteq cache
    /\ \A r \in SyncRequests : HasLease(r) => Holding(syncReq[r])

FilesInv == FilesTypeOK /\ StagedApart /\ (overran \/ FilesKept)

\* The resting request and the missing row are typed.
LEMMA RestTypes == NoRow \in AttachmentRow /\ NoRow.key = 0 /\ SyncRest \in SyncRequest /\ SyncRest.pc = "rest"
BY DEF NoRow, SyncRest, AttachmentRow, SyncRequest, SyncPoints

\* One request moves, the others stay.
LEMMA OneMoves ==
    ASSUME FilesTypeOK, NEW r \in SyncRequests, NEW new \in SyncRequest, syncReq' = [syncReq EXCEPT ![r] = new]
    PROVE  /\ syncReq' \in [SyncRequests -> SyncRequest]
           /\ \A q \in SyncRequests : syncReq'[q] = IF q = r THEN new ELSE syncReq[q]
BY DEF FilesTypeOK

(* A request moves on and changes nothing but the cache, which grows, and what the      *)
(* binding remembers of heads; the lease it may give back or, at rest, take.            *)
LEMMA RequestMoves ==
    ASSUME FilesInv, ~overran, NEW r \in SyncRequests, NEW new \in SyncRequest,
           syncReq' = [syncReq EXCEPT ![r] = new],
           UNCHANGED <<placed, stored, uploaded, lastKey>>,
           cache \subseteq cache', cache' \subseteq Contents \cup {NoContent},
           refs' \in SyncRefs, refs'.disputed = refs.disputed,
           clouds' \in Contents \cup {NoContent}, overran' \in BOOLEAN,
           holder' \in [by : SyncRequests \cup {NoRequest}, live : BOOLEAN],
           \A q \in SyncRequests : q # r /\ holder'.by = q => holder.by = q,
           new.pc # "commit", new.pc # "retire",
           new.pc \in {"materialize", "remove"} => new.new = 0 /\ new.content = NoContent,
           new.pc = "unlink" => \A k \in new.keys : k <= lastKey,
           overran' \/ (holder'.by = r => Holding(new)')
    PROVE  FilesInv'
<1>1. /\ syncReq' \in [SyncRequests -> SyncRequest]
      /\ \A q \in SyncRequests : syncReq'[q] = IF q = r THEN new ELSE syncReq[q]
  BY OneMoves DEF FilesInv
<1>2. FilesTypeOK'
  BY <1>1 DEF FilesInv, FilesTypeOK
<1>3. StagedApart'
  BY <1>1 DEF FilesInv, StagedApart
<1>4. overran' \/ FilesKept'
  <2> SUFFICES ASSUME ~overran' PROVE FilesKept'
    OBVIOUS
  <2>1. \A q \in SyncRequests : HasLease(q)' => Holding(syncReq[q])'
    <3> SUFFICES ASSUME NEW q \in SyncRequests, HasLease(q)' PROVE Holding(syncReq[q])'
      OBVIOUS
    <3>1. CASE q = r
      BY <1>1, <3>1 DEF HasLease, Holding
    <3>2. CASE q # r
      BY <1>1, <3>2 DEF HasLease, Holding, FilesInv, FilesKept
    <3> QED BY <3>1, <3>2
  <2> QED BY <2>1 DEF FilesInv, FilesKept
<1> QED BY <1>2, <1>3, <1>4 DEF FilesInv

\* A request at a point, with or without the content it is about.
AtWith(pc, content) == [SyncRest EXCEPT !.pc = pc, !.content = content]

LEMMA Resting ==
    \A pc \in SyncPoints, content \in Contents \cup {NoContent} :
       /\ AtWith(pc, content) \in SyncRequest /\ AtWith(pc, content).pc = pc
       /\ AtWith(pc, content).content = content /\ AtWith(pc, content).new = 0
<1> SUFFICES ASSUME NEW pc \in SyncPoints, NEW content \in Contents \cup {NoContent}
             PROVE  LET new == AtWith(pc, content)
                    IN  new \in SyncRequest /\ new.pc = pc /\ new.content = content /\ new.new = 0
  OBVIOUS
<1> DEFINE at == [SyncRest EXCEPT !.pc = pc]
           new == [at EXCEPT !.content = content]
<1>1. at \in SyncRequest /\ at.pc = pc /\ at.new = 0
  BY RestTypes DEF SyncRest, SyncRequest
<1>2. AtWith(pc, content) = new
  BY DEF AtWith
<1> HIDE DEF at
<1>3. new \in SyncRequest /\ new.pc = pc /\ new.content = content /\ new.new = 0
  BY <1>1 DEF SyncRequest
<1> QED BY <1>2, <1>3

LEMMA RestingAt ==
    \A pc \in SyncPoints : \E new \in SyncRequest :
         /\ new = [SyncRest EXCEPT !.pc = pc]
         /\ new.pc = pc /\ new.content = NoContent /\ new.new = 0
<1> SUFFICES ASSUME NEW pc \in SyncPoints
             PROVE  LET new == [SyncRest EXCEPT !.pc = pc]
                    IN  new \in SyncRequest /\ new.pc = pc /\ new.content = NoContent /\ new.new = 0
  OBVIOUS
<1> QED BY RestTypes DEF SyncRest, SyncRequest

\* Beside the lease's holder nobody has it, also after it was given back.
LEMMA LeaseGoesBack ==
    ASSUME FilesTypeOK, NEW r \in SyncRequests, LeaseBack(r)
    PROVE  /\ holder' \in [by : SyncRequests \cup {NoRequest}, live : BOOLEAN]
           /\ holder'.by # r /\ \A q \in SyncRequests : holder'.by = q => holder.by = q
BY SyncFilesAssumption DEF FilesTypeOK, LeaseBack, HasLease, Nobody

\* A request that leaves: it rests and has no lease.
LEMMA LeavesKeep ==
    ASSUME FilesInv, ~overran, NEW r \in SyncRequests, Leave(r),
           UNCHANGED <<placed, stored, uploaded, cache, lastKey, overran>>,
           refs' \in SyncRefs, refs'.disputed = refs.disputed, clouds' \in Contents \cup {NoContent}
    PROVE  FilesInv'
<1>1. syncReq' = [syncReq EXCEPT ![r] = SyncRest] /\ LeaseBack(r)
  BY DEF Leave
<1>2. /\ holder' \in [by : SyncRequests \cup {NoRequest}, live : BOOLEAN]
      /\ holder'.by # r /\ \A q \in SyncRequests : holder'.by = q => holder.by = q
  BY <1>1, LeaseGoesBack DEF FilesInv
<1>3. PICK new \in SyncRequest : new = SyncRest
  BY RestTypes
<1>4. /\ new.pc # "commit" /\ new.pc # "retire" /\ new.pc # "unlink"
      /\ new.pc \notin {"materialize", "remove"} /\ syncReq' = [syncReq EXCEPT ![r] = new]
      /\ UNCHANGED <<placed, stored, uploaded, lastKey>>
      /\ \A q \in SyncRequests : q # r /\ holder'.by = q => holder.by = q
      /\ cache \subseteq cache' /\ cache' \subseteq Contents \cup {NoContent} /\ overran' \in BOOLEAN
  BY <1>1, <1>2, <1>3, RestTypes DEF FilesInv, FilesTypeOK
<1>5. overran' \/ (holder'.by = r => Holding(new)')
  BY <1>2
<1> QED BY <1>2, <1>4, <1>5, RequestMoves

\* A request that reads: it keeps its lease, and what it knows fits what there is.
LEMMA ReadsKeep ==
    ASSUME FilesInv, ~overran, NEW r \in SyncRequests, NEW new \in SyncRequest,
           syncReq' = [syncReq EXCEPT ![r] = new],
           UNCHANGED <<placed, stored, uploaded, lastKey, refs, clouds, holder>>,
           cache \subseteq cache', cache' \subseteq Contents \cup {NoContent},
           overran' \in BOOLEAN,
           new.pc # "commit", new.pc # "retire",
           new.pc \in {"materialize", "remove"} => new.new = 0 /\ new.content = NoContent,
           new.pc = "unlink" => \A k \in new.keys : k <= lastKey,
           overran' \/ (HasLease(r) => Holding(new)')
    PROVE  FilesInv'
<1>1. /\ refs' \in SyncRefs /\ refs'.disputed = refs.disputed /\ clouds' \in Contents \cup {NoContent}
      /\ holder' \in [by : SyncRequests \cup {NoRequest}, live : BOOLEAN]
      /\ \A q \in SyncRequests : q # r /\ holder'.by = q => holder.by = q
  BY DEF FilesInv, FilesTypeOK
<1>2. overran' \/ (holder'.by = r => Holding(new)')
  BY DEF HasLease
<1> QED BY <1>1, <1>2, RequestMoves

\* A cycle or a choice begins: it takes a lease that is over.
LEMMA BeginKeeps == ASSUME FilesInv, ~overran, NEW r \in SyncRequests, BeginRequest(r) PROVE FilesInv'
<1>1. PICK next \in {"materialize", "choose"} : Proceed(r, next)
  BY DEF BeginRequest
<1>2. PICK new \in SyncRequest :
        new = [SyncRest EXCEPT !.pc = next] /\ new.pc = next /\ new.new = 0 /\ new.content = NoContent
  BY RestingAt DEF SyncPoints
<1>3. syncReq' = [syncReq EXCEPT ![r] = new] /\ new.pc \in {"materialize", "choose"}
  BY <1>1, <1>2 DEF Proceed
<1>4. UNCHANGED <<placed, stored, uploaded, cache, refs, clouds, lastKey, overran>> /\ holder' = [by |-> r, live |-> TRUE]
  BY DEF BeginRequest
<1>5. /\ holder' \in [by : SyncRequests \cup {NoRequest}, live : BOOLEAN]
      /\ \A q \in SyncRequests : q # r /\ holder'.by = q => holder.by = q
  BY <1>4
<1>6. /\ refs' \in SyncRefs /\ refs'.disputed = refs.disputed /\ clouds' \in Contents \cup {NoContent}
      /\ cache \subseteq cache' /\ cache' \subseteq Contents \cup {NoContent} /\ overran' \in BOOLEAN
      /\ UNCHANGED <<placed, stored, uploaded, lastKey>>
  BY <1>4 DEF FilesInv, FilesTypeOK
<1>7. /\ Holding(new)' /\ new.pc # "commit" /\ new.pc # "retire" /\ new.pc # "unlink"
      /\ new.new = 0 /\ new.content = NoContent
  BY <1>2, <1>3 DEF Holding
<1> QED BY <1>3, <1>5, <1>6, <1>7, RequestMoves

\* The head's object goes into the cache before the cycle counts on it.
LEMMA MaterializeKeeps == ASSUME FilesInv, ~overran, NEW r \in SyncRequests, Materialize(r) PROVE FilesInv'
<1>1. /\ cache' = cache \cup ({clouds} \ {NoContent}) /\ clouds \in Contents \cup {NoContent}
      /\ UNCHANGED <<placed, stored, uploaded, lastKey, refs, clouds, holder, overran>>
      /\ syncReq[r] \in SyncRequest /\ syncReq[r].pc = "materialize"
      /\ syncReq[r].new = 0 /\ syncReq[r].content = NoContent
      /\ overran' \in BOOLEAN /\ placed \in AttachmentRow
  BY DEF Materialize, Cached, bindingVars, FilesInv, FilesTypeOK, StagedApart, RequestAt
<1>2. cache \subseteq cache' /\ cache' \subseteq Contents \cup {NoContent}
  BY <1>1 DEF FilesInv, FilesTypeOK
<1>3. CASE /\ clouds # NoContent
           /\ syncReq' = [syncReq EXCEPT ![r] = [@ EXCEPT !.pc = "stage", !.seen = placed, !.content = clouds]]
  <2> DEFINE moved == [syncReq[r] EXCEPT !.pc = "stage", !.seen = placed, !.content = clouds]
  <2>1. moved \in SyncRequest /\ moved.pc = "stage" /\ moved.content = clouds
    BY <1>1 DEF SyncRequest, SyncPoints
  <2>2. syncReq' = [syncReq EXCEPT ![r] = moved]
    BY <1>3
  <2> HIDE DEF moved
  <2>3. PICK new \in SyncRequest : new = moved
    BY <2>1
  <2>4. syncReq' = [syncReq EXCEPT ![r] = new] /\ new.pc = "stage" /\ new.content = clouds
    BY <2>1, <2>2, <2>3
  <2>5. Holding(new)'
    BY <1>1, <1>3, <2>4 DEF Holding
  <2>6. new.pc # "commit" /\ new.pc # "retire" /\ new.pc # "unlink"
        /\ new.pc \notin {"materialize", "remove"}
    BY <2>4
  <2> QED BY <1>1, <1>2, <2>4, <2>5, <2>6, ReadsKeep
<1>4. CASE syncReq' = [syncReq EXCEPT ![r] = [@ EXCEPT !.pc = "remove", !.seen = placed]]
  <2> DEFINE moved == [syncReq[r] EXCEPT !.pc = "remove", !.seen = placed]
  <2>1. moved \in SyncRequest /\ moved.pc = "remove" /\ moved.content = NoContent /\ moved.new = 0
    BY <1>1 DEF SyncRequest, SyncPoints
  <2>2. syncReq' = [syncReq EXCEPT ![r] = moved]
    BY <1>4
  <2> HIDE DEF moved
  <2>3. PICK new \in SyncRequest : new = moved
    BY <2>1
  <2>4. /\ syncReq' = [syncReq EXCEPT ![r] = new] /\ new.pc = "remove" /\ new.content = NoContent /\ new.new = 0
        /\ new.pc # "commit" /\ new.pc # "retire" /\ new.pc # "unlink"
    BY <2>1, <2>2, <2>3
  <2>5. Holding(new)'
    BY <2>4 DEF Holding
  <2> QED BY <1>1, <1>2, <2>4, <2>5, ReadsKeep
<1>5. CASE ProceedWith(r, "remember", clouds)
  <2>1. "remember" \in SyncPoints
    BY DEF SyncPoints
  <2>2. PICK new \in SyncRequest :
           /\ new = AtWith("remember", clouds)
           /\ new.pc = "remember" /\ new.content = clouds
    BY <1>1, <2>1, Resting
  <2>3. /\ syncReq' = [syncReq EXCEPT ![r] = new] /\ new.pc \notin {"materialize", "remove"}
        /\ new.pc # "commit" /\ new.pc # "retire" /\ new.pc # "unlink"
    BY <1>5, <2>2 DEF ProceedWith, AtWith
  <2>4. Holding(new)'
    BY <1>1, <2>2 DEF Holding
  <2> QED BY <1>1, <1>2, <2>3, <2>4, ReadsKeep
<1>6. CASE \E next \in {"put", "finish"} : Proceed(r, next)
  <2>1. PICK next \in {"put", "finish"} : Proceed(r, next)
    BY <1>6
  <2>2. PICK new \in SyncRequest : new = [SyncRest EXCEPT !.pc = next] /\ new.pc = next
    BY RestingAt DEF SyncPoints
  <2>3. /\ syncReq' = [syncReq EXCEPT ![r] = new] /\ new.pc \notin {"materialize", "remove"}
        /\ new.pc # "commit" /\ new.pc # "retire" /\ new.pc # "unlink"
    BY <2>1, <2>2 DEF Proceed
  <2>4. Holding(new)'
    BY <2>2 DEF Holding
  <2> QED BY <1>1, <1>2, <2>3, <2>4, ReadsKeep
<1> QED BY <1>3, <1>4, <1>5, <1>6 DEF Materialize

\* The bytes that a choice takes are in the cache.
LEMMA ChooseKeeps ==
    ASSUME FilesInv, ~overran, NEW r \in SyncRequests, NEW content \in Contents, Choose(r, content)
    PROVE  FilesInv'
<1>1. /\ content \in cache /\ content \in Contents \cup {NoContent}
      /\ UNCHANGED <<placed, stored, uploaded, cache, lastKey, refs, clouds, holder, overran>>
      /\ syncReq[r] \in SyncRequest /\ placed \in AttachmentRow
      /\ cache \subseteq cache' /\ cache' \subseteq Contents \cup {NoContent} /\ overran' \in BOOLEAN
  BY DEF Choose, bindingVars, FilesInv, FilesTypeOK
<1> DEFINE moved == [syncReq[r] EXCEPT !.pc = "stage", !.seen = placed, !.content = content, !.settles = TRUE]
<1>2. moved \in SyncRequest /\ moved.pc = "stage" /\ moved.content = content
  BY <1>1 DEF SyncRequest, SyncPoints
<1>3. syncReq' = [syncReq EXCEPT ![r] = moved]
  BY DEF Choose
<1> HIDE DEF moved
<1>4. PICK new \in SyncRequest : new = moved
  BY <1>2
<1>5. /\ syncReq' = [syncReq EXCEPT ![r] = new] /\ new.pc = "stage" /\ new.content = content
      /\ new.pc # "commit" /\ new.pc # "retire" /\ new.pc # "unlink"
      /\ new.pc \notin {"materialize", "remove"}
  BY <1>2, <1>3, <1>4
<1>6. Holding(new)'
  BY <1>1, <1>5 DEF Holding
<1> QED BY <1>1, <1>5, <1>6, ReadsKeep

(* What retention protects: the row's key and the objects that are referred to.  With   *)
(* the lease, what is planned afterwards is none of them.                               *)
LEMMA RetentionKeeps ==
    ASSUME FilesInv, ~overran, NEW r \in SyncRequests, CollectRefs(r) \/ PlanPrune(r)
    PROVE  FilesInv'
<1>1. /\ UNCHANGED <<placed, stored, uploaded, cache, lastKey, refs, clouds, holder>>
      /\ syncReq[r] \in SyncRequest /\ overran' \in BOOLEAN /\ placed.key \in Nat
      /\ cache \subseteq cache' /\ cache' \subseteq Contents \cup {NoContent} /\ refs \in SyncRefs
  BY DEF CollectRefs, PlanPrune, Overtaken, bindingVars, HasLease, FilesInv, FilesTypeOK, AttachmentRow
<1>2. CASE CollectRefs(r)
  <2> DEFINE moved == [syncReq[r] EXCEPT !.pc = "prune", !.keys = {placed.key},
                                         !.objects = refs.head \cup refs.pending \cup refs.disputed]
  <2>1. /\ moved \in SyncRequest /\ moved.pc = "prune" /\ moved.keys = {placed.key}
        /\ refs.disputed \subseteq moved.objects
    BY <1>1 DEF SyncRequest, SyncPoints, SyncRefs
  <2>2. syncReq' = [syncReq EXCEPT ![r] = moved]
    BY <1>2 DEF CollectRefs
  <2> HIDE DEF moved
  <2>3. PICK new \in SyncRequest : new = moved
    BY <2>1
  <2>4. /\ syncReq' = [syncReq EXCEPT ![r] = new] /\ new.pc = "prune" /\ new.keys = {placed.key}
        /\ refs.disputed \subseteq new.objects
        /\ new.pc # "commit" /\ new.pc # "retire" /\ new.pc # "unlink"
        /\ new.pc \notin {"materialize", "remove"}
    BY <2>1, <2>2, <2>3
  <2>5. Holding(new)'
    BY <1>1, <2>4 DEF Holding
  <2> QED BY <1>1, <2>4, <2>5, ReadsKeep
<1>3. CASE PlanPrune(r)
  <2>1. PICK keys \in Stale((stored \ uploaded) \ syncReq[r].keys),
             objects \in Stale(cache \ syncReq[r].objects) :
           /\ syncReq[r].pc = "prune"
           /\ syncReq' = [syncReq EXCEPT ![r] = [@ EXCEPT !.pc = "unlink", !.keys = keys, !.objects = objects]]
           /\ Overtaken(r)
    BY <1>3 DEF PlanPrune, RequestAt
  <2>2. /\ keys \subseteq (stored \ uploaded) \ syncReq[r].keys
        /\ objects \subseteq cache \ syncReq[r].objects
        /\ keys \in SUBSET Nat /\ objects \in SUBSET (Contents \cup {NoContent})
        /\ \A k \in keys : k <= lastKey
    BY DEF Stale, FilesInv, FilesTypeOK
  <2> DEFINE moved == [syncReq[r] EXCEPT !.pc = "unlink", !.keys = keys, !.objects = objects]
  <2>3. moved \in SyncRequest /\ moved.pc = "unlink" /\ moved.keys = keys /\ moved.objects = objects
    BY <1>1, <2>2 DEF SyncRequest, SyncPoints
  <2>4. syncReq' = [syncReq EXCEPT ![r] = moved]
    BY <2>1
  <2> HIDE DEF moved
  <2>5. PICK new \in SyncRequest : new = moved
    BY <2>3
  <2>6. /\ syncReq' = [syncReq EXCEPT ![r] = new] /\ new.pc = "unlink" /\ new.keys = keys /\ new.objects = objects
        /\ new.pc # "commit" /\ new.pc # "retire" /\ \A k \in new.keys : k <= lastKey
        /\ new.pc \notin {"materialize", "remove"}
    BY <2>2, <2>3, <2>4, <2>5
  <2>7. HasLease(r) => Holding(new)'
    <3>1. HasLease(r) => Holding(syncReq[r])
      BY DEF FilesInv, FilesKept
    <3> QED BY <1>1, <2>1, <2>2, <2>6, <3>1 DEF Holding
  <2>8. overran' \/ (HasLease(r) => Holding(new)')
    BY <2>7
  <2> QED BY <1>1, <2>6, <2>8, ReadsKeep
<1> QED BY <1>2, <1>3

(* The other steps that leave the attachment alone: a publication, the end of a cycle,  *)
(* a stop, a crash.                                                                     *)
LEMMA PublicationKeeps ==
    ASSUME FilesInv, ~overran, NEW r \in SyncRequests,
           StopRequest(r) \/ PutObject(r) \/ PublishHead(r) \/ PublicationUnknown(r) \/ Finish(r) \/ CrashRequest(r)
    PROVE  FilesInv'
<1>1. /\ UNCHANGED <<placed, stored, uploaded, lastKey, overran>> /\ overran' \in BOOLEAN
      /\ placed \in AttachmentRow /\ placed.content \in Contents \cup {NoContent}
      /\ refs \in SyncRefs /\ clouds \in Contents \cup {NoContent}
      /\ holder \in [by : SyncRequests \cup {NoRequest}, live : BOOLEAN]
  BY DEF StopRequest, PutObject, PublishHead, PublicationUnknown, Finish, CrashRequest, bindingVars, FilesInv,
         FilesTypeOK, AttachmentRow
<1>2. CASE StopRequest(r)
  BY <1>1, <1>2, LeavesKeep DEF StopRequest
<1>3. CASE PutObject(r)
  <2>1. "publish" \in SyncPoints
    BY DEF SyncPoints
  <2>2. PICK new \in SyncRequest : /\ new = AtWith("publish", placed.content)
                                   /\ new.pc = "publish"
    BY <1>1, <2>1, Resting
  <2>3. /\ syncReq' = [syncReq EXCEPT ![r] = new] /\ new.pc \notin {"materialize", "remove"}
        /\ new.pc # "commit" /\ new.pc # "retire" /\ new.pc # "unlink"
    BY <1>3, <2>2 DEF PutObject, ProceedWith, AtWith
  <2>4. UNCHANGED <<refs, clouds, holder>> /\ cache \subseteq cache' /\ cache' \subseteq Contents \cup {NoContent}
    BY <1>1, <1>3 DEF PutObject, bindingVars, Cached, FilesInv, FilesTypeOK
  <2>5. Holding(new)'
    BY <2>2 DEF Holding
  <2> QED BY <1>1, <2>3, <2>4, <2>5, ReadsKeep
<1>4. ASSUME NEW next \in {"finish", "retain"}, Proceed(r, next), UNCHANGED <<holder, cache>>,
             refs' \in SyncRefs, refs'.disputed = refs.disputed, clouds' \in Contents \cup {NoContent}
      PROVE  FilesInv'
  <2>1. PICK new \in SyncRequest : new = [SyncRest EXCEPT !.pc = next] /\ new.pc = next
    BY RestingAt DEF SyncPoints
  <2>2. /\ syncReq' = [syncReq EXCEPT ![r] = new] /\ new.pc \notin {"materialize", "remove"}
        /\ new.pc # "commit" /\ new.pc # "retire" /\ new.pc # "unlink"
    BY <1>4, <2>1 DEF Proceed
  <2>3. Holding(new)'
    BY <2>1 DEF Holding
  <2>4. /\ cache \subseteq cache' /\ cache' \subseteq Contents \cup {NoContent}
        /\ holder' \in [by : SyncRequests \cup {NoRequest}, live : BOOLEAN]
        /\ \A q \in SyncRequests : q # r /\ holder'.by = q => holder.by = q
    BY <1>1, <1>4 DEF FilesInv, FilesTypeOK
  <2> QED BY <1>1, <1>4, <2>2, <2>3, <2>4, RequestMoves
<1>5. CASE PublishHead(r)
  <2>1. syncReq[r].content = placed.content /\ placed.content \in Contents \cup {NoContent}
    BY <1>1, <1>5 DEF PublishHead
  <2>2. refs' \in SyncRefs /\ refs'.disputed = refs.disputed /\ clouds' \in Contents \cup {NoContent}
    BY <1>1, <1>5 DEF PublishHead, SyncRefs
  <2> QED BY <1>4, <1>5, <2>2 DEF PublishHead
<1>6. CASE PublicationUnknown(r)
  <2>1. refs' \in SyncRefs /\ refs'.disputed = refs.disputed /\ clouds' \in Contents \cup {NoContent}
    BY <1>1, <1>6 DEF PublicationUnknown, SyncRefs
  <2> QED BY <1>1, <1>6, <2>1, LeavesKeep DEF PublicationUnknown
<1>7. CASE Finish(r)
  <2>1. refs' \in SyncRefs /\ refs'.disputed = refs.disputed /\ UNCHANGED clouds
    BY <1>1, <1>7 DEF Finish, SyncRefs
  <2>2. Leave(r) \/ (Proceed(r, "retain") /\ UNCHANGED holder)
    BY <1>7 DEF Finish
  <2> QED BY <1>1, <1>4, <1>7, <2>1, <2>2, LeavesKeep DEF Finish
<1>8. CASE CrashRequest(r)
  <2>1. PICK new \in SyncRequest : new = SyncRest /\ new.pc = "rest"
    BY RestTypes
  <2>2. /\ syncReq' = [syncReq EXCEPT ![r] = new] /\ new.pc \notin {"materialize", "remove"}
        /\ new.pc # "commit" /\ new.pc # "retire" /\ new.pc # "unlink"
        /\ UNCHANGED <<refs, clouds, holder>> /\ cache \subseteq cache' /\ cache' \subseteq Contents \cup {NoContent}
    BY <1>8, <2>1 DEF CrashRequest, bindingVars, FilesInv, FilesTypeOK
  <2>3. Holding(new)'
    BY <2>1 DEF Holding
  <2> QED BY <1>1, <2>2, <2>3, ReadsKeep
<1> QED BY <1>2, <1>3, <1>5, <1>6, <1>7, <1>8

\* A file is staged under a key that was never used.
LEMMA StageKeeps == ASSUME FilesInv, ~overran, NEW r \in SyncRequests, StageFile(r) PROVE FilesInv'
<1>1. /\ UNCHANGED <<placed, uploaded, cache, refs, clouds, holder, overran>> /\ lastKey \in Nat
      /\ lastKey' = lastKey + 1 /\ stored' = stored \cup {lastKey + 1}
      /\ syncReq[r] \in SyncRequest /\ syncReq[r].pc = "stage" /\ placed.key \in Nat /\ placed.key <= lastKey
  BY DEF StageFile, bindingVars, RequestAt, FilesInv, FilesTypeOK, AttachmentRow
<1> DEFINE moved == [syncReq[r] EXCEPT !.pc = "commit", !.new = lastKey + 1]
<1>2. /\ moved \in SyncRequest /\ moved.pc = "commit" /\ moved.new = lastKey + 1
      /\ moved.content = syncReq[r].content
  <2> DEFINE m1 == [syncReq[r] EXCEPT !.pc = "commit"]
  <2>1. moved = [m1 EXCEPT !.new = lastKey + 1] /\ lastKey + 1 \in Nat
    BY <1>1
  <2>2. m1 \in SyncRequest /\ m1.pc = "commit" /\ m1.content = syncReq[r].content
    BY <1>1 DEF SyncRequest, SyncPoints
  <2> HIDE DEF m1, moved
  <2> QED BY <2>1, <2>2 DEF SyncRequest
<1>3. syncReq' = [syncReq EXCEPT ![r] = moved]
  BY <1>1 DEF StageFile
<1> HIDE DEF moved
<1>4. PICK new \in SyncRequest : new = moved
  BY <1>2
<1>5. /\ syncReq' = [syncReq EXCEPT ![r] = new] /\ new.pc = "commit" /\ new.new = lastKey + 1
      /\ new.content = syncReq[r].content
  BY <1>2, <1>3, <1>4
<1>6. /\ syncReq' \in [SyncRequests -> SyncRequest]
      /\ \A q \in SyncRequests : syncReq'[q] = IF q = r THEN new ELSE syncReq[q]
  BY <1>5, OneMoves DEF FilesInv
<1>7. FilesTypeOK'
  BY <1>1, <1>6 DEF FilesInv, FilesTypeOK
<1>8. \A q \in SyncRequests : syncReq[q] \in SyncRequest
  BY DEF FilesInv, FilesTypeOK
<1>9. StagedApart'
  BY <1>1, <1>5, <1>6, <1>8 DEF FilesInv, StagedApart, SyncRequest
<1>10. \A q \in SyncRequests : HasLease(q)' => Holding(syncReq[q])'
  BY <1>1, <1>5, <1>6 DEF FilesInv, FilesKept, HasLease, Holding
<1> QED BY <1>1, <1>7, <1>9, <1>10 DEF FilesInv, FilesKept

(* The row takes the staged key or goes, and the file stays: the request has the lease, *)
(* so what others protect or plan is of no effect.                                      *)
LEMMA RowTakesKey ==
    ASSUME FilesInv, ~overran, NEW r \in SyncRequests, NEW new \in SyncRequest,
           syncReq[r].pc \in {"commit", "remove"}, HasLease(r),
           syncReq' = [syncReq EXCEPT ![r] = new],
           placed' = placed \/ placed' = Row(r),
           UNCHANGED <<stored, uploaded, cache, clouds, lastKey, overran>>,
           refs' \in SyncRefs, refs'.disputed \subseteq refs.disputed,
           holder' \in [by : SyncRequests \cup {NoRequest}, live : BOOLEAN],
           \A q \in SyncRequests : q # r => holder'.by # q,
           \/ new.pc = "rest"
           \/ new.pc = "retire" /\ new.old = placed.key /\ new.content = syncReq[r].content
    PROVE  FilesInv'
<1>1. /\ syncReq' \in [SyncRequests -> SyncRequest]
      /\ \A q \in SyncRequests : syncReq'[q] = IF q = r THEN new ELSE syncReq[q]
  BY OneMoves DEF FilesInv
<1>2. /\ syncReq[r] \in SyncRequest /\ placed \in AttachmentRow /\ placed.key <= lastKey /\ lastKey \in Nat
      /\ placed.key \in Nat
  BY DEF FilesInv, FilesTypeOK, AttachmentRow
<1>3. Row(r) \in AttachmentRow /\ Row(r).key <= lastKey /\ (Row(r) = NoRow \/ Row(r).key \in stored)
  <2>1. CASE syncReq[r].pc = "remove"
    BY <1>2, <2>1, RestTypes DEF Row, RequestAt, NoRow
  <2>2. CASE syncReq[r].pc = "commit"
    <3>1. syncReq[r].new <= lastKey /\ syncReq[r].new \in stored
      BY <2>2 DEF FilesInv, StagedApart, FilesKept, Holding
    <3>2. Row(r) = [key |-> syncReq[r].new, content |-> syncReq[r].content]
      BY <2>2 DEF Row, RequestAt
    <3> QED BY <1>2, <3>1, <3>2 DEF AttachmentRow, SyncRequest
  <2> QED BY <2>1, <2>2
<1>4. FilesTypeOK'
  BY <1>1, <1>2, <1>3 DEF FilesInv, FilesTypeOK
<1>5. \A q \in SyncRequests : q # r /\ syncReq[q].pc = "commit" =>
         placed'.key # syncReq[q].new /\ placed.key # syncReq[q].new
  <2> SUFFICES ASSUME NEW q \in SyncRequests, q # r, syncReq[q].pc = "commit"
               PROVE  Row(r).key # syncReq[q].new /\ placed.key # syncReq[q].new
    BY <1>2
  <2>1. syncReq[q].new # placed.key /\ 1 <= syncReq[q].new
    BY DEF FilesInv, StagedApart
  <2>2. CASE syncReq[r].pc = "remove"
    BY <2>1, <2>2 DEF Row, RequestAt, NoRow
  <2>3. CASE syncReq[r].pc = "commit"
    BY <2>1, <2>3 DEF Row, RequestAt, FilesInv, StagedApart
  <2> QED BY <2>1, <2>2, <2>3
<1>6. StagedApart'
  BY <1>1, <1>2, <1>5 DEF FilesInv, StagedApart
<1>7. placed' = NoRow \/ placed'.key \in stored
  BY <1>3 DEF FilesInv, FilesKept
<1>8. ASSUME NEW q \in SyncRequests, HasLease(q)' PROVE Holding(syncReq[q])'
  <2>1. q = r
    BY <1>8 DEF HasLease
  <2>2. syncReq[r].content = NoContent \/ syncReq[r].content \in cache
    BY DEF FilesInv, FilesKept, StagedApart, Holding
  <2> QED BY <1>1, <2>1, <2>2 DEF Holding
<1>9. FilesKept'
  BY <1>7, <1>8 DEF FilesInv, FilesKept
<1> QED BY <1>4, <1>6, <1>9 DEF FilesInv

\* What a commit leaves in the binding's references.
LEMMA RefsAfterType ==
    ASSUME FilesTypeOK, NEW r \in SyncRequests
    PROVE  RefsAfter(r) \in SyncRefs /\ RefsAfter(r).disputed \subseteq refs.disputed
<1>1. syncReq[r].content \in Contents \cup {NoContent} /\ refs \in SyncRefs
  BY DEF FilesTypeOK, SyncRequest
<1> QED BY <1>1 DEF RefsAfter, SyncRefs

\* The commit is known.
LEMMA CommitFilesKeeps == ASSUME FilesInv, ~overran, NEW r \in SyncRequests, CommitFiles(r) PROVE FilesInv'
<1>1. /\ syncReq[r].pc \in {"commit", "remove"} /\ HasLease(r) /\ placed' = Row(r) /\ refs' = RefsAfter(r)
      /\ UNCHANGED <<stored, uploaded, cache, clouds, lastKey, overran, holder>>
  BY DEF CommitFiles, MayCommit
<1>2. refs' \in SyncRefs /\ refs'.disputed \subseteq refs.disputed
  BY <1>1, RefsAfterType DEF FilesInv
<1>3. /\ syncReq[r].content \in Contents \cup {NoContent} /\ syncReq[r].settles \in BOOLEAN /\ placed.key \in Nat
      /\ holder' \in [by : SyncRequests \cup {NoRequest}, live : BOOLEAN]
      /\ \A q \in SyncRequests : q # r => holder'.by # q
  BY <1>1 DEF FilesInv, FilesTypeOK, SyncRequest, AttachmentRow, HasLease
<1> DEFINE retiring == [SyncRest EXCEPT !.pc = "retire", !.old = placed.key,
                            !.settles = syncReq[r].settles, !.content = syncReq[r].content]
<1>4. retiring \in SyncRequest /\ retiring.pc = "retire" /\ retiring.old = placed.key
      /\ retiring.content = syncReq[r].content
  <2> DEFINE m1 == [SyncRest EXCEPT !.pc = "retire"]
             m2 == [m1 EXCEPT !.old = placed.key]
             m3 == [m2 EXCEPT !.settles = syncReq[r].settles]
             m4 == [m3 EXCEPT !.content = syncReq[r].content]
  <2>1. retiring = m4
    OBVIOUS
  <2>2. m1 \in SyncRequest /\ m1.pc = "retire"
    BY RestTypes DEF SyncRest, SyncRequest, SyncPoints
  <2> HIDE DEF m1, retiring
  <2>3. m2 \in SyncRequest /\ m2.pc = "retire" /\ m2.old = placed.key
    BY <1>3, <2>2 DEF SyncRequest
  <2> HIDE DEF m2
  <2>4. m3 \in SyncRequest /\ m3.pc = "retire" /\ m3.old = placed.key
    BY <1>3, <2>3 DEF SyncRequest
  <2> HIDE DEF m3
  <2>5. m4 \in SyncRequest /\ m4.pc = "retire" /\ m4.old = placed.key /\ m4.content = syncReq[r].content
    BY <1>3, <2>4 DEF SyncRequest
  <2> QED BY <2>1, <2>5
<1>5. syncReq' = [syncReq EXCEPT ![r] = retiring]
  BY DEF CommitFiles
<1> HIDE DEF retiring
<1>6. PICK new \in SyncRequest : new = retiring
  BY <1>4
<1>7. /\ syncReq' = [syncReq EXCEPT ![r] = new] /\ new.pc = "retire" /\ new.old = placed.key
      /\ new.content = syncReq[r].content
  BY <1>4, <1>5, <1>6
<1> QED BY <1>1, <1>2, <1>3, <1>7, RowTakesKey

\* The answer to COMMIT is lost: the staged file is kept either way.
LEMMA OutcomeKeeps == ASSUME FilesInv, ~overran, NEW r \in SyncRequests, OutcomeUnknown(r) PROVE FilesInv'
<1>1. PICK committed \in BOOLEAN, marked \in BOOLEAN :
        /\ placed' = IF committed THEN Row(r) ELSE placed
        /\ refs' = [IF committed THEN RefsAfter(r) ELSE refs EXCEPT !.unknown = @ \/ marked]
  BY DEF OutcomeUnknown
<1>2. /\ syncReq[r].pc \in {"commit", "remove"} /\ HasLease(r) /\ (placed' = placed \/ placed' = Row(r))
      /\ UNCHANGED <<stored, uploaded, cache, clouds, lastKey, overran>>
      /\ syncReq' = [syncReq EXCEPT ![r] = SyncRest] /\ LeaseBack(r)
  BY <1>1 DEF OutcomeUnknown, MayCommit, Leave
<1>3. refs' \in SyncRefs /\ refs'.disputed \subseteq refs.disputed
  <2> DEFINE before == IF committed THEN RefsAfter(r) ELSE refs
  <2>1. before \in SyncRefs /\ before.disputed \subseteq refs.disputed
    BY RefsAfterType DEF FilesInv, FilesTypeOK
  <2>2. refs' = [before EXCEPT !.unknown = @ \/ marked]
    BY <1>1
  <2> HIDE DEF before
  <2> QED BY <2>1, <2>2 DEF SyncRefs
<1>4. /\ holder' \in [by : SyncRequests \cup {NoRequest}, live : BOOLEAN]
      /\ \A q \in SyncRequests : q # r => holder'.by # q
  BY <1>2, LeaseGoesBack DEF FilesInv, HasLease
<1>5. PICK new \in SyncRequest : new = SyncRest /\ new.pc = "rest"
  BY RestTypes
<1>6. syncReq' = [syncReq EXCEPT ![r] = new]
  BY <1>2, <1>5
<1> QED BY <1>2, <1>3, <1>4, <1>5, <1>6, RowTakesKey

(* Files go, and the request that lets them go moves on: none is the row's, none is     *)
(* staged by a request that may still commit.                                           *)
LEMMA FilesGo ==
    ASSUME FilesInv, ~overran, NEW r \in SyncRequests, NEW new \in SyncRequest, NEW gone,
           syncReq' = [syncReq EXCEPT ![r] = new],
           UNCHANGED <<placed, uploaded, lastKey, refs, clouds>>, overran' \in BOOLEAN,
           stored' = stored \ gone, cache' \subseteq cache,
           holder' \in [by : SyncRequests \cup {NoRequest}, live : BOOLEAN],
           \A q \in SyncRequests : q # r /\ holder'.by = q => holder.by = q,
           new.pc \notin {"commit", "retire", "materialize", "remove", "unlink"},
           overran' \/ /\ placed = NoRow \/ placed.key \notin gone
                       /\ \A q \in SyncRequests : q # r /\ holder'.by = q =>
                              /\ syncReq[q].pc = "commit" => syncReq[q].new \notin gone
                              /\ cache' = cache
                       /\ refs.disputed \subseteq cache'
                       /\ holder'.by = r => Holding(new)'
    PROVE  FilesInv'
<1>1. /\ syncReq' \in [SyncRequests -> SyncRequest]
      /\ \A q \in SyncRequests : syncReq'[q] = IF q = r THEN new ELSE syncReq[q]
  BY OneMoves DEF FilesInv
<1>2. FilesTypeOK'
  BY <1>1 DEF FilesInv, FilesTypeOK
<1>3. StagedApart'
  BY <1>1 DEF FilesInv, StagedApart
<1>4. overran' \/ FilesKept'
  <2> SUFFICES ASSUME ~overran' PROVE FilesKept'
    OBVIOUS
  <2>1. ASSUME NEW q \in SyncRequests, HasLease(q)' PROVE Holding(syncReq[q])'
    <3>1. CASE q = r
      BY <1>1, <2>1, <3>1 DEF HasLease, Holding
    <3>2. CASE q # r
      BY <1>1, <2>1, <3>2 DEF HasLease, Holding, FilesInv, FilesKept
    <3> QED BY <3>1, <3>2
  <2> QED BY <2>1 DEF FilesInv, FilesKept
<1> QED BY <1>2, <1>3, <1>4 DEF FilesInv

\* A request that retires, rolls back or prunes leaves every file that is needed.
LEMMA RollBackKeeps == ASSUME FilesInv, ~overran, NEW r \in SyncRequests, RollBack(r) PROVE FilesInv'
<1>1. /\ syncReq[r].pc \in {"commit", "remove"} /\ stored' = stored \ {syncReq[r].new} /\ LeaseBack(r)
      /\ syncReq' = [syncReq EXCEPT ![r] = SyncRest]
      /\ UNCHANGED <<placed, uploaded, cache, refs, clouds, lastKey, overran>>
  BY DEF RollBack, Leave
<1>2. /\ holder' \in [by : SyncRequests \cup {NoRequest}, live : BOOLEAN]
      /\ holder'.by # r /\ \A q \in SyncRequests : q # r /\ holder'.by = q => holder.by = q
  BY <1>1, LeaseGoesBack DEF FilesInv
<1>3. PICK new \in SyncRequest : new = SyncRest /\ new.pc = "rest"
  BY RestTypes
<1>4. PICK gone \in SUBSET Nat : gone = {syncReq[r].new}
  BY DEF FilesInv, FilesTypeOK, SyncRequest
<1>5. placed = NoRow \/ placed.key \notin gone
  BY <1>1, <1>4 DEF FilesInv, FilesTypeOK, FilesKept, StagedApart
<1>6. \A q \in SyncRequests : q # r /\ syncReq[q].pc = "commit" => syncReq[q].new \notin gone
  BY <1>1, <1>4 DEF FilesInv, StagedApart
<1>7. /\ syncReq' = [syncReq EXCEPT ![r] = new] /\ stored' = stored \ gone /\ cache' = cache
      /\ new.pc \notin {"commit", "retire", "materialize", "remove", "unlink"} /\ overran' \in BOOLEAN
      /\ UNCHANGED <<placed, uploaded, lastKey, refs, clouds>> /\ refs.disputed \subseteq cache'
  BY <1>1, <1>3, <1>4 DEF FilesInv, FilesTypeOK, FilesKept
<1> QED BY <1>2, <1>5, <1>6, <1>7, FilesGo

LEMMA RetireKeeps == ASSUME FilesInv, ~overran, NEW r \in SyncRequests, RetireFile(r) PROVE FilesInv'
<1>1. /\ syncReq[r].pc = "retire" /\ stored' = stored \ ({syncReq[r].old} \ {placed.key})
      /\ UNCHANGED <<placed, uploaded, cache, refs, clouds, lastKey, overran>>
  BY DEF RetireFile, RequestAt
<1>2. /\ syncReq[r] \in SyncRequest /\ holder \in [by : SyncRequests \cup {NoRequest}, live : BOOLEAN]
      /\ syncReq[r].content \in Contents \cup {NoContent} /\ overran' \in BOOLEAN
  BY <1>1 DEF FilesInv, FilesTypeOK, SyncRequest
<1>3. PICK new \in SyncRequest :
        /\ syncReq' = [syncReq EXCEPT ![r] = new]
        /\ \/ new.pc = "rest" /\ LeaseBack(r)
           \/ new.pc = "finish" /\ UNCHANGED holder
           \/ new.pc = "remember" /\ new.content = syncReq[r].content /\ UNCHANGED holder
  <2>1. CASE Leave(r)
    BY <2>1, RestTypes DEF Leave
  <2>2. CASE Proceed(r, "finish") /\ UNCHANGED holder
    <3>1. "finish" \in SyncPoints
      BY DEF SyncPoints
    <3> QED BY <2>2, <3>1, RestingAt DEF Proceed
  <2>3. CASE ProceedWith(r, "remember", syncReq[r].content) /\ UNCHANGED holder
    <3>1. "remember" \in SyncPoints
      BY DEF SyncPoints
    <3>2. PICK new \in SyncRequest :
             /\ new = AtWith("remember", syncReq[r].content)
             /\ new.pc = "remember" /\ new.content = syncReq[r].content
      BY <1>2, <3>1, Resting
    <3>3. syncReq' = [syncReq EXCEPT ![r] = new]
      BY <2>3, <3>2 DEF ProceedWith, AtWith
    <3> QED BY <2>3, <3>2, <3>3
  <2> QED BY <2>1, <2>2, <2>3 DEF RetireFile
<1>4. PICK gone \in SUBSET Nat : gone = {syncReq[r].old} \ {placed.key}
  BY <1>2 DEF SyncRequest
<1>5. /\ holder' \in [by : SyncRequests \cup {NoRequest}, live : BOOLEAN]
      /\ \A q \in SyncRequests : q # r /\ holder'.by = q => holder.by = q
      /\ new.pc # "rest" => holder' = holder
  BY <1>2, <1>3, LeaseGoesBack DEF FilesInv
<1>6. placed.key \notin gone
  BY <1>4
<1>7. \A q \in SyncRequests : q # r /\ syncReq[q].pc = "commit" => syncReq[q].new \notin gone
  BY <1>1, <1>4 DEF FilesInv, StagedApart
<1>8. holder'.by = r => Holding(new)'
  <2>1. CASE new.pc # "remember"
    BY <1>3, <2>1 DEF Holding
  <2>2. CASE new.pc = "remember"
    BY <1>1, <1>3, <2>2 DEF FilesInv, FilesKept, HasLease, Holding
  <2> QED BY <2>1, <2>2
<1>9. /\ stored' = stored \ gone /\ cache' = cache /\ refs.disputed \subseteq cache'
      /\ new.pc \notin {"commit", "retire", "materialize", "remove", "unlink"}
  BY <1>1, <1>3, <1>4 DEF FilesInv, FilesKept
<1> QED BY <1>1, <1>2, <1>3, <1>5, <1>6, <1>7, <1>8, <1>9, FilesGo

LEMMA RemoveStaleKeeps == ASSUME FilesInv, ~overran, NEW r \in SyncRequests, RemoveStale(r) PROVE FilesInv'
<1>1. /\ syncReq[r].pc = "unlink" /\ stored' = stored \ syncReq[r].keys /\ cache' = cache \ syncReq[r].objects
      /\ UNCHANGED <<placed, uploaded, refs, clouds, lastKey>> /\ LeaseBack(r)
      /\ overran' = (overran \/ ~HasLease(r)) /\ syncReq' = [syncReq EXCEPT ![r] = SyncRest]
  BY DEF RemoveStale, RequestAt, Overtaken, Leave
<1>2. /\ holder' \in [by : SyncRequests \cup {NoRequest}, live : BOOLEAN]
      /\ holder'.by # r /\ \A q \in SyncRequests : q # r /\ holder'.by = q => holder.by = q
  BY <1>1, LeaseGoesBack DEF FilesInv
<1>3. PICK new \in SyncRequest : new = SyncRest /\ new.pc = "rest"
  BY RestTypes
<1>4. PICK gone \in SUBSET Nat : gone = syncReq[r].keys
  BY DEF FilesInv, FilesTypeOK, SyncRequest
<1>5. ASSUME ~overran'
      PROVE  /\ placed = NoRow \/ placed.key \notin gone
             /\ \A q \in SyncRequests : q # r => holder'.by # q
             /\ refs.disputed \subseteq cache'
  <2>1. HasLease(r) /\ Holding(syncReq[r])
    BY <1>1, <1>5 DEF FilesInv, FilesKept
  <2> QED BY <1>1, <1>2, <1>4, <2>1 DEF FilesInv, FilesKept, Holding, HasLease
<1>6. /\ syncReq' = [syncReq EXCEPT ![r] = new] /\ stored' = stored \ gone /\ cache' \subseteq cache
      /\ new.pc \notin {"commit", "retire", "materialize", "remove", "unlink"} /\ overran' \in BOOLEAN
      /\ UNCHANGED <<placed, uploaded, lastKey, refs, clouds>>
  BY <1>1, <1>3, <1>4
<1>7. overran' \/ /\ placed = NoRow \/ placed.key \notin gone
                  /\ \A q \in SyncRequests : q # r /\ holder'.by = q =>
                        /\ syncReq[q].pc = "commit" => syncReq[q].new \notin gone
                        /\ cache' = cache
                  /\ refs.disputed \subseteq cache'
                  /\ holder'.by = r => Holding(new)'
  BY <1>2, <1>5
<1> QED BY <1>2, <1>6, <1>7, FilesGo

\* Conflicts are noted with objects that the cycle put into the cache.
LEMMA RememberKeeps == ASSUME FilesInv, ~overran, NEW r \in SyncRequests, RememberConflict(r) PROVE FilesInv'
<1>1. /\ syncReq[r].pc = "remember" /\ refs' = [refs EXCEPT !.disputed = {syncReq[r].content} \ {NoContent}]
      /\ UNCHANGED <<placed, stored, uploaded, cache, clouds, holder, lastKey>>
      /\ overran' = (overran \/ ~HasLease(r)) /\ syncReq[r].content \in Contents \cup {NoContent}
      /\ refs \in SyncRefs
  BY DEF RememberConflict, RequestAt, Overtaken, FilesInv, FilesTypeOK, SyncRequest
<1>2. PICK next \in {"finish", "put"} : Proceed(r, next)
  BY DEF RememberConflict
<1>3. PICK new \in SyncRequest : new = [SyncRest EXCEPT !.pc = next] /\ new.pc = next
  BY RestingAt DEF SyncPoints
<1>4. syncReq' = [syncReq EXCEPT ![r] = new] /\ new.pc \in {"finish", "put"}
  BY <1>2, <1>3 DEF Proceed
<1>5. /\ syncReq' \in [SyncRequests -> SyncRequest]
      /\ \A q \in SyncRequests : syncReq'[q] = IF q = r THEN new ELSE syncReq[q]
  BY <1>4, OneMoves DEF FilesInv
<1>6. refs' \in SyncRefs /\ refs'.disputed = {syncReq[r].content} \ {NoContent}
  BY <1>1 DEF SyncRefs
<1>7. FilesTypeOK'
  BY <1>1, <1>5, <1>6 DEF FilesInv, FilesTypeOK
<1>8. StagedApart'
  BY <1>1, <1>4, <1>5 DEF FilesInv, StagedApart
<1>9. ASSUME HasLease(r) PROVE FilesKept'
  <2>1. syncReq[r].content = NoContent \/ syncReq[r].content \in cache
    BY <1>1, <1>9 DEF FilesInv, FilesKept, Holding
  <2>2. \A q \in SyncRequests : HasLease(q)' => q = r
    BY <1>1, <1>9 DEF HasLease
  <2>3. Holding(syncReq[r])'
    BY <1>4, <1>5 DEF Holding
  <2> QED BY <1>1, <1>6, <2>1, <2>2, <2>3 DEF FilesInv, FilesKept
<1> QED BY <1>1, <1>7, <1>8, <1>9 DEF FilesInv

\* The assets app and the other devices.
LEMMA AttachmentKeeps ==
    ASSUME FilesInv, ~overran,
           \/ \E content \in Contents : AddAttachment(content)
           \/ RemoveAttachment \/ \E content \in Contents \cup {NoContent} : OthersPublish(content)
    PROVE  FilesInv'
<1>1. UNCHANGED <<cache, refs, holder, syncReq, overran>> /\ \A q \in SyncRequests : syncReq[q] \in SyncRequest
  BY DEF AddAttachment, RemoveAttachment, OthersPublish, bindingVars, FilesInv, FilesTypeOK
<1>2. /\ placed \in AttachmentRow /\ placed.key \in Nat /\ placed.key <= lastKey /\ lastKey \in Nat
      /\ stored \subseteq Nat /\ \A k \in stored : 1 <= k /\ k <= lastKey
  BY DEF FilesInv, FilesTypeOK, AttachmentRow
<1>3. ASSUME NEW content \in Contents, AddAttachment(content) PROVE FilesInv'
  <2>1. /\ lastKey' = lastKey + 1 /\ placed' = [key |-> lastKey + 1, content |-> content]
        /\ stored' = stored \cup {lastKey + 1} /\ uploaded' = uploaded \cup {lastKey + 1} /\ clouds' = clouds
    BY <1>3 DEF AddAttachment, bindingVars
  <2>2. placed' \in AttachmentRow /\ placed'.key = lastKey + 1
    BY <1>2, <2>1 DEF AttachmentRow
  <2>3. FilesTypeOK'
    BY <1>1, <1>2, <2>1, <2>2 DEF FilesInv, FilesTypeOK
  <2>4. StagedApart'
    BY <1>1, <1>2, <2>1, <2>2 DEF FilesInv, StagedApart, SyncRequest
  <2>5. ASSUME NEW q \in SyncRequests, HasLease(q) PROVE Holding(syncReq[q])'
    <3>1. Holding(syncReq[q]) /\ (syncReq[q].pc = "unlink" => lastKey + 1 \notin syncReq[q].keys)
      BY <1>2, <2>5 DEF FilesInv, FilesKept, StagedApart
    <3> QED BY <1>1, <2>1, <2>2, <3>1 DEF Holding
  <2>6. FilesKept'
    BY <1>1, <2>1, <2>2, <2>5 DEF FilesInv, FilesKept, HasLease
  <2> QED BY <2>3, <2>4, <2>6 DEF FilesInv
<1>4. CASE RemoveAttachment
  <2>1. placed' = NoRow /\ stored' = stored \ {placed.key} /\ UNCHANGED <<uploaded, clouds, lastKey>>
    BY <1>4 DEF RemoveAttachment, bindingVars
  <2>2. FilesTypeOK'
    <3>1. placed' \in AttachmentRow /\ placed'.key = 0
      BY <2>1, RestTypes
    <3>2. placed'.key <= lastKey'
      BY <1>2, <2>1, <3>1
    <3>3. stored' \subseteq Nat /\ \A k \in stored' : 1 <= k /\ k <= lastKey'
      BY <1>2, <2>1
    <3> QED BY <1>1, <2>1, <3>1, <3>2, <3>3 DEF FilesInv, FilesTypeOK
  <2>3. StagedApart'
    BY <1>1, <2>1, RestTypes DEF FilesInv, StagedApart
  <2>4. ASSUME NEW q \in SyncRequests, HasLease(q) PROVE Holding(syncReq[q])'
    <3>1. Holding(syncReq[q]) /\ (syncReq[q].pc = "commit" => placed.key # syncReq[q].new)
      BY <2>4 DEF FilesInv, FilesKept, StagedApart
    <3> QED BY <1>1, <2>1, <3>1 DEF Holding
  <2>5. FilesKept'
    BY <1>1, <2>1, <2>4 DEF FilesInv, FilesKept, HasLease
  <2> QED BY <2>2, <2>3, <2>5 DEF FilesInv
<1>5. ASSUME NEW content \in Contents \cup {NoContent}, OthersPublish(content) PROVE FilesInv'
  <2>1. clouds' = content /\ UNCHANGED <<placed, stored, uploaded, lastKey>>
    BY <1>5 DEF OthersPublish
  <2> QED BY <1>1, <2>1 DEF FilesInv, FilesTypeOK, StagedApart, FilesKept, HasLease, Holding
<1> QED BY <1>3, <1>4, <1>5

\* Every step of the files keeps the invariant.
LEMMA FilesInvKept == FilesInv /\ [FilesNext]_filesVars => FilesInv'
<1> SUFFICES ASSUME FilesInv, [FilesNext]_filesVars PROVE FilesInv'
  OBVIOUS
<1>1. CASE UNCHANGED filesVars
  BY <1>1 DEF filesVars, FilesInv, FilesTypeOK, StagedApart, FilesKept, HasLease, Holding
<1>2. CASE ~overran /\ LeaseRunsOut
  <2>1. /\ holder' = [holder EXCEPT !.live = FALSE] /\ holder \in [by : SyncRequests \cup {NoRequest}, live : BOOLEAN]
        /\ UNCHANGED <<placed, stored, uploaded, cache, refs, clouds, syncReq, lastKey, overran>>
    BY <1>2 DEF LeaseRunsOut, FilesInv, FilesTypeOK
  <2>2. holder' \in [by : SyncRequests \cup {NoRequest}, live : BOOLEAN] /\ holder'.by = holder.by
    BY <2>1
  <2> QED BY <2>1, <2>2 DEF FilesInv, FilesTypeOK, StagedApart, FilesKept, HasLease, Holding
<1>3. ASSUME ~overran, NEW r \in SyncRequests, RequestStep(r) PROVE FilesInv'
  BY <1>3, BeginKeeps, MaterializeKeeps, ChooseKeeps, RetentionKeeps, PublicationKeeps, StageKeeps,
     CommitFilesKeeps, OutcomeKeeps, RollBackKeeps, RetireKeeps, RemoveStaleKeeps, RememberKeeps DEF RequestStep
<1> QED BY <1>1, <1>2, <1>3, AttachmentKeeps DEF FilesNext

(* For any number of cycles, choices, contents and keys, crashes and lost answers: the  *)
(* row of an attachment has its file and the object of an open conflict is in the       *)
(* cache, as long as no request prunes or notes conflicts after another took its lease. *)
THEOREM FilesAreKept == FilesSpec => []SyncFilesKept
<1>1. FilesInit => FilesInv
  <2> SUFFICES ASSUME FilesInit PROVE FilesInv
    OBVIOUS
  <2>1. /\ refs \in SyncRefs /\ refs.disputed = {}
        /\ holder \in [by : SyncRequests \cup {NoRequest}, live : BOOLEAN]
    BY DEF FilesInit, SyncRefs, Nobody
  <2>2. syncReq \in [SyncRequests -> SyncRequest] /\ \A r \in SyncRequests : syncReq[r].pc = "rest"
    BY RestTypes DEF FilesInit
  <2>3. FilesTypeOK
    <3>1. placed \in AttachmentRow /\ placed.key = 0
      BY RestTypes DEF FilesInit
    <3>2. placed.key <= lastKey
      BY <3>1 DEF FilesInit
    <3>3. /\ stored \subseteq Nat /\ \A k \in stored : 1 <= k /\ k <= lastKey
          /\ cache \subseteq Contents \cup {NoContent} /\ clouds \in Contents \cup {NoContent}
          /\ lastKey \in Nat /\ overran \in BOOLEAN
      BY DEF FilesInit
    <3> QED BY <2>1, <2>2, <3>1, <3>2, <3>3 DEF FilesTypeOK
  <2>4. StagedApart /\ FilesKept
    BY <2>1, <2>2 DEF FilesInit, StagedApart, FilesKept, Holding
  <2> QED BY <2>3, <2>4 DEF FilesInv
<1>2. FilesInv => SyncFilesKept
  BY DEF FilesInv, FilesKept, SyncFilesKept
<1> QED BY <1>1, <1>2, FilesInvKept, PTL DEF FilesSpec

-----------------------------------------------------------------------------
(***************************************************************************)
(* The import of a backup.                                                 *)
(***************************************************************************)
MergeRows == [names : Namings, links : SUBSET MergeTags, keys : [MergeFiles -> StagedKeys \cup {NoKey}]]

\* Tags of the note have a name, and no two attachments share a file.
Sound(rows) ==
    /\ rows \in MergeRows /\ rows.links \subseteq Named(rows.names)
    /\ \A f, g \in MergeFiles : rows.keys[f] = rows.keys[g] /\ rows.keys[f] # NoKey => f = g
OnDisk(rows) == \A f \in MergeFiles : rows.keys[f] = NoKey \/ rows.keys[f] \in disk
Covered(rows, b) == Missing(rows, b) = {} /\ Merged(rows, b, rows.keys) = rows

MergeInv ==
    /\ disk \subseteq drawn /\ drawn \subseteq StagedKeys /\ chosen \in ValidBackups /\ retryable \in BOOLEAN
    /\ import \in [pc : {"idle", "committing", "cleanup"}, rows : MergeRows, staged : SUBSET StagedKeys]
    /\ Sound(db) /\ OnDisk(db) /\ (retryable => Covered(db, chosen))
    /\ import.staged \subseteq drawn /\ \A f \in MergeFiles : db.keys[f] \notin import.staged
    /\ import.pc = "committing" => Sound(import.rows) /\ OnDisk(import.rows) /\ Covered(import.rows, chosen)

\* A namings gives no name twice.
LEMMA NamesOnce ==
    ASSUME NEW n \in Namings
    PROVE  /\ n \in [MergeTags -> MergeNames \cup {Unnamed}]
           /\ \A s, t \in MergeTags : n[s] = n[t] /\ n[s] # Unnamed => s = t
BY DEF Namings

\* What a row of tags becomes, one by one.
LEMMA MergedNames ==
    ASSUME NEW rows \in MergeRows, NEW b \in ValidBackups, NEW keys
    PROVE  /\ Merged(rows, b, keys).names \in Namings
           /\ \A t \in MergeTags :
                 Merged(rows, b, keys).names[t] =
                    IF rows.names[t] = Unnamed /\ t \in Named(b.names)
                         /\ (\A u \in MergeTags : rows.names[u] # b.names[t])
                    THEN b.names[t] ELSE rows.names[t]
<1> DEFINE m == Merged(rows, b, keys)
<1>1. rows.names \in Namings /\ b.names \in Namings
  BY DEF MergeRows, ValidBackups
<1>2. \A t \in MergeTags : rows.names[t] = Unnamed /\ t \in Named(b.names) =>
         (TargetTag(rows, b, t) = t <=> \A u \in MergeTags : rows.names[u] # b.names[t])
  <2> SUFFICES ASSUME NEW t \in MergeTags, rows.names[t] = Unnamed, t \in Named(b.names)
               PROVE  TargetTag(rows, b, t) = t <=> \A u \in MergeTags : rows.names[u] # b.names[t]
    OBVIOUS
  <2> DEFINE same == {u \in MergeTags : rows.names[u] = b.names[t]}
  <2>1. t \notin same
    BY DEF Named
  <2>2. TargetTag(rows, b, t) = IF same # {} THEN CHOOSE u \in same : TRUE ELSE t
    BY DEF TargetTag
  <2>3. same # {} => (CHOOSE u \in same : TRUE) \in same
    OBVIOUS
  <2> QED BY <2>1, <2>2, <2>3
<1>3. /\ m.names \in [MergeTags -> MergeNames \cup {Unnamed}]
      /\ \A t \in MergeTags :
                 m.names[t] =
                    IF rows.names[t] = Unnamed /\ t \in Named(b.names)
                         /\ (\A u \in MergeTags : rows.names[u] # b.names[t])
                    THEN b.names[t] ELSE rows.names[t]
  BY <1>1, <1>2, NamesOnce DEF Merged
<1> HIDE DEF m
<1>4. ASSUME NEW s \in MergeTags, NEW t \in MergeTags, s # t, m.names[s] # Unnamed PROVE m.names[s] # m.names[t]
  BY <1>1, <1>3, <1>4, NamesOnce DEF Named
<1>5. m.names \in Namings
  BY <1>3, <1>4 DEF Namings
<1> QED BY <1>3, <1>5 DEF m

\* The tag a tag of the backup stands for.
LEMMA TargetOf ==
    ASSUME NEW rows \in MergeRows, NEW b \in ValidBackups, NEW t \in Named(b.names)
    PROVE  LET same == {u \in MergeTags : rows.names[u] = b.names[t]}
           IN  /\ TargetTag(rows, b, t) \in MergeTags
               /\ rows.names[t] = Unnamed /\ same # {} => TargetTag(rows, b, t) \in same
               /\ rows.names[t] # Unnamed \/ same = {} => TargetTag(rows, b, t) = t
<1> DEFINE same == {u \in MergeTags : rows.names[u] = b.names[t]}
<1>1. t \in MergeTags
  BY DEF Named
<1>2. same # {} => (CHOOSE u \in same : TRUE) \in same
  OBVIOUS
<1> QED BY <1>1, <1>2 DEF TargetTag

(* One merge: the rows stay sound, everything the backup has is there, and a second     *)
(* merge of the same backup would add nothing.                                          *)
LEMMA MergedRows ==
    ASSUME NEW rows, Sound(rows), NEW b \in ValidBackups, NEW keys \in [MergeFiles -> StagedKeys \cup {NoKey}],
           \A f \in Missing(rows, b) : keys[f] \in StagedKeys /\ \A g \in MergeFiles : rows.keys[g] # keys[f],
           \A f \in MergeFiles \ Missing(rows, b) : keys[f] = NoKey,
           \A f, g \in Missing(rows, b) : keys[f] = keys[g] => f = g
    PROVE  /\ Sound(Merged(rows, b, keys)) /\ Covered(Merged(rows, b, keys), b)
           /\ \A f \in MergeFiles : Merged(rows, b, keys).keys[f] =
                 IF f \in Missing(rows, b) THEN keys[f] ELSE rows.keys[f]
<1> DEFINE m == Merged(rows, b, keys)
<1>1. /\ rows \in MergeRows /\ rows.names \in Namings /\ b.names \in Namings
      /\ b.links \subseteq Named(b.names) /\ b.files \subseteq MergeFiles
      /\ rows.keys \in [MergeFiles -> StagedKeys \cup {NoKey}] /\ rows.links \subseteq Named(rows.names)
  BY DEF Sound, MergeRows, ValidBackups
<1>2. /\ m.names \in Namings
      /\ \A t \in MergeTags :
            m.names[t] = IF rows.names[t] = Unnamed /\ t \in Named(b.names)
                              /\ (\A u \in MergeTags : rows.names[u] # b.names[t])
                         THEN b.names[t] ELSE rows.names[t]
  BY <1>1, MergedNames
<1>3. /\ m = [names |-> m.names, links |-> m.links, keys |-> m.keys]
      /\ m.links = rows.links \cup {TargetTag(rows, b, t) : t \in b.links}
      /\ m.keys = [f \in MergeFiles |-> IF rows.keys[f] = NoKey THEN keys[f] ELSE rows.keys[f]]
  BY DEF Merged
<1> HIDE DEF m
<1>4. /\ m.keys \in [MergeFiles -> StagedKeys \cup {NoKey}]
      /\ \A f \in MergeFiles : m.keys[f] = IF f \in Missing(rows, b) THEN keys[f] ELSE rows.keys[f]
  BY <1>1, <1>3 DEF Missing
<1>5. \A f, g \in MergeFiles : m.keys[f] = m.keys[g] /\ m.keys[f] # NoKey => f = g
  BY <1>1, <1>4 DEF Sound
<1>6. \A t \in b.links : TargetTag(rows, b, t) \in Named(m.names)
  <2> SUFFICES ASSUME NEW t \in b.links PROVE TargetTag(rows, b, t) \in Named(m.names)
    OBVIOUS
  <2>1. t \in Named(b.names) /\ t \in MergeTags /\ b.names[t] # Unnamed
    BY <1>1 DEF Named
  <2> DEFINE same == {u \in MergeTags : rows.names[u] = b.names[t]}
  <2>2. /\ TargetTag(rows, b, t) \in MergeTags
        /\ rows.names[t] = Unnamed /\ same # {} => TargetTag(rows, b, t) \in same
        /\ rows.names[t] # Unnamed \/ same = {} => TargetTag(rows, b, t) = t
    BY <1>1, <2>1, TargetOf
  <2> QED BY <1>2, <2>1, <2>2 DEF Named
<1>7. Sound(m)
  <2>1. m.links \subseteq Named(m.names)
    BY <1>1, <1>2, <1>3, <1>6 DEF Named
  <2>2. m \in MergeRows
    BY <1>2, <1>3, <1>4, <2>1 DEF MergeRows, Named
  <2> QED BY <1>5, <2>1, <2>2 DEF Sound
<1>8. Missing(m, b) = {}
  BY <1>1, <1>4, MergeAssumption DEF Missing
<1>9. Merged(m, b, m.keys) = m
  <2> DEFINE again == Merged(m, b, m.keys)
  <2>1. m \in MergeRows
    BY <1>7 DEF Sound
  <2>2. /\ again.names \in Namings
        /\ \A t \in MergeTags :
              again.names[t] = IF m.names[t] = Unnamed /\ t \in Named(b.names)
                                   /\ (\A u \in MergeTags : m.names[u] # b.names[t])
                               THEN b.names[t] ELSE m.names[t]
    BY <2>1, MergedNames
  <2>3. /\ again = [names |-> again.names, links |-> again.links, keys |-> again.keys]
        /\ again.links = m.links \cup {TargetTag(m, b, t) : t \in b.links}
        /\ again.keys = [f \in MergeFiles |-> IF m.keys[f] = NoKey THEN m.keys[f] ELSE m.keys[f]]
    BY DEF Merged
  <2> HIDE DEF again
  <2>4. again.names = m.names
    <3>1. \A t \in MergeTags : again.names[t] = m.names[t]
      BY <1>1, <1>2, <2>2, NamesOnce DEF Named
    <3>2. again.names \in [MergeTags -> MergeNames \cup {Unnamed}] /\ m.names \in [MergeTags -> MergeNames \cup {Unnamed}]
      BY <1>2, <2>2, NamesOnce
    <3> QED BY <3>1, <3>2
  <2>5. again.keys = m.keys
    BY <1>4, <2>3
  <2>6. \A t \in b.links : TargetTag(m, b, t) \in m.links
    <3> SUFFICES ASSUME NEW t \in b.links PROVE TargetTag(m, b, t) \in m.links
      OBVIOUS
    <3>1. t \in Named(b.names) /\ t \in MergeTags /\ b.names[t] # Unnamed
      BY <1>1 DEF Named
    <3> DEFINE same == {u \in MergeTags : rows.names[u] = b.names[t]}
               then == {u \in MergeTags : m.names[u] = b.names[t]}
    <3>2. /\ rows.names[t] = Unnamed /\ same # {} => TargetTag(rows, b, t) \in same
          /\ rows.names[t] # Unnamed \/ same = {} => TargetTag(rows, b, t) = t
      BY <1>1, <3>1, TargetOf
    <3>3. /\ m.names[t] = Unnamed /\ then # {} => TargetTag(m, b, t) \in then
          /\ m.names[t] # Unnamed \/ then = {} => TargetTag(m, b, t) = t
      BY <2>1, <3>1, TargetOf
    <3>4. \A u \in MergeTags : rows.names[u] # Unnamed => m.names[u] = rows.names[u]
      BY <1>2
    <3>5. TargetTag(m, b, t) = TargetTag(rows, b, t)
      <4>1. CASE rows.names[t] # Unnamed
        BY <3>1, <3>2, <3>3, <3>4, <4>1
      <4>2. CASE rows.names[t] = Unnamed /\ same = {}
        BY <1>2, <3>1, <3>2, <3>3, <4>2
      <4>3. CASE rows.names[t] = Unnamed /\ same # {}
        <5>1. m.names[t] = Unnamed
          BY <1>2, <3>1, <4>3
        <5>2. same \subseteq then
          BY <3>1, <3>4
        <5>3. \A u, v \in then : u = v
          BY <1>2, <3>1, NamesOnce
        <5> QED BY <3>2, <3>3, <4>3, <5>1, <5>2, <5>3
      <4> QED BY <4>1, <4>2, <4>3
    <3> QED BY <1>3, <3>5
  <2>7. again.links = m.links
    BY <2>3, <2>6
  <2>8. again = m
    BY <1>3, <2>3, <2>4, <2>5, <2>7
  <2> QED BY <2>8 DEF again
<1> QED BY <1>4, <1>7, <1>8, <1>9 DEF Covered, m

(* What the user changes while no transaction holds the locks, and may change while     *)
(* staged files of a failed import are still to go: those are no row's.                 *)
LEMMA UserEditKeeps ==
    ASSUME MergeInv, NEW rows, NEW keep, UserEdits(rows, keep), Sound(rows),
           \A f \in MergeFiles : rows.keys[f] = NoKey \/ rows.keys[f] \in keep,
           \A f \in MergeFiles : rows.keys[f] \notin import.staged,
           keep \subseteq drawn', drawn \subseteq drawn', drawn' \subseteq StagedKeys
    PROVE  MergeInv'
<1>1. db' = rows /\ disk' = keep /\ retryable' = FALSE /\ UNCHANGED <<chosen, import>> /\ import.pc # "committing"
  BY DEF UserEdits, Unlocked
<1>2. Sound(db)' /\ OnDisk(db)'
  BY <1>1 DEF Sound, OnDisk
<1> QED BY <1>1, <1>2 DEF MergeInv

LEMMA UserKeeps ==
    ASSUME MergeInv, UserNames \/ UserLinks \/ UserAttaches \/ UserDetaches
    PROVE  MergeInv'
<1>1. /\ db \in MergeRows /\ db.names \in Namings /\ db.links \subseteq MergeTags
      /\ db.keys \in [MergeFiles -> StagedKeys \cup {NoKey}]
      /\ \A f, g \in MergeFiles : db.keys[f] = db.keys[g] /\ db.keys[f] # NoKey => f = g
      /\ \A f \in MergeFiles : db.keys[f] \notin import.staged /\ (db.keys[f] = NoKey \/ db.keys[f] \in disk)
      /\ disk \subseteq drawn /\ drawn \subseteq StagedKeys /\ import.staged \subseteq drawn
      /\ import.staged \subseteq StagedKeys
  BY DEF MergeInv, Sound, OnDisk, MergeRows
<1>2. CASE UserNames
  <2>1. PICK n \in Namings : /\ UserEdits([db EXCEPT !.names = n, !.links = @ \cap Named(n)], disk) /\ UNCHANGED drawn
    BY <1>2 DEF UserNames
  <2>2. PICK links \in SUBSET MergeTags : links = db.links \cap Named(n)
    BY <1>1
  <2> DEFINE rows == [names |-> n, links |-> links, keys |-> db.keys]
  <2>3. rows = [db EXCEPT !.names = n, !.links = @ \cap Named(n)]
    <3> DEFINE m1 == [db EXCEPT !.names = n]
    <3>1. [db EXCEPT !.names = n, !.links = @ \cap Named(n)] = [m1 EXCEPT !.links = links]
      BY <1>1, <2>2 DEF MergeRows
    <3>2. m1 = [names |-> n, links |-> db.links, keys |-> db.keys]
      BY <1>1 DEF MergeRows
    <3> HIDE DEF m1
    <3> QED BY <3>1, <3>2
  <2>4. Sound(rows) /\ rows.keys = db.keys
    BY <1>1, <2>2 DEF Sound, MergeRows
  <2>5. UserEdits(rows, disk)
    BY <2>1, <2>3
  <2> HIDE DEF rows
  <2>6. /\ \A f \in MergeFiles : rows.keys[f] = NoKey \/ rows.keys[f] \in disk
        /\ \A f \in MergeFiles : rows.keys[f] \notin import.staged
        /\ disk \subseteq drawn' /\ drawn \subseteq drawn' /\ drawn' \subseteq StagedKeys
    BY <1>1, <2>1, <2>4
  <2> QED BY <2>4, <2>5, <2>6, UserEditKeeps
<1>3. CASE UserLinks
  <2>1. PICK links \in SUBSET Named(db.names) : UserEdits([db EXCEPT !.links = links], disk) /\ UNCHANGED drawn
    BY <1>3 DEF UserLinks
  <2> DEFINE rows == [names |-> db.names, links |-> links, keys |-> db.keys]
  <2>2. rows = [db EXCEPT !.links = links]
    BY <1>1 DEF MergeRows
  <2>3. Sound(rows) /\ rows.keys = db.keys
    BY <1>1 DEF Sound, MergeRows, Named
  <2>4. UserEdits(rows, disk)
    BY <2>1, <2>2
  <2> HIDE DEF rows
  <2> QED BY <1>1, <2>1, <2>3, <2>4, UserEditKeeps
<1>4. ASSUME NEW keys \in [MergeFiles -> StagedKeys \cup {NoKey}]
      PROVE  LET rows == [names |-> db.names, links |-> db.links, keys |-> keys]
             IN  rows = [db EXCEPT !.keys = keys]
                 /\ ((\A f, g \in MergeFiles : keys[f] = keys[g] /\ keys[f] # NoKey => f = g) => Sound(rows))
  BY <1>1 DEF MergeInv, Sound, MergeRows
<1>5. CASE UserAttaches
  <2>1. PICK f \in MergeFiles, k \in StagedKeys \ drawn :
          /\ db.keys[f] = NoKey
          /\ UserEdits([db EXCEPT !.keys[f] = k], disk \cup {k}) /\ drawn' = drawn \cup {k}
    BY <1>5 DEF UserAttaches
  <2> DEFINE keys == [db.keys EXCEPT ![f] = k]
             rows == [names |-> db.names, links |-> db.links, keys |-> keys]
  <2>2. /\ keys \in [MergeFiles -> StagedKeys \cup {NoKey}]
        /\ \A g \in MergeFiles : keys[g] = IF g = f THEN k ELSE db.keys[g]
    BY <1>1, <2>1
  <2>3. [db EXCEPT !.keys[f] = k] = [db EXCEPT !.keys = keys]
    BY <1>1 DEF MergeRows
  <2> HIDE DEF keys
  <2>4. \A h, g \in MergeFiles : keys[h] = keys[g] /\ keys[h] # NoKey => h = g
    BY <1>1, <2>1, <2>2
  <2>5. Sound(rows) /\ UserEdits(rows, disk \cup {k}) /\ rows.keys = keys
    BY <1>4, <2>1, <2>2, <2>3, <2>4
  <2>6. \A g \in MergeFiles : /\ rows.keys[g] = NoKey \/ rows.keys[g] \in disk \cup {k}
                             /\ rows.keys[g] \notin import.staged
    BY <1>1, <2>1, <2>2, <2>5
  <2> HIDE DEF rows
  <2>7. disk \cup {k} \subseteq drawn' /\ drawn \subseteq drawn' /\ drawn' \subseteq StagedKeys
    BY <1>1, <2>1
  <2> QED BY <2>5, <2>6, <2>7, UserEditKeeps
<1>6. CASE UserDetaches
  <2>1. PICK f \in MergeFiles : UserEdits([db EXCEPT !.keys[f] = NoKey], disk \ {db.keys[f]}) /\ UNCHANGED drawn
    BY <1>6 DEF UserDetaches
  <2> DEFINE keys == [db.keys EXCEPT ![f] = NoKey]
             rows == [names |-> db.names, links |-> db.links, keys |-> keys]
  <2>2. /\ keys \in [MergeFiles -> StagedKeys \cup {NoKey}]
        /\ \A g \in MergeFiles : keys[g] = IF g = f THEN NoKey ELSE db.keys[g]
    BY <1>1
  <2>3. [db EXCEPT !.keys[f] = NoKey] = [db EXCEPT !.keys = keys]
    BY <1>1 DEF MergeRows
  <2> HIDE DEF keys
  <2>4. \A h, g \in MergeFiles : keys[h] = keys[g] /\ keys[h] # NoKey => h = g
    BY <1>1, <2>2
  <2>5. Sound(rows) /\ UserEdits(rows, disk \ {db.keys[f]}) /\ rows.keys = keys
    BY <1>4, <2>1, <2>2, <2>3, <2>4
  <2>6. \A g \in MergeFiles : /\ rows.keys[g] = NoKey \/ rows.keys[g] \in disk \ {db.keys[f]}
                             /\ rows.keys[g] \notin import.staged
    BY <1>1, <2>2, <2>5, MergeAssumption
  <2> HIDE DEF rows
  <2>7. disk \ {db.keys[f]} \subseteq drawn' /\ drawn \subseteq drawn' /\ drawn' \subseteq StagedKeys
    BY <1>1, <2>1
  <2> QED BY <2>5, <2>6, <2>7, UserEditKeeps
<1> QED BY <1>2, <1>3, <1>5, <1>6

\* The rows an import would commit are as sound as those it found.
LEMMA MergeBodyKeeps == ASSUME MergeInv, MergeBody PROVE MergeInv'
<1>1. PICK keys \in [MergeFiles -> StagedKeys \cup {NoKey}] :
        LET new == Missing(db, chosen)
            staged == {keys[f] : f \in new}
        IN  /\ \A f \in MergeFiles : IF f \in new THEN keys[f] \in StagedKeys \ drawn ELSE keys[f] = NoKey
            /\ \A f, g \in new : keys[f] = keys[g] => f = g
            /\ import' = [pc |-> "committing", rows |-> Merged(db, chosen, keys), staged |-> staged]
            /\ disk' = disk \cup staged /\ drawn' = drawn \cup staged
            /\ UNCHANGED <<db, chosen, retryable, userEdits>>
  BY DEF MergeBody
<1>2. PICK staged \in SUBSET StagedKeys : staged = {keys[f] : f \in Missing(db, chosen)}
  <2>1. \A f \in Missing(db, chosen) : keys[f] \in StagedKeys
    BY <1>1 DEF Missing, MergeInv, ValidBackups
  <2> QED BY <2>1
<1>3. /\ Sound(db) /\ OnDisk(db) /\ chosen \in ValidBackups /\ disk \subseteq drawn /\ drawn \subseteq StagedKeys
      /\ Missing(db, chosen) \subseteq MergeFiles /\ \A f \in MergeFiles : db.keys[f] = NoKey \/ db.keys[f] \in drawn
  BY DEF MergeInv, Missing, ValidBackups, OnDisk
<1>4. /\ Sound(Merged(db, chosen, keys)) /\ Covered(Merged(db, chosen, keys), chosen)
      /\ \A f \in MergeFiles : Merged(db, chosen, keys).keys[f] =
            IF f \in Missing(db, chosen) THEN keys[f] ELSE db.keys[f]
  <2>1. \A f \in Missing(db, chosen) : keys[f] \in StagedKeys /\ \A g \in MergeFiles : db.keys[g] # keys[f]
    BY <1>1, <1>3, MergeAssumption
  <2>2. \A f \in MergeFiles \ Missing(db, chosen) : keys[f] = NoKey
    BY <1>1
  <2>3. \A f, g \in Missing(db, chosen) : keys[f] = keys[g] => f = g
    BY <1>1
  <2> QED BY <1>3, <2>1, <2>2, <2>3, MergedRows
<1>5. PICK rows \in MergeRows : rows = Merged(db, chosen, keys)
  BY <1>4 DEF Sound
<1>6. /\ import' = [pc |-> "committing", rows |-> rows, staged |-> staged]
      /\ disk' = disk \cup staged /\ drawn' = drawn \cup staged /\ UNCHANGED <<db, chosen, retryable>>
  BY <1>1, <1>2, <1>5
<1>7. Sound(rows)' /\ Covered(rows, chosen)' /\ OnDisk(rows)'
  <2>1. \A f \in MergeFiles : rows.keys[f] = NoKey \/ rows.keys[f] \in disk \cup staged
    BY <1>2, <1>3, <1>4, <1>5 DEF OnDisk
  <2>2. Sound(rows)' /\ Covered(rows, chosen)'
    BY <1>4, <1>5, <1>6 DEF Sound, Covered
  <2> QED BY <1>6, <2>1, <2>2 DEF OnDisk
<1>8. \A f \in MergeFiles : db.keys[f] \notin staged
  BY <1>1, <1>2, <1>3, MergeAssumption
<1>9. Sound(db)' /\ OnDisk(db)' /\ (retryable' => Covered(db, chosen)')
  BY <1>6 DEF MergeInv, Sound, OnDisk, Covered
<1> QED BY <1>6, <1>7, <1>8, <1>9 DEF MergeInv

\* Every step of the merge keeps the invariant.
LEMMA MergeInvKept == MergeInv /\ [MergeNext]_mergeVars => MergeInv'
<1> SUFFICES ASSUME MergeInv, [MergeNext]_mergeVars PROVE MergeInv'
  OBVIOUS
<1>1. import \in [pc : {"idle", "committing", "cleanup"}, rows : MergeRows, staged : SUBSET StagedKeys]
  BY DEF MergeInv
<1>2. PICK none \in MergeRows : none = EmptyRows
  <2>1. [t \in MergeTags |-> Unnamed] \in Namings
    BY DEF Namings
  <2> QED BY <2>1 DEF EmptyRows, NoBackup, MergeRows
<1>3. NotImporting = [pc |-> "idle", rows |-> none, staged |-> {}]
  BY <1>2 DEF NotImporting
<1>4. CASE UNCHANGED mergeVars
  BY <1>4 DEF mergeVars, MergeInv, Sound, OnDisk, Covered
<1>5. CASE ChooseBackup
  <2>1. PICK b \in ValidBackups : chosen' = b
    BY <1>5 DEF ChooseBackup
  <2>2. UNCHANGED <<db, disk, drawn, import>> /\ retryable' = FALSE /\ import.pc = "idle"
    BY <1>5 DEF ChooseBackup
  <2> QED BY <2>1, <2>2 DEF MergeInv, Sound, OnDisk
<1>6. CASE MergeCommits
  <2>1. /\ import.pc = "committing" /\ db' = import.rows /\ retryable' = TRUE /\ UNCHANGED <<disk, drawn, chosen>>
        /\ import' = [pc |-> "idle", rows |-> none, staged |-> {}]
    BY <1>3, <1>6 DEF MergeCommits
  <2>2. Sound(db)' /\ OnDisk(db)' /\ Covered(db, chosen)'
    BY <2>1 DEF MergeInv, Sound, OnDisk, Covered
  <2> QED BY <2>1, <2>2 DEF MergeInv
<1>7. CASE CommitUnknown
  <2>1. PICK rows \in {db, import.rows} : db' = rows /\ retryable' = (rows = import.rows)
    BY <1>7 DEF CommitUnknown
  <2>2. /\ import.pc = "committing" /\ UNCHANGED <<disk, drawn, chosen>>
        /\ import' = [pc |-> "cleanup", rows |-> none, staged |-> {}]
    BY <1>3, <1>7 DEF CommitUnknown, Cleans
  <2>3. Sound(db)' /\ OnDisk(db)' /\ (retryable' => Covered(db, chosen)')
    BY <2>1, <2>2 DEF MergeInv, Sound, OnDisk, Covered
  <2> QED BY <2>1, <2>2, <2>3 DEF MergeInv
<1>8. CASE BodyFails
  <2>1. /\ import.pc = "committing" /\ UNCHANGED <<db, disk, drawn, chosen, retryable>>
        /\ import' = [pc |-> "cleanup", rows |-> none, staged |-> import.staged]
    BY <1>3, <1>8 DEF BodyFails, Cleans
  <2>2. Sound(db)' /\ OnDisk(db)' /\ (retryable' => Covered(db, chosen)')
    BY <2>1 DEF MergeInv, Sound, OnDisk, Covered
  <2> QED BY <1>1, <2>1, <2>2 DEF MergeInv
<1>9. CASE Cleanup
  <2>1. PICK stuck \in SUBSET import.staged : disk' = disk \ (import.staged \ stuck)
    BY <1>9 DEF Cleanup
  <2>2. UNCHANGED <<db, drawn, chosen, retryable>> /\ import' = [pc |-> "idle", rows |-> none, staged |-> {}]
    BY <1>3, <1>9 DEF Cleanup
  <2>3. Sound(db)' /\ OnDisk(db)' /\ (retryable' => Covered(db, chosen)')
    BY <2>1, <2>2 DEF MergeInv, Sound, OnDisk, Covered
  <2> QED BY <2>1, <2>2, <2>3 DEF MergeInv
<1>10. CASE MergeCrash
  <2>1. /\ UNCHANGED <<db, disk, drawn, chosen, retryable>>
        /\ import' = [pc |-> "idle", rows |-> none, staged |-> {}]
    BY <1>3, <1>10 DEF MergeCrash
  <2>2. Sound(db)' /\ OnDisk(db)' /\ (retryable' => Covered(db, chosen)')
    BY <2>1 DEF MergeInv, Sound, OnDisk, Covered
  <2> QED BY <2>1, <2>2 DEF MergeInv
<1> QED BY <1>4, <1>5, <1>6, <1>7, <1>8, <1>9, <1>10, UserKeeps, MergeBodyKeeps DEF MergeNext

(* For any tags, names, files and backups, however an import ended: each attachment row *)
(* has its file, tag names stay unique, links lead to tags, and merging a committed     *)
(* backup a second time would add nothing.                                              *)
THEOREM MergeRetrySafe == MergeSpec => []RetrySafe
<1>1. MergeInit => MergeInv
  <2> SUFFICES ASSUME MergeInit PROVE MergeInv
    OBVIOUS
  <2>1. PICK n \in Namings : n = [t \in MergeTags |-> Unnamed]
    BY DEF Namings
  <2>2. /\ EmptyRows = [names |-> n, links |-> {}, keys |-> [f \in MergeFiles |-> NoKey]]
        /\ NoBackup = [names |-> n, links |-> {}, files |-> {}]
    BY <2>1 DEF EmptyRows, NoBackup
  <2>3. /\ EmptyRows \in MergeRows /\ Sound(EmptyRows) /\ \A f \in MergeFiles : EmptyRows.keys[f] = NoKey
        /\ NoBackup \in ValidBackups
    BY <2>2 DEF MergeRows, Sound, ValidBackups
  <2>4. import = [pc |-> "idle", rows |-> EmptyRows, staged |-> {}]
    BY DEF MergeInit, NotImporting
  <2>5. /\ import \in [pc : {"idle", "committing", "cleanup"}, rows : MergeRows, staged : SUBSET StagedKeys]
        /\ import.staged = {} /\ import.pc = "idle"
    BY <2>3, <2>4
  <2>6. Sound(db) /\ OnDisk(db) /\ chosen \in ValidBackups /\ retryable = FALSE /\ disk = {} /\ drawn = {}
    BY <2>3 DEF MergeInit, OnDisk
  <2> QED BY <2>5, <2>6 DEF MergeInv
<1>2. MergeInv => RetrySafe
  BY DEF MergeInv, Sound, OnDisk, Covered, RetrySafe, MergeRows
<1> QED BY <1>1, <1>2, MergeInvKept, PTL DEF MergeSpec

-----------------------------------------------------------------------------
(***************************************************************************)
(* Records that refer to each other.  The passes of interpret end, what    *)
(* they leave defers nothing more, and such a plan fits rows and head that *)
(* are well formed, which devices and the head stay.                       *)
(***************************************************************************)
\* Counting up to a bound.
LEMMA Counting ==
    ASSUME NEW N \in Nat, NEW S, 0 \in S, \A n \in 0..N : n \in S /\ n < N => n + 1 \in S
    PROVE  0..N \subseteq S
<1> DEFINE Left == {n \in 0..N : n \notin S}
           Below == {pair \in Nat \X Nat : pair[1] < pair[2]}
<1>1. SUFFICES ASSUME Left # {} PROVE FALSE
  OBVIOUS
<1>2. IsWellFoundedOn(Below, Nat)
  BY NatLessThanWellFounded DEF OpToRel
<1>3. PICK n \in Left : \A m \in Left : ~(<<m, n>> \in Below)
  <2>1. Left \subseteq Nat
    OBVIOUS
  <2> HIDE DEF Below, Left
  <2> QED BY <1>1, <1>2, <2>1, WFMin
<1>4. n \in 0..N /\ n \notin S /\ n # 0
  OBVIOUS
<1>5. n - 1 \in 0..N /\ n - 1 < N /\ n - 1 + 1 = n
  BY <1>4
<1>6. <<n - 1, n>> \in Below
  BY <1>4, <1>5
<1>7. n - 1 \in S
  BY <1>3, <1>5, <1>6
<1> QED BY <1>4, <1>5, <1>7

LEMMA GraphKeysFinite == IsFiniteSet(GraphKeys)
<1>1. IsFiniteSet(ItemKeys)
  <2>1. [i \in ItemIds |-> <<i>>] \in Surjection(ItemIds, ItemKeys)
    BY DEF ItemKeys, Surjection
  <2> QED BY <2>1, GraphAssumption, FS_Surjection
<1>2. IsFiniteSet(CategoryKeys)
  <2>1. [c \in CategoryIds |-> <<c>>] \in Surjection(CategoryIds, CategoryKeys)
    BY DEF CategoryKeys, Surjection
  <2> QED BY <2>1, GraphAssumption, FS_Surjection
<1>3. IsFiniteSet(LinkKeys)
  BY GraphAssumption, FS_Product DEF LinkKeys
<1> QED BY <1>1, <1>2, <1>3, FS_Union DEF GraphKeys

\* One pass, key by key.
LEMMA OnePass ==
    ASSUME NEW acts, acts = [k \in GraphKeys |-> acts[k]], NEW local, NEW remote
    PROVE  Defer(acts, local, remote) =
             [k \in GraphKeys |->
                IF k \in Clashing(acts, local, remote) THEN P!Conflict("natural-key")
                ELSE IF k \in Busy(acts, local, remote) \cup Orphaned(acts, local, remote)
                     THEN P!Conflict("parent-child") ELSE acts[k]]
<1>1. DOMAIN acts = GraphKeys
  OBVIOUS
<1>2. Clashing(acts, local, remote) \subseteq GraphKeys /\ Busy(acts, local, remote) \subseteq GraphKeys
      /\ Orphaned(acts, local, remote) \subseteq GraphKeys
  BY DEF Clashing, Busy, Orphaned, Of, Retiring
<1> QED BY <1>1, <1>2 DEF Defer, Conflicting, Over

(* What passes make of a plan: a key keeps its decision or is in conflict, and a clash   *)
(* of names is one with a local row.                                                     *)
DeferredFrom(next, acts, local, remote) ==
    /\ next = [k \in GraphKeys |-> next[k]]
    /\ \A k \in GraphKeys :
          next[k] = acts[k] \/ /\ next[k].type = "conflict"
                               /\ next[k].reason = "natural-key" =>
                                     k \in CategoryKeys /\ \E c \in CategoryKeys :
                                        c # k /\ local[c] # Absent /\ local[c] = remote[k]

LEMMA ConflictIs ==
    ASSUME NEW reason
    PROVE  P!Conflict(reason).type = "conflict" /\ P!Conflict(reason).reason = reason
BY DEF P!Conflict, P!Act, P!NoScore

LEMMA PassDefers ==
    ASSUME NEW acts, NEW next, NEW local, NEW remote, DeferredFrom(next, acts, local, remote)
    PROVE  DeferredFrom(Defer(next, local, remote), acts, local, remote)
<1> DEFINE then == Defer(next, local, remote)
<1>1. then = [k \in GraphKeys |->
                IF k \in Clashing(next, local, remote) THEN P!Conflict("natural-key")
                ELSE IF k \in Busy(next, local, remote) \cup Orphaned(next, local, remote)
                     THEN P!Conflict("parent-child") ELSE next[k]]
  BY OnePass DEF DeferredFrom
<1> HIDE DEF then
<1>2. ASSUME NEW k \in GraphKeys
      PROVE  then[k] = acts[k] \/ /\ then[k].type = "conflict"
                                  /\ then[k].reason = "natural-key" =>
                                        k \in CategoryKeys /\ \E c \in CategoryKeys :
                                           c # k /\ local[c] # Absent /\ local[c] = remote[k]
  <2>1. CASE k \in Clashing(next, local, remote)
    <3>1. k \in CategoryKeys /\ SameName(next, local, remote, k) # {}
      BY <2>1 DEF Clashing, Collides
    <3>2. \E c \in CategoryKeys : c # k /\ local[c] # Absent /\ local[c] = remote[k]
      BY <3>1 DEF SameName
    <3>3. then[k] = P!Conflict("natural-key")
      BY <1>1, <2>1
    <3> QED BY <3>1, <3>2, <3>3, ConflictIs
  <2>2. CASE k \notin Clashing(next, local, remote)
             /\ k \in Busy(next, local, remote) \cup Orphaned(next, local, remote)
    <3>1. then[k] = P!Conflict("parent-child")
      BY <1>1, <2>2
    <3> QED BY <3>1, ConflictIs
  <2>3. CASE k \notin Clashing(next, local, remote)
             /\ k \notin Busy(next, local, remote) \cup Orphaned(next, local, remote)
    <3>1. then[k] = next[k]
      BY <1>1, <2>3
    <3> QED BY <3>1 DEF DeferredFrom
  <2> QED BY <2>1, <2>2, <2>3
<1>3. then = [k \in GraphKeys |-> then[k]]
  BY <1>1
<1> QED BY <1>2, <1>3 DEF DeferredFrom, then

\* A pass that changes something puts more keys into conflict.
LEMMA PassProgresses ==
    ASSUME NEW acts, acts = [k \in GraphKeys |-> acts[k]], NEW local, NEW remote,
           Defer(acts, local, remote) # acts
    PROVE  Cardinality(Of(Defer(acts, local, remote), {"conflict"}))
             > Cardinality(Of(acts, {"conflict"}))
<1> DEFINE next == Defer(acts, local, remote)
           before == Of(acts, {"conflict"})
           after == Of(next, {"conflict"})
<1>1. next = [k \in GraphKeys |->
                IF k \in Clashing(acts, local, remote) THEN P!Conflict("natural-key")
                ELSE IF k \in Busy(acts, local, remote) \cup Orphaned(acts, local, remote)
                     THEN P!Conflict("parent-child") ELSE acts[k]]
  BY OnePass
<1> HIDE DEF next
<1>2. \A k \in GraphKeys : next[k] = acts[k] \/ (next[k].type = "conflict" /\ acts[k].type # "conflict")
  <2> TAKE k \in GraphKeys
  <2>1. CASE k \in Clashing(acts, local, remote)
    <3>1. acts[k].type = "apply-remote"
      BY <2>1 DEF Clashing, Of
    <3> QED BY <1>1, <2>1, <3>1, ConflictIs
  <2>2. CASE k \notin Clashing(acts, local, remote)
             /\ k \in Busy(acts, local, remote) \cup Orphaned(acts, local, remote)
    <3>1. acts[k].type # "conflict"
      BY <2>2 DEF Busy, Orphaned, Of, Retiring
    <3>2. next[k] = P!Conflict("parent-child")
      BY <1>1, <2>2
    <3> QED BY <3>1, <3>2, ConflictIs
  <2>3. CASE k \notin Clashing(acts, local, remote)
             /\ k \notin Busy(acts, local, remote) \cup Orphaned(acts, local, remote)
    BY <1>1, <2>3
  <2> QED BY <2>1, <2>2, <2>3
<1>3. PICK k \in GraphKeys : next[k] # acts[k]
  <2>1. acts = [k \in GraphKeys |-> acts[k]] /\ next # acts
    BY DEF next
  <2> QED BY <1>1, <2>1
<1>4. before \subseteq after /\ k \in after /\ k \notin before /\ after \subseteq GraphKeys
  BY <1>2, <1>3 DEF Of
<1>5. IsFiniteSet(after)
  BY <1>4, GraphKeysFinite, FS_Subset
<1> HIDE DEF before, after
<1>6. Cardinality(before) < Cardinality(after)
  <2>1. IsFiniteSet(before)
    BY <1>4, <1>5, FS_Subset
  <2>2. Cardinality(before) <= Cardinality(after) /\ (Cardinality(before) = Cardinality(after) => before = after)
    BY <1>4, <1>5, FS_Subset
  <2>3. Cardinality(before) \in Nat /\ Cardinality(after) \in Nat
    BY <2>1, <1>5, FS_CardinalityType
  <2> QED BY <1>4, <2>2, <2>3
<1>7. Cardinality(before) \in Nat /\ Cardinality(after) \in Nat
  BY <1>4, <1>5, FS_Subset, FS_CardinalityType
<1> QED BY <1>6, <1>7 DEF before, after, next

\* The passes of interpret, up to any number of them: such a function exists.
PassesOf(pass, acts, local, remote, N) ==
    pass = [n \in 0..N |-> IF n = 0 THEN acts ELSE Defer(pass[n - 1], local, remote)]

LEMMA PassesExist ==
    ASSUME NEW acts, NEW local, NEW remote, NEW N \in Nat
    PROVE  \E pass : PassesOf(pass, acts, local, remote, N)
<1> DEFINE Passes(pass, m) == pass = [n \in 0..m |-> IF n = 0 THEN acts ELSE Defer(pass[n - 1], local, remote)]
           S == {m \in 0..N : \E pass : Passes(pass, m)}
<1>1. 0 \in S
  <2> DEFINE first == [n \in 0..0 |-> acts]
  <2>1. first = [n \in 0..0 |-> IF n = 0 THEN acts ELSE Defer(first[n - 1], local, remote)]
    OBVIOUS
  <2>2. Passes(first, 0)
    BY <2>1
  <2>3. 0 \in 0..N
    OBVIOUS
  <2> HIDE DEF Passes, first
  <2> QED BY <2>2, <2>3
<1>2. ASSUME NEW m \in 0..N, m \in S, m < N PROVE m + 1 \in S
  <2>1. PICK pass : Passes(pass, m)
    BY <1>2
  <2> DEFINE longer == [n \in 0..(m + 1) |-> IF n = m + 1 THEN Defer(pass[m], local, remote) ELSE pass[n]]
  <2>2. ASSUME NEW n \in 0..(m + 1)
        PROVE  longer[n] = IF n = 0 THEN acts ELSE Defer(longer[n - 1], local, remote)
    <3>1. CASE n = m + 1
      <4>1. longer[n] = Defer(pass[m], local, remote) /\ n - 1 = m /\ n # 0 /\ n - 1 \in 0..(m + 1) /\ n - 1 # m + 1
        BY <3>1
      <4>2. longer[n - 1] = pass[m]
        BY <4>1
      <4> QED BY <4>1, <4>2
    <3>2. CASE n # m + 1
      <4>1. n \in 0..m /\ longer[n] = pass[n]
        BY <3>2
      <4>2. pass[n] = IF n = 0 THEN acts ELSE Defer(pass[n - 1], local, remote)
        BY <2>1, <4>1
      <4>3. n # 0 => longer[n - 1] = pass[n - 1]
        BY <4>1
      <4> HIDE DEF longer
      <4> QED BY <4>1, <4>2, <4>3
    <3> QED BY <3>1, <3>2
  <2>3. longer = [n \in 0..(m + 1) |-> longer[n]]
    OBVIOUS
  <2> HIDE DEF longer
  <2>4. Passes(longer, m + 1)
    BY <2>2, <2>3
  <2>5. m + 1 \in 0..N
    BY <1>2
  <2> QED BY <2>4, <2>5
<1> HIDE DEF S
<1>3. 0..N \subseteq S
  BY <1>1, <1>2, Counting
<1>4. N \in S
  BY <1>3
<1>5. PICK pass : Passes(pass, N)
  BY <1>4 DEF S
<1>6. PassesOf(pass, acts, local, remote, N)
  BY <1>5 DEF PassesOf
<1> QED BY <1>6

(* interpret ends with decisions no pass defers, which are those of the plan or conflicts. *)
LEMMA InterpretSettles ==
    ASSUME NEW acts, acts = [k \in GraphKeys |-> acts[k]], NEW local, NEW remote
    PROVE  /\ Defer(Interpret(acts, local, remote), local, remote) = Interpret(acts, local, remote)
           /\ DeferredFrom(Interpret(acts, local, remote), acts, local, remote)
<1> DEFINE N == Cardinality(GraphKeys)
           pass[n \in 0..N] == IF n = 0 THEN acts ELSE Defer(pass[n - 1], local, remote)
           Settled(n) == pass[n] = Defer(pass[n], local, remote)
           last == CHOOSE n \in DOMAIN pass : Settled(n)
<1>1. N \in Nat
  BY GraphKeysFinite, FS_CardinalityType
<1>2. Interpret(acts, local, remote) = pass[last]
  BY DEF Interpret
<1> HIDE DEF N
<1>3. pass = [n \in 0..N |-> IF n = 0 THEN acts ELSE Defer(pass[n - 1], local, remote)]
  <2>1. pass = CHOOSE p : PassesOf(p, acts, local, remote, N)
    BY DEF PassesOf
  <2> HIDE DEF pass
  <2>2. \E p : PassesOf(p, acts, local, remote, N)
    BY <1>1, PassesExist
  <2>3. PassesOf(pass, acts, local, remote, N)
    BY <2>1, <2>2
  <2> QED BY <2>3 DEF PassesOf
<1> HIDE DEF pass
<1>4. 0 \in 0..N /\ pass[0] = acts
  BY <1>1, <1>3
<1>5. \A n \in 0..N : n < N => n + 1 \in 0..N /\ pass[n + 1] = Defer(pass[n], local, remote)
  <2> TAKE n \in 0..N
  <2> HAVE n < N
  <2>1. n + 1 \in 0..N /\ n + 1 # 0 /\ n + 1 - 1 = n
    BY <1>1
  <2> QED BY <1>3, <2>1
<1>6. \A n \in 0..N : DeferredFrom(pass[n], acts, local, remote)
  <2> DEFINE S == {n \in 0..N : DeferredFrom(pass[n], acts, local, remote)}
  <2>1. 0 \in S
    BY <1>4 DEF DeferredFrom
  <2>2. ASSUME NEW n \in 0..N, n \in S, n < N PROVE n + 1 \in S
    BY <1>5, <2>2, PassDefers
  <2> HIDE DEF S
  <2>3. 0..N \subseteq S
    BY <1>1, <2>1, <2>2, Counting
  <2> QED BY <2>3 DEF S
<1>7. \E n \in 0..N : Settled(n)
  <2> SUFFICES ASSUME \A n \in 0..N : ~Settled(n) PROVE FALSE
    OBVIOUS
  <2> DEFINE C(n) == Cardinality(Of(pass[n], {"conflict"}))
             S == {n \in 0..N : C(n) >= n}
  <2>1. \A n \in 0..N : C(n) \in Nat /\ C(n) <= N
    <3> TAKE n \in 0..N
    <3>1. Of(pass[n], {"conflict"}) \subseteq GraphKeys
      BY DEF Of
    <3> QED BY <3>1, GraphKeysFinite, FS_Subset, FS_CardinalityType DEF N
  <2>2. \A n \in 0..N : Cardinality(Of(Defer(pass[n], local, remote), {"conflict"})) > C(n)
    BY <1>6, PassProgresses DEF DeferredFrom
  <2>3. \A n \in 0..N : n < N => C(n + 1) > C(n)
    BY <1>5, <2>2
  <2>4. Cardinality(Of(Defer(pass[N], local, remote), {"conflict"})) <= N
    <3>1. Of(Defer(pass[N], local, remote), {"conflict"}) \subseteq GraphKeys
      BY DEF Of
    <3> QED BY <3>1, GraphKeysFinite, FS_Subset DEF N
  <2> HIDE DEF C
  <2>5. 0 \in S
    BY <1>4, <2>1
  <2>6. ASSUME NEW n \in 0..N, n \in S, n < N PROVE n + 1 \in S
    <3>1. n + 1 \in 0..N /\ C(n + 1) > C(n) /\ C(n) >= n /\ C(n) \in Nat /\ C(n + 1) \in Nat
      BY <1>5, <2>1, <2>3, <2>6
    <3> QED BY <3>1
  <2> HIDE DEF S
  <2>7. 0..N \subseteq S
    BY <1>1, <2>5, <2>6, Counting
  <2>8. C(N) >= N
    BY <1>1, <2>7 DEF S
  <2>9. Cardinality(Of(Defer(pass[N], local, remote), {"conflict"})) > C(N) /\ C(N) \in Nat
    BY <1>1, <2>1, <2>2
  <2>10. Cardinality(Of(Defer(pass[N], local, remote), {"conflict"})) \in Nat
    <3>1. Of(Defer(pass[N], local, remote), {"conflict"}) \subseteq GraphKeys
      BY DEF Of
    <3> QED BY <3>1, GraphKeysFinite, FS_Subset, FS_CardinalityType
  <2> QED BY <1>1, <2>4, <2>8, <2>9, <2>10
<1>8. DOMAIN pass = 0..N
  BY <1>3
<1>9. last \in 0..N /\ Settled(last)
  BY <1>7, <1>8
<1> QED BY <1>2, <1>6, <1>9

-----------------------------------------------------------------------------
(* What reconcile plans for one key.                                        *)
GraphRow == P!MaybeRow
NoScores == [k \in GraphKeys |-> P!NoScore]

LEMMA ActIs ==
    /\ \A type : P!Act(type).type = type /\ P!Act(type).reason = ""
    /\ \A row : P!ApplyRemote(row).type = "apply-remote" /\ P!ApplyRemote(row).row = row
                /\ P!ApplyRemote(row).reason = ""
    /\ \A high : P!RaiseHighScore(high).type = "raise-high-score" /\ P!RaiseHighScore(high).reason = ""
BY DEF P!Act, P!ApplyRemote, P!RaiseHighScore, P!NoScore

PlannedFor(act, l, r) ==
    /\ act.reason # "natural-key"
    /\ act.type = "apply-remote" => r # Absent /\ act.row = r
    /\ l = Absent /\ r # Absent => act.type \notin {"none", "unchanged"}

LEMMA KeyIs ==
    ASSUME NEW est, NEW base, NEW high, NEW l \in GraphRow, NEW r \in GraphRow, NEW gone, NEW tombed,
           gone => r = Absent
    PROVE  PlannedFor(P!KeyAction(est, base, high, l, r, gone, tombed), l, r)
<1> DEFINE act == P!KeyAction(est, base, high, l, r, gone, tombed)
<1> SUFFICES PlannedFor(act, l, r)
  OBVIOUS
<1>1. ASSUME NEW x, NEW y
      PROVE  /\ P!ClassifyBoth(x, y).type # "apply-remote"
             /\ P!ClassifyBoth(x, y).reason # "natural-key"
  <2>1. P!ClassifyBoth(x, y) \in {P!Act("unchanged"), P!RaiseHighScore(P!MaxScore({x.score, y.score})),
                                  P!Conflict("diverged")}
    BY DEF P!ClassifyBoth
  <2> QED BY <2>1, ActIs, ConflictIs
<1>2. ASSUME r # Absent
      PROVE  LET both == P!ClassifyEstablished(base, high, l, r)
             IN  /\ both.reason # "natural-key"
                 /\ both.type = "apply-remote" => both.row = r
  <2> DEFINE top == P!MaxScore({l.score, r.score, IF base = Absent THEN P!NoScore ELSE high})
             localRow == P!PreserveHighScore(l, top)
             remoteRow == P!PreserveHighScore(r, top)
             both == P!ClassifyEstablished(base, high, l, r)
  <2> SUFFICES both.reason # "natural-key" /\ (both.type = "apply-remote" => both.row = r)
    OBVIOUS
  <2>1. remoteRow = r
    <3> HIDE DEF top
    <3>1. r.score = P!NoScore
      <4>1. r \in P!Row
        BY <1>2 DEF GraphRow, P!MaybeRow
      <4>2. r.score = 0 - 1
        BY <4>1 DEF P!Row
      <4>3. P!NoScore = 0 - 1
        BY DEF P!NoScore
      <4> QED BY <4>2, <4>3
    <3> QED BY <3>1 DEF P!PreserveHighScore
  <2>2. both \in {P!RaiseHighScore(top), P!Act("pending-local"), P!Act("unchanged"), P!ApplyRemote(remoteRow),
                  P!ClassifyBoth(localRow, remoteRow)}
    <3>1. both =
            CASE localRow = remoteRow /\ l.score < top /\ l.score # P!NoScore -> P!RaiseHighScore(top)
              [] localRow = remoteRow /\ l.score \in {top, P!NoScore}
                    /\ r.score < top /\ r.score # P!NoScore -> P!Act("pending-local")
              [] localRow = remoteRow /\ l.score \in {top, P!NoScore}
                    /\ r.score \in {top, P!NoScore} -> P!Act("unchanged")
              [] localRow # remoteRow /\ base # Absent /\ l = base -> P!ApplyRemote(remoteRow)
              [] localRow # remoteRow /\ base # Absent /\ l # base /\ r = base -> P!Act("pending-local")
              [] OTHER -> P!ClassifyBoth(localRow, remoteRow)
      BY DEF P!ClassifyEstablished
    <3> HIDE DEF top, localRow, remoteRow, both
    <3> QED BY <3>1
  <2> HIDE DEF top, localRow, remoteRow, both
  <2>3. CASE both = P!ClassifyBoth(localRow, remoteRow)
    BY <1>1, <2>3
  <2>4. CASE both = P!ApplyRemote(remoteRow)
    BY <2>1, <2>4, ActIs
  <2>5. CASE both \in {P!RaiseHighScore(top), P!Act("pending-local"), P!Act("unchanged")}
    <3>1. both.reason = "" /\ both.type \in {"raise-high-score", "pending-local", "unchanged"}
      BY <2>5, ActIs
    <3> QED BY <3>1
  <2> QED BY <2>2, <2>3, <2>4, <2>5
<1>3. CASE tombed /\ l # Absent
  <2>1. act = P!Conflict("resurrection")
    BY <1>3 DEF P!KeyAction
  <2> HIDE DEF act
  <2> QED BY <1>3, <2>1, ConflictIs DEF PlannedFor
<1>4. CASE ~(tombed /\ l # Absent) /\ ~est
  <2>1. act = P!BootstrapAction(l, r, gone)
    BY <1>4 DEF P!KeyAction
  <2>2. CASE ~gone /\ l # Absent /\ r # Absent
    <3>1. act = P!ClassifyBoth(l, r)
      BY <2>1, <2>2 DEF P!BootstrapAction
    <3> HIDE DEF act
    <3> QED BY <1>1, <2>2, <3>1 DEF PlannedFor
  <2>3. CASE ~gone /\ l = Absent /\ r # Absent
    <3>1. act = P!ApplyRemote(r)
      BY <2>1, <2>3 DEF P!BootstrapAction
    <3> HIDE DEF act
    <3> QED BY <2>3, <3>1, ActIs DEF PlannedFor
  <2>4. CASE gone \/ r = Absent
    <3>1. act \in {P!Conflict("tombstone"), P!Act("adopt-tombstone"), P!Act("pending-local"), P!Act("none")}
      BY <2>1, <2>4 DEF P!BootstrapAction
    <3> HIDE DEF act
    <3> QED BY <2>4, <3>1, ActIs, ConflictIs DEF PlannedFor
  <2> QED BY <2>2, <2>3, <2>4
<1>5. CASE ~(tombed /\ l # Absent) /\ est
  <2>1. act = P!LinkedAction(base, high, l, r, gone, tombed)
    BY <1>5 DEF P!KeyAction
  <2>2. CASE ~gone /\ l # Absent /\ r # Absent
    <3>1. act = P!ClassifyEstablished(base, high, l, r)
      BY <2>1, <2>2 DEF P!LinkedAction
    <3> HIDE DEF act
    <3> QED BY <1>2, <2>2, <3>1 DEF PlannedFor
  <2>3. CASE ~gone /\ l = Absent /\ r # Absent
    <3>1. act \in {P!ApplyRemote(r), P!Act("publish-tombstone"), P!Conflict("deleted-locally")}
      BY <2>1, <2>3 DEF P!LinkedAction
    <3> HIDE DEF act
    <3> QED BY <2>3, <3>1, ActIs, ConflictIs DEF PlannedFor
  <2>4. CASE gone \/ r = Absent
    <3>1. act \in {P!Act("delete-local"), P!Conflict("tombstone"), P!Act("unchanged"), P!Act("publish-tombstone"),
                   P!Act("adopt-tombstone"), P!Act("pending-local"), P!Act("none")}
      BY <2>1, <2>4 DEF P!LinkedAction
    <3>2. r = Absent
      BY <2>4
    <3> HIDE DEF act
    <3>3. CASE act = P!Conflict("tombstone")
      BY <3>2, <3>3, ConflictIs DEF PlannedFor
    <3>4. CASE act # P!Conflict("tombstone")
      <4>1. PICK type \in {"delete-local", "unchanged", "publish-tombstone", "adopt-tombstone", "pending-local",
                           "none"} : act = P!Act(type)
        BY <3>1, <3>4
      <4>2. act.type = type /\ act.reason = "" /\ type # "apply-remote"
        BY <4>1, ActIs
      <4> QED BY <3>2, <4>2 DEF PlannedFor
    <3> QED BY <3>3, <3>4
  <2> QED BY <2>2, <2>3, <2>4
<1> QED BY <1>3, <1>4, <1>5

\* The plan of a device that may read its head.
Plan(d) == P!Reconcile(joined[d], known[d].base, NoScores, store[d], head.rows, head.tombs, known[d].tombs)

LEMMA PlanIs ==
    ASSUME NEW d \in Devices, store[d] \in [GraphKeys -> GraphRow], head.rows \in [GraphKeys -> GraphRow], Valid(d)
    PROVE  /\ Plan(d) = [k \in GraphKeys |-> Plan(d)[k]]
           /\ \A k \in GraphKeys :
                 PlannedFor(Plan(d)[k], store[d][k], head.rows[k])
<1> DEFINE Key(k) == P!KeyAction(joined[d], known[d].base[k], NoScores[k], store[d][k], head.rows[k],
                                 k \in head.tombs, k \in known[d].tombs)
<1>1. Plan(d) = [k \in GraphKeys |-> Key(k)]
  <2>1. \A k \in GraphKeys : ~P!UnsafeFocus(k, Key(k), store[d])
    <3> HIDE DEF Key
    <3>1. ASSUME NEW k \in GraphKeys PROVE ~P!UnsafeFocus(k, Key(k), store[d])
      BY DEF P!UnsafeFocus
    <3> QED BY <3>1
  <2> HIDE DEF Key
  <2> QED BY <2>1 DEF Plan, P!Reconcile, Key
<1>2. ASSUME NEW k \in GraphKeys
      PROVE  PlannedFor(Key(k), store[d][k], head.rows[k])
  <2>1. k \in head.tombs => head.rows[k] = Absent
    BY DEF Valid, P!InvalidHead
  <2>2. store[d][k] \in GraphRow /\ head.rows[k] \in GraphRow
    OBVIOUS
  <2> QED BY <2>1, <2>2, KeyIs
<1> HIDE DEF Key
<1> QED BY <1>1, <1>2

\* A plan no pass defers has nothing to defer.
LEMMA SettledIs ==
    ASSUME NEW acts, acts = [k \in GraphKeys |-> acts[k]], NEW local, NEW remote, Defer(acts, local, remote) = acts
    PROVE  Clashing(acts, local, remote) = {} /\ Busy(acts, local, remote) = {} /\ Orphaned(acts, local, remote) = {}
<1>1. acts = [k \in GraphKeys |->
                IF k \in Clashing(acts, local, remote) THEN P!Conflict("natural-key")
                ELSE IF k \in Busy(acts, local, remote) \cup Orphaned(acts, local, remote)
                     THEN P!Conflict("parent-child") ELSE acts[k]]
  BY OnePass
<1>2. ASSUME NEW k \in Clashing(acts, local, remote) PROVE FALSE
  <2>1. k \in GraphKeys /\ acts[k].type = "apply-remote"
    BY DEF Clashing, Of
  <2>2. acts[k] = P!Conflict("natural-key")
    BY <1>1, <1>2, <2>1
  <2> QED BY <2>1, <2>2, ConflictIs
<1>3. ASSUME NEW k \in Busy(acts, local, remote) \cup Orphaned(acts, local, remote) PROVE FALSE
  <2>1. k \in GraphKeys /\ acts[k].type # "conflict"
    BY DEF Busy, Orphaned, Retiring, Of
  <2>2. k \notin Clashing(acts, local, remote)
    BY <1>2
  <2>3. acts[k] = P!Conflict("parent-child")
    BY <1>1, <1>3, <2>1, <2>2
  <2> QED BY <2>1, <2>3, ConflictIs
<1> QED BY <1>2, <1>3

LEMMA AppliedIs ==
    ASSUME NEW acts, NEW local, local = [k \in GraphKeys |-> local[k]]
    PROVE  Applied(acts, local) = [k \in GraphKeys |->
              IF k \in Retiring(acts) THEN Absent ELSE IF k \in Of(acts, {"apply-remote"}) THEN acts[k].row ELSE local[k]]
<1>1. DOMAIN local = GraphKeys
  OBVIOUS
<1> QED BY <1>1 DEF Applied, Without, Over

(* A plan that is settled leaves parents to every row and one row to every name. *)
LEMMA SettledFits ==
    ASSUME NEW acts, acts = [k \in GraphKeys |-> acts[k]],
           NEW local \in [GraphKeys -> GraphRow], NEW remote \in [GraphKeys -> GraphRow],
           WellFormed(local), WellFormed(remote), Defer(acts, local, remote) = acts,
           \A k \in GraphKeys : PlannedFor(acts[k], local[k], remote[k]) \/ acts[k].type = "conflict"
    PROVE  WellFormed(Applied(acts, local))
<1> DEFINE rows == Applied(acts, local)
           gone == Retiring(acts)
           taken == Of(acts, {"apply-remote"})
<1>1. rows = [k \in GraphKeys |-> IF k \in gone THEN Absent ELSE IF k \in taken THEN acts[k].row ELSE local[k]]
  BY AppliedIs
<1>2. Clashing(acts, local, remote) = {} /\ Busy(acts, local, remote) = {} /\ Orphaned(acts, local, remote) = {}
  BY SettledIs
<1>3. \A k \in taken : k \in GraphKeys /\ k \notin gone /\ acts[k].row = remote[k] /\ remote[k] # Absent
  BY DEF Of, Retiring, PlannedFor
<1>4. \A k \in GraphKeys : Parents(k) \subseteq GraphKeys
  BY DEF Parents, GraphKeys, ItemKeys, CategoryKeys, LinkKeys
<1>5. \A k \in GraphKeys : k \in gone <=> acts[k].type \in {"delete-local", "adopt-tombstone"}
  BY DEF Retiring
<1> HIDE DEF rows, gone
<1>6. ASSUME NEW k \in RowsIn(rows), NEW p \in Parents(k) PROVE p \in RowsIn(rows)
  <2>1. k \in GraphKeys /\ rows[k] # Absent /\ p \in GraphKeys /\ k \notin gone
    BY <1>1, <1>4, <1>6 DEF RowsIn
  <2>2. SUFFICES rows[p] # Absent
    BY <2>1 DEF RowsIn
  <2>3. CASE k \in taken
    <3>1. ParentAvailable(acts, local, remote, p)
      BY <1>2, <1>6, <2>3 DEF Orphaned
    <3>2. CASE acts[p].type = "apply-remote"
      <4>1. p \in taken
        BY <2>1, <3>2 DEF Of
      <4> QED BY <1>1, <1>3, <2>1, <4>1
    <3>3. CASE local[p] # Absent /\ acts[p].type \notin {"delete-local", "adopt-tombstone", "publish-tombstone", "conflict"}
      <4>1. p \notin gone
        BY <1>5, <2>1, <3>3
      <4> QED BY <1>1, <1>3, <2>1, <3>3, <4>1
    <3>4. CASE local[p] = Absent /\ remote[p] # Absent /\ acts[p].type \in {"none", "unchanged"}
      BY <2>1, <3>4 DEF PlannedFor
    <3> QED BY <3>1, <3>2, <3>3, <3>4 DEF ParentAvailable
  <2>4. CASE k \notin taken
    <3>1. local[k] # Absent
      BY <1>1, <2>1, <2>4
    <3>2. p \in RowsIn(local)
      BY <1>6, <2>1, <3>1 DEF WellFormed, RowsIn
    <3>3. p \notin gone
      <4> SUFFICES ASSUME p \in gone PROVE FALSE
        OBVIOUS
      <4>1. k \in Children(local, p) \ gone
        BY <1>6, <2>1, <3>1 DEF Children, RowsIn
      <4>2. p \in Busy(acts, local, remote)
        BY <4>1 DEF Busy, ChildBusy, gone
      <4> QED BY <1>2, <4>2
    <3>4. CASE p \in taken
      BY <1>1, <1>3, <2>1, <3>4
    <3>5. CASE p \notin taken
      BY <1>1, <2>1, <3>2, <3>3, <3>5 DEF RowsIn
    <3> QED BY <3>4, <3>5
  <2> QED BY <2>3, <2>4
<1>7. ASSUME NEW a \in CategoryKeys \cap RowsIn(rows), NEW b \in CategoryKeys \cap RowsIn(rows), rows[a] = rows[b]
      PROVE  a = b
  <2>1. /\ a \in GraphKeys /\ b \in GraphKeys /\ a \notin gone /\ b \notin gone
        /\ rows[a] # Absent /\ rows[b] # Absent
    BY <1>1, <1>7 DEF RowsIn
  <2>2. ASSUME NEW x \in CategoryKeys, NEW y \in CategoryKeys, x \in taken, y \in GraphKeys, y \notin taken,
               y \notin gone, local[y] # Absent, local[y] = remote[x], x # y
        PROVE  FALSE
    <3>1. y \in SameName(acts, local, remote, x)
      BY <2>2 DEF SameName, gone
    <3>2. x \in Clashing(acts, local, remote)
      BY <2>2, <3>1 DEF Clashing, Collides
    <3> QED BY <1>2, <3>2
  <2>3. CASE a \in taken /\ b \in taken
    <3>1. rows[a] = remote[a] /\ rows[b] = remote[b] /\ remote[a] # Absent /\ remote[b] # Absent
      BY <1>1, <1>3, <2>1, <2>3
    <3> QED BY <1>7, <2>1, <3>1 DEF WellFormed, RowsIn
  <2>4. CASE a \notin taken /\ b \notin taken
    <3>1. rows[a] = local[a] /\ rows[b] = local[b]
      BY <1>1, <2>1, <2>4
    <3> QED BY <1>7, <2>1, <3>1 DEF WellFormed, RowsIn
  <2>5. CASE a \in taken /\ b \notin taken
    <3>1. rows[a] = remote[a] /\ rows[b] = local[b]
      BY <1>1, <1>3, <2>1, <2>5
    <3> QED BY <1>7, <2>1, <2>2, <2>5, <3>1
  <2>6. CASE a \notin taken /\ b \in taken
    <3>1. rows[a] = local[a] /\ rows[b] = remote[b]
      BY <1>1, <1>3, <2>1, <2>6
    <3> QED BY <1>7, <2>1, <2>2, <2>6, <3>1
  <2> QED BY <2>3, <2>4, <2>5, <2>6
<1> QED BY <1>6, <1>7 DEF WellFormed, rows

\* A deletion taken back stays or waits for its review, as the conflict it was.
LEMMA RevivedFits ==
    ASSUME NEW acts, acts = [k \in GraphKeys |-> acts[k]], NEW local, local = [k \in GraphKeys |-> local[k]],
           NEW remote, NEW revive, revive \cap Of(acts, {"delete-local"}) = {}
    PROVE  Applied(Revived(acts, local, remote, revive), local) = Applied(acts, local)
<1> DEFINE back == revive \cap RowsIn(local) \cap (Of(acts, {"delete-local"}) \cup (Of(acts, {"conflict"}) \ RowsIn(remote)))
           then == Revived(acts, local, remote, revive)
<1>1. then = [k \in GraphKeys |-> IF k \in back THEN P!Act("pending-local") ELSE acts[k]]
  <2>1. DOMAIN acts = GraphKeys
    OBVIOUS
  <2> QED BY <2>1 DEF Revived, Over
<1>2. \A k \in back : acts[k].type = "conflict"
  BY DEF Of
<1> HIDE DEF back, then
<1>3. \A k \in GraphKeys : then[k] = acts[k] \/ (acts[k].type = "conflict" /\ then[k].type = "pending-local")
  BY <1>1, <1>2, ActIs
<1>4. Retiring(then) = Retiring(acts) /\ Of(then, {"apply-remote"}) = Of(acts, {"apply-remote"})
  BY <1>3 DEF Retiring, Of
<1>5. \A k \in Of(acts, {"apply-remote"}) : then[k] = acts[k]
  BY <1>3 DEF Of
<1> QED BY <1>4, <1>5, AppliedIs DEF then

-----------------------------------------------------------------------------
(* What devices hold is well formed, and so is the head; the conflict of two names is  *)
(* about two categories.                                                               *)
RowsFit ==
    /\ store \in [Devices -> [GraphKeys -> GraphRow]]
    /\ \A d \in Devices : WellFormed(store[d])
HeadFits == head.rows \in [GraphKeys -> GraphRow] /\ WellFormed(head.rows)
DisputeFits(c, k) ==
    c # Absent => c.remote \in GraphRow /\ (c.key # k => k \in CategoryKeys /\ c.key \in CategoryKeys)
DisputesFit ==
    /\ dispute = [d \in Devices |-> dispute[d]]
    /\ \A d \in Devices : /\ dispute[d] = [k \in GraphKeys |-> dispute[d][k]]
                          /\ \A k \in GraphKeys : DisputeFits(dispute[d][k], k)
GraphInv == RowsFit /\ HeadFits /\ DisputesFit

LEMMA AbsentIsRow == Absent \in GraphRow
BY DEF GraphRow, P!MaybeRow

LEMMA WithoutTyped ==
    ASSUME NEW rows \in [GraphKeys -> GraphRow], NEW gone
    PROVE  Without(rows, gone) \in [GraphKeys -> GraphRow]
           /\ \A k \in GraphKeys : Without(rows, gone)[k] = IF k \in gone THEN Absent ELSE rows[k]
BY AbsentIsRow DEF Without

LEMMA OverTyped ==
    ASSUME NEW rows \in [GraphKeys -> GraphRow], NEW changes,
           \A k \in DOMAIN changes \cap GraphKeys : changes[k] \in GraphRow
    PROVE  Over(changes, rows) \in [GraphKeys -> GraphRow]
           /\ \A k \in GraphKeys : Over(changes, rows)[k] = IF k \in DOMAIN changes THEN changes[k] ELSE rows[k]
BY DEF Over

LEMMA BodiesAreRows ==
    \A text \in Texts \cup Names \cup {""} : Body(text) \in GraphRow
BY DEF Body, GraphRow, P!MaybeRow, P!Row

LEMMA KeysApart ==
    /\ \A k \in LinkKeys : k \notin ItemKeys /\ k \notin CategoryKeys
    /\ \A k \in GraphKeys : \A p \in Parents(k) : p \in ItemKeys \cup CategoryKeys
    /\ \A k \in GraphKeys : Parents(k) # {} => k \in LinkKeys
<1>1. \A k \in LinkKeys : Len(k) = 2
  BY DEF LinkKeys
<1>2. \A k \in ItemKeys \cup CategoryKeys : Len(k) = 1
  BY DEF ItemKeys, CategoryKeys
<1>3. \A k \in LinkKeys : Parents(k) \subseteq ItemKeys \cup CategoryKeys
  BY DEF LinkKeys, Parents, ItemKeys, CategoryKeys
<1>4. \A k \in ItemKeys \cup CategoryKeys : Parents(k) = {}
  BY <1>2 DEF Parents
<1> QED BY <1>1, <1>2, <1>3, <1>4 DEF GraphKeys

(* A row that goes takes what refers to it along. *)
LEMMA CascadeFits ==
    ASSUME NEW rows \in [GraphKeys -> GraphRow], WellFormed(rows), NEW k \in GraphKeys
    PROVE  WellFormed(Without(rows, Cascade(rows, k)))
<1> DEFINE left == Without(rows, Cascade(rows, k))
<1>1. \A j \in GraphKeys : left[j] = IF j \in Cascade(rows, k) THEN Absent ELSE rows[j]
  BY WithoutTyped
<1> HIDE DEF left
<1>2. ASSUME NEW j \in RowsIn(left), NEW p \in Parents(j) PROVE p \in RowsIn(left)
  <2>1. j \in GraphKeys /\ j \notin Cascade(rows, k) /\ j \in RowsIn(rows)
    BY <1>1 DEF RowsIn
  <2>2. p \in RowsIn(rows) /\ p \in GraphKeys
    BY <1>2, <2>1 DEF WellFormed, RowsIn
  <2>3. p # k
    BY <1>2, <2>1 DEF Cascade, Children
  <2>4. p \notin Children(rows, k)
    <3>1. p \notin LinkKeys
      BY <1>2, <2>1, KeysApart
    <3>2. Parents(p) = {}
      BY <2>2, <3>1, KeysApart
    <3> QED BY <3>2 DEF Children
  <2>5. p \notin Cascade(rows, k)
    BY <2>3, <2>4 DEF Cascade
  <2> QED BY <1>1, <2>2, <2>5 DEF RowsIn
<1>3. ASSUME NEW a \in CategoryKeys \cap RowsIn(left), NEW b \in CategoryKeys \cap RowsIn(left), left[a] = left[b]
      PROVE  a = b
  <2>1. a \in RowsIn(rows) /\ b \in RowsIn(rows) /\ rows[a] = rows[b]
    BY <1>1, <1>3 DEF RowsIn
  <2> QED BY <2>1 DEF WellFormed
<1> QED BY <1>2, <1>3 DEF WellFormed, left

(* Links that move to the category that stays. *)
LEMMA MovedFits ==
    ASSUME NEW d, NEW rows \in [GraphKeys -> GraphRow], WellFormed(rows), NEW from, NEW to \in CategoryIds
    PROVE  Moved(d, rows, from, to) \in [GraphKeys -> GraphRow] /\ WellFormed(Moved(d, rows, from, to))
<1> DEFINE moves == LinksOn(d, from) \cup Deferred(d, from, to)
           kept == {<<m[1], to>> : m \in moves}
           back == {l \in kept : Parents(l) \subseteq RowsIn(rows)}
           moved == Moved(d, rows, from, to)
<1>1. moves \subseteq LinkKeys
  BY DEF LinksOn, Deferred
<1> HIDE DEF moves
<1>2. back \subseteq LinkKeys
  BY <1>1 DEF LinkKeys
<1>3. /\ moved \in [GraphKeys -> GraphRow]
      /\ \A k \in GraphKeys : moved[k] = IF k \in back THEN LinkBody ELSE IF k \in moves THEN Absent ELSE rows[k]
  <2>1. moved = Over([k \in back |-> LinkBody], Without(rows, moves))
    BY DEF Moved, moves
  <2>2. LinkBody \in GraphRow
    BY BodiesAreRows DEF LinkBody
  <2> HIDE DEF back
  <2>3. Without(rows, moves) \in [GraphKeys -> GraphRow]
    BY WithoutTyped
  <2>4. \A k \in GraphKeys : Without(rows, moves)[k] = IF k \in moves THEN Absent ELSE rows[k]
    BY WithoutTyped
  <2> DEFINE changes == [k \in back |-> LinkBody]
  <2>5. DOMAIN changes = back /\ \A k \in back : changes[k] = LinkBody
    OBVIOUS
  <2> HIDE DEF changes, moved
  <2>6. Over(changes, Without(rows, moves)) \in [GraphKeys -> GraphRow]
    BY <2>2, <2>3, <2>5, OverTyped
  <2>7. \A k \in GraphKeys : Over(changes, Without(rows, moves))[k]
                               = IF k \in back THEN LinkBody ELSE Without(rows, moves)[k]
    BY <2>2, <2>3, <2>5, OverTyped
  <2> QED BY <2>1, <2>4, <2>6, <2>7 DEF changes
<1> HIDE DEF moved
<1>4. \A k \in GraphKeys : k \notin LinkKeys => moved[k] = rows[k]
  BY <1>1, <1>2, <1>3
<1>5. ASSUME NEW k \in RowsIn(moved), NEW p \in Parents(k) PROVE p \in RowsIn(moved)
  <2>1. k \in GraphKeys /\ moved[k] # Absent
    BY DEF RowsIn
  <2>2. p \in RowsIn(rows)
    <3>1. CASE k \in back
      BY <1>5, <3>1
    <3>2. CASE k \notin back
      <4>1. k \in RowsIn(rows)
        BY <1>3, <2>1, <3>2 DEF RowsIn
      <4> QED BY <1>5, <4>1 DEF WellFormed
    <3> QED BY <3>1, <3>2
  <2>3. p \in GraphKeys /\ p \notin LinkKeys
    BY <1>5, <2>1, <2>2, KeysApart DEF RowsIn
  <2> QED BY <1>4, <2>2, <2>3 DEF RowsIn
<1>6. ASSUME NEW a \in CategoryKeys \cap RowsIn(moved), NEW b \in CategoryKeys \cap RowsIn(moved), moved[a] = moved[b]
      PROVE  a = b
  <2>1. a \in GraphKeys /\ b \in GraphKeys /\ a \notin LinkKeys /\ b \notin LinkKeys
    BY KeysApart DEF RowsIn
  <2>2. rows[a] = moved[a] /\ rows[b] = moved[b]
    BY <1>4, <2>1
  <2> QED BY <1>6, <2>2 DEF WellFormed, RowsIn
<1>7. WellFormed(moved)
  BY <1>5, <1>6 DEF WellFormed
<1> QED BY <1>3, <1>7 DEF moved

(* What a device decides on a head it may read. *)
LEMMA DecisionIs ==
    ASSUME GraphInv, NEW d \in Devices, Valid(d)
    PROVE  LET acts == Decide(d)
           IN  /\ \A k \in Of(acts, {"apply-remote"}) : acts[k].row \in GraphRow
               /\ \A k \in Of(acts, {"conflict"}) : acts[k].reason = "natural-key" =>
                     k \in CategoryKeys /\ \E c \in CategoryKeys :
                        c # k /\ store[d][c] # Absent /\ store[d][c] = head.rows[k]
<1> DEFINE plan == Plan(d)
           settled == Interpreted(d)
           acts == Decide(d)
           remote == head.rows
           back == known[d].revive \cap RowsIn(store[d])
                     \cap (Of(settled, {"delete-local"}) \cup (Of(settled, {"conflict"}) \ RowsIn(remote)))
<1>1. store[d] \in [GraphKeys -> GraphRow] /\ remote \in [GraphKeys -> GraphRow]
  BY DEF GraphInv, RowsFit, HeadFits
<1>2. plan = [k \in GraphKeys |-> plan[k]] /\ \A k \in GraphKeys : PlannedFor(plan[k], store[d][k], remote[k])
  BY <1>1, PlanIs
<1>3. settled = Interpret(plan, store[d], remote)
  BY DEF Interpreted, Plan, NoScores
<1>4. DeferredFrom(settled, plan, store[d], remote)
  BY <1>2, <1>3, InterpretSettles
<1>5. acts = [k \in GraphKeys |-> IF k \in back THEN P!Act("pending-local") ELSE settled[k]]
  <2>1. acts = Over([k \in back |-> P!Act("pending-local")], settled)
    BY DEF Decide, Revived
  <2>2. DOMAIN settled = GraphKeys
    BY <1>4 DEF DeferredFrom
  <2> HIDE DEF back, settled, acts
  <2> QED BY <2>1, <2>2 DEF Over
<1> HIDE DEF acts, back, settled, plan
<1>6. ASSUME NEW k \in Of(acts, {"apply-remote"}) PROVE acts[k].row \in GraphRow
  <2>1. k \in GraphKeys /\ acts[k].type = "apply-remote"
    BY <1>6 DEF Of
  <2>2. acts[k] = settled[k]
    BY <1>5, <2>1, ActIs
  <2>3. acts[k] = plan[k]
    BY <1>4, <2>1, <2>2 DEF DeferredFrom
  <2> QED BY <1>1, <1>2, <2>1, <2>3 DEF PlannedFor
<1>7. ASSUME NEW k \in Of(acts, {"conflict"}), acts[k].reason = "natural-key"
      PROVE  k \in CategoryKeys /\ \E c \in CategoryKeys : c # k /\ store[d][c] # Absent /\ store[d][c] = remote[k]
  <2>1. k \in GraphKeys /\ acts[k].type = "conflict"
    BY <1>7 DEF Of
  <2>2. acts[k] = settled[k]
    BY <1>5, <2>1, ActIs
  <2>3. plan[k].reason # "natural-key"
    BY <1>2, <2>1 DEF PlannedFor
  <2> QED BY <1>4, <1>7, <2>1, <2>2, <2>3 DEF DeferredFrom
<1> QED BY <1>6, <1>7 DEF acts

LEMMA AppliedTyped ==
    ASSUME NEW acts, NEW local \in [GraphKeys -> GraphRow], \A k \in Of(acts, {"apply-remote"}) : acts[k].row \in GraphRow
    PROVE  Applied(acts, local) \in [GraphKeys -> GraphRow]
<1>1. Over([k \in Of(acts, {"apply-remote"}) |-> acts[k].row], local) \in [GraphKeys -> GraphRow]
  BY OverTyped
<1> QED BY <1>1, WithoutTyped DEF Applied

LEMMA PublicationTyped ==
    ASSUME NEW acts, NEW before, NEW local \in [GraphKeys -> GraphRow], NEW tombs,
           NEW remote \in [GraphKeys -> GraphRow], NEW revive
    PROVE  Publication(acts, before, local, tombs, remote, revive).rows \in [GraphKeys -> GraphRow]
<1> DEFINE outbound == Chosen(acts, before, local, remote)
<1>1. Over([k \in Of(acts, {"pending-local"}) |-> local[k]], remote) \in [GraphKeys -> GraphRow]
  BY OverTyped DEF Of
<1>2. outbound \in [GraphKeys -> GraphRow]
  BY <1>1, WithoutTyped DEF Chosen
<1> HIDE DEF outbound
<1>3. Without(outbound, Stripped(outbound)) \in [GraphKeys -> GraphRow]
  BY <1>2, WithoutTyped
<1> QED BY <1>3 DEF Publication, outbound

LEMMA CycleFits == ASSUME GraphInv, NEW d \in Devices, Cycle(d) PROVE GraphInv'
<1> DEFINE acts == Decide(d)
           local == Applied(acts, store[d])
           next == Publication(acts, store[d], local, head.tombs, head.rows, known[d].revive)
<1>1. /\ Valid(d) /\ WellFormed(local)
      /\ store' = [store EXCEPT ![d] = local]
      /\ dispute' = [dispute EXCEPT ![d] = Remembered(d, acts)]
      /\ head' = head \/ (WellFormed(next.rows) /\ head' = next)
  BY DEF Cycle
<1>2. /\ \A k \in Of(acts, {"apply-remote"}) : acts[k].row \in GraphRow
      /\ \A k \in Of(acts, {"conflict"}) : acts[k].reason = "natural-key" =>
            k \in CategoryKeys /\ \E c \in CategoryKeys :
               c # k /\ store[d][c] # Absent /\ store[d][c] = head.rows[k]
  BY <1>1, DecisionIs
<1> HIDE DEF acts
<1>3. store[d] \in [GraphKeys -> GraphRow] /\ head.rows \in [GraphKeys -> GraphRow]
  BY DEF GraphInv, RowsFit, HeadFits
<1>4. local \in [GraphKeys -> GraphRow]
  BY <1>2, <1>3, AppliedTyped
<1> HIDE DEF local
<1>5. next.rows \in [GraphKeys -> GraphRow]
  BY <1>3, <1>4, PublicationTyped
<1> HIDE DEF next
<1>6. RowsFit'
  BY <1>1, <1>4 DEF GraphInv, RowsFit
<1>7. HeadFits'
  BY <1>1, <1>5 DEF GraphInv, HeadFits
<1>8. DisputesFit'
  <2> DEFINE images == [k \in Of(acts, {"conflict"}) |-> Image(d, acts, k)]
             then == Remembered(d, acts)
  <2>1. ASSUME NEW k \in Of(acts, {"conflict"}) PROVE DisputeFits(images[k], k)
    <3> DEFINE l == LocalKey(acts, store[d], head.rows, k)
    <3>1. images[k].key = l /\ images[k].remote = head.rows[k]
      BY <2>1 DEF Image
    <3>2. CASE acts[k].reason = "natural-key"
      <4>1. l = CHOOSE c \in CategoryKeys : c # k /\ store[d][c] # Absent /\ store[d][c] = head.rows[k]
        BY <3>2 DEF LocalKey
      <4>2. l \in CategoryKeys /\ k \in CategoryKeys
        BY <1>2, <2>1, <3>2, <4>1
      <4>3. k \in GraphKeys
        BY <2>1 DEF Of
      <4> QED BY <1>3, <3>1, <4>2, <4>3 DEF DisputeFits
    <3>3. CASE acts[k].reason # "natural-key"
      <4>1. l = k
        BY <3>3 DEF LocalKey
      <4>2. k \in GraphKeys
        BY <2>1 DEF Of
      <4> QED BY <1>3, <3>1, <4>1, <4>2 DEF DisputeFits
    <3> QED BY <3>2, <3>3
  <2>2. then = Over(images, dispute[d]) /\ DOMAIN images = Of(acts, {"conflict"})
    BY DEF Remembered
  <2>3. dispute[d] = [k \in GraphKeys |-> dispute[d][k]] /\ \A k \in GraphKeys : DisputeFits(dispute[d][k], k)
    BY DEF GraphInv, DisputesFit
  <2> HIDE DEF images, then
  <2>4. DOMAIN dispute[d] = GraphKeys
    BY <2>3
  <2>5. then = [k \in GraphKeys |-> IF k \in Of(acts, {"conflict"}) THEN images[k] ELSE dispute[d][k]]
    BY <2>2, <2>4 DEF Over
  <2>6. then = [k \in GraphKeys |-> then[k]] /\ \A k \in GraphKeys : DisputeFits(then[k], k)
    BY <2>1, <2>3, <2>5
  <2>7. dispute' = [dispute EXCEPT ![d] = then]
    BY <1>1 DEF then
  <2> QED BY <2>6, <2>7 DEF GraphInv, DisputesFit, DisputeFits
<1> QED BY <1>6, <1>7, <1>8 DEF GraphInv

\* Closing conflicts leaves the others as they are.
LEMMA CloseFits ==
    ASSUME DisputesFit, NEW d \in Devices, NEW keys, Close(d, keys)
    PROVE  DisputesFit'
<1> DEFINE then == Without(dispute[d], keys)
<1>1. dispute[d] = [k \in GraphKeys |-> dispute[d][k]] /\ \A k \in GraphKeys : DisputeFits(dispute[d][k], k)
  BY DEF DisputesFit
<1>2. DOMAIN dispute[d] = GraphKeys
  BY <1>1
<1>3. then = [k \in GraphKeys |-> IF k \in keys THEN Absent ELSE dispute[d][k]]
  BY <1>2 DEF Without
<1>4. dispute' = [dispute EXCEPT ![d] = then]
  BY DEF Close
<1> HIDE DEF then
<1>5. then = [k \in GraphKeys |-> then[k]] /\ \A k \in GraphKeys : DisputeFits(then[k], k)
  BY <1>1, <1>3 DEF DisputeFits
<1> QED BY <1>4, <1>5 DEF DisputesFit, DisputeFits

\* New rows of one device.
LEMMA RowsChange ==
    ASSUME RowsFit, NEW d \in Devices, NEW rows \in [GraphKeys -> GraphRow], WellFormed(rows),
           store' = [store EXCEPT ![d] = rows]
    PROVE  RowsFit'
BY DEF RowsFit

LEMMA WriteFits == ASSUME GraphInv, NEW d \in Devices, NEW k \in GraphKeys, Write(d, k) PROVE GraphInv'
<1>1. PICK text \in Texts \cup Names \cup {""} : UserWrites(d, [store[d] EXCEPT ![k] = Body(text)], {})
  BY DEF Write
<1> DEFINE rows == [store[d] EXCEPT ![k] = Body(text)]
<1>2. rows \in [GraphKeys -> GraphRow]
  BY BodiesAreRows DEF GraphInv, RowsFit
<1>3. UserWrites(d, rows, {})
  BY <1>1
<1> HIDE DEF rows
<1>4. WellFormed(rows) /\ store' = [store EXCEPT ![d] = rows] /\ UNCHANGED <<dispute, head>>
  BY <1>3 DEF UserWrites
<1>5. RowsFit'
  BY <1>2, <1>4, RowsChange DEF GraphInv
<1> QED BY <1>4, <1>5 DEF GraphInv, HeadFits, DisputesFit, DisputeFits

LEMMA DeleteFits == ASSUME GraphInv, NEW d \in Devices, NEW k \in GraphKeys, Delete(d, k) PROVE GraphInv'
<1> DEFINE rows == Without(store[d], Cascade(store[d], k))
<1>1. UserWrites(d, rows, Cascade(store[d], k))
  BY DEF Delete
<1>2. rows \in [GraphKeys -> GraphRow]
  BY WithoutTyped DEF GraphInv, RowsFit
<1> HIDE DEF rows
<1>3. WellFormed(rows) /\ store' = [store EXCEPT ![d] = rows] /\ UNCHANGED <<dispute, head>>
  BY <1>1 DEF UserWrites
<1>4. RowsFit'
  BY <1>2, <1>3, RowsChange DEF GraphInv
<1> QED BY <1>3, <1>4 DEF GraphInv, HeadFits, DisputesFit, DisputeFits

LEMMA KeepRemoteFits == ASSUME GraphInv, NEW d \in Devices, NEW k \in GraphKeys, KeepRemote(d, k) PROVE GraphInv'
<1> DEFINE c == dispute[d][k]
           other == c.local # Absent /\ c.key # k
           rows == [Without(store[d], IF other THEN Cascade(store[d], c.key) ELSE {}) EXCEPT ![k] = c.remote]
           then == IF other THEN Moved(d, rows, c.key[1], k[1]) ELSE rows
<1>1. /\ WellFormed(rows) /\ UNCHANGED head
      /\ store' = [store EXCEPT ![d] = then]
      /\ Close(d, {k} \cup IF other THEN Deferred(d, c.key[1], k[1]) ELSE {})
      /\ c # Absent
  BY DEF KeepRemote, MayResolve
<1>2. c.remote \in GraphRow /\ (other => k \in CategoryKeys)
  BY <1>1 DEF GraphInv, DisputesFit, DisputeFits
<1>3. rows \in [GraphKeys -> GraphRow]
  <2>1. Without(store[d], IF other THEN Cascade(store[d], c.key) ELSE {}) \in [GraphKeys -> GraphRow]
    BY WithoutTyped DEF GraphInv, RowsFit
  <2> QED BY <1>2, <2>1
<1> HIDE DEF rows, other, c
<1>4. then \in [GraphKeys -> GraphRow] /\ WellFormed(then)
  <2>1. CASE other
    <3>1. k[1] \in CategoryIds
      BY <1>2, <2>1 DEF CategoryKeys
    <3> QED BY <1>1, <1>3, <2>1, <3>1, MovedFits
  <2>2. CASE ~other
    BY <1>1, <1>3, <2>2
  <2> QED BY <2>1, <2>2
<1> HIDE DEF then
<1>5. RowsFit'
  BY <1>1, <1>4, RowsChange DEF GraphInv
<1>6. DisputesFit'
  BY <1>1, CloseFits DEF GraphInv
<1> QED BY <1>1, <1>5, <1>6 DEF GraphInv, HeadFits

LEMMA KeepDeletionFits == ASSUME GraphInv, NEW d \in Devices, NEW k \in GraphKeys, KeepDeletion(d, k) PROVE GraphInv'
<1> DEFINE rows == Without(store[d], Cascade(store[d], k))
<1>1. store' = [store EXCEPT ![d] = rows] /\ Close(d, {k}) /\ UNCHANGED head
  BY DEF KeepDeletion
<1>2. rows \in [GraphKeys -> GraphRow] /\ WellFormed(rows)
  BY WithoutTyped, CascadeFits DEF GraphInv, RowsFit
<1> HIDE DEF rows
<1>3. RowsFit'
  BY <1>1, <1>2, RowsChange DEF GraphInv
<1>4. DisputesFit'
  BY <1>1, CloseFits DEF GraphInv
<1> QED BY <1>1, <1>3, <1>4 DEF GraphInv, HeadFits

LEMMA ReviveFits == ASSUME GraphInv, NEW d \in Devices, NEW k \in GraphKeys, Revive(d, k) PROVE GraphInv'
<1>1. Close(d, {k}) /\ UNCHANGED <<store, head>>
  BY DEF Revive
<1>2. DisputesFit'
  BY <1>1, CloseFits DEF GraphInv
<1> QED BY <1>1, <1>2 DEF GraphInv, RowsFit, HeadFits

LEMMA KeepLocalFits == ASSUME GraphInv, NEW d \in Devices, NEW k \in GraphKeys, KeepLocal(d, k) PROVE GraphInv'
<1> DEFINE c == dispute[d][k]
           other == c.local # Absent /\ c.key # k
           then == IF other THEN Moved(d, store[d], k[1], c.key[1]) ELSE store[d]
<1>1. /\ store' = [store EXCEPT ![d] = then]
      /\ Close(d, {k} \cup IF other THEN Deferred(d, k[1], c.key[1]) ELSE {})
      /\ c # Absent /\ UNCHANGED head
  BY DEF KeepLocal, MayResolve
<1>2. other => c.key \in CategoryKeys
  BY <1>1 DEF GraphInv, DisputesFit, DisputeFits
<1>3. store[d] \in [GraphKeys -> GraphRow] /\ WellFormed(store[d])
  BY DEF GraphInv, RowsFit
<1> HIDE DEF other, c
<1>4. then \in [GraphKeys -> GraphRow] /\ WellFormed(then)
  <2>1. CASE other
    <3>1. c.key[1] \in CategoryIds
      BY <1>2, <2>1 DEF CategoryKeys
    <3> QED BY <1>3, <2>1, <3>1, MovedFits
  <2>2. CASE ~other
    BY <1>3, <2>2
  <2> QED BY <2>1, <2>2
<1> HIDE DEF then
<1>5. RowsFit'
  BY <1>1, <1>4, RowsChange DEF GraphInv
<1>6. DisputesFit'
  BY <1>1, CloseFits DEF GraphInv
<1> QED BY <1>1, <1>5, <1>6 DEF GraphInv, HeadFits

LEMMA GraphInvInit == GraphInit => GraphInv
<1> SUFFICES ASSUME GraphInit PROVE GraphInv
  OBVIOUS
<1>1. NoRows \in [GraphKeys -> GraphRow] /\ WellFormed(NoRows)
  <2>1. NoRows \in [GraphKeys -> GraphRow] /\ RowsIn(NoRows) = {}
    BY AbsentIsRow DEF NoRows, RowsIn
  <2> QED BY <2>1 DEF WellFormed
<1>2. ASSUME NEW i \in ItemIds, NEW c \in CategoryIds
      PROVE  LinkedRows(i, c) \in [GraphKeys -> GraphRow] /\ WellFormed(LinkedRows(i, c))
  <2> DEFINE rows == LinkedRows(i, c)
  <2>1. PICK text \in Texts : text = (CHOOSE t \in Texts : TRUE)
    BY GraphAssumption
  <2>2. PICK name \in Names : name = (CHOOSE n \in Names : TRUE)
    BY GraphAssumption
  <2>3. <<i>> \in ItemKeys /\ <<c>> \in CategoryKeys /\ <<i, c>> \in LinkKeys
    BY DEF ItemKeys, CategoryKeys, LinkKeys
  <2>4. <<i>> # <<c>> /\ <<i>> # <<i, c>> /\ <<c>> # <<i, c>>
    <3>1. <<i>> # <<c>>
      BY GraphAssumption
    <3> QED BY <2>3, <3>1, KeysApart
  <2>5. rows = [NoRows EXCEPT ![<<i>>] = Body(text), ![<<c>>] = Body(name), ![<<i, c>>] = LinkBody]
    BY <2>1, <2>2 DEF LinkedRows
  <2>6. Body(text) \in GraphRow /\ Body(name) \in GraphRow /\ LinkBody \in GraphRow
    BY BodiesAreRows DEF LinkBody
  <2>7. Body(text) # Absent /\ Body(name) # Absent
    BY RowsAssumption
  <2> HIDE DEF rows
  <2>8. /\ rows \in [GraphKeys -> GraphRow]
        /\ rows[<<i>>] # Absent /\ rows[<<c>>] # Absent
        /\ \A k \in GraphKeys \ {<<i>>, <<c>>, <<i, c>>} : rows[k] = Absent
    <3> DEFINE one == [NoRows EXCEPT ![<<i>>] = Body(text)]
               two == [one EXCEPT ![<<c>>] = Body(name)]
               three == [two EXCEPT ![<<i, c>>] = LinkBody]
    <3>1. rows = three
      BY <2>5
    <3>2. \A k \in GraphKeys : NoRows[k] = Absent
      BY DEF NoRows
    <3>3. <<i>> \in GraphKeys /\ <<c>> \in GraphKeys /\ <<i, c>> \in GraphKeys
      BY <2>3 DEF GraphKeys
    <3>4. one \in [GraphKeys -> GraphRow] /\ one[<<i>>] # Absent /\ \A k \in GraphKeys \ {<<i>>} : one[k] = Absent
      BY <1>1, <2>6, <2>7, <3>2, <3>3
    <3> HIDE DEF one
    <3>5. /\ two \in [GraphKeys -> GraphRow] /\ two[<<i>>] # Absent /\ two[<<c>>] # Absent
          /\ \A k \in GraphKeys \ {<<i>>, <<c>>} : two[k] = Absent
      BY <2>4, <2>6, <2>7, <3>3, <3>4
    <3> HIDE DEF two
    <3>6. /\ three \in [GraphKeys -> GraphRow] /\ three[<<i>>] # Absent /\ three[<<c>>] # Absent
          /\ \A k \in GraphKeys \ {<<i>>, <<c>>, <<i, c>>} : three[k] = Absent
      BY <2>4, <2>6, <3>3, <3>5
    <3> QED BY <3>1, <3>6
  <2>9. ASSUME NEW k \in RowsIn(rows) PROVE Parents(k) \subseteq RowsIn(rows)
    <3>1. k \in {<<i>>, <<c>>, <<i, c>>} /\ k \in GraphKeys
      BY <2>8 DEF RowsIn
    <3>2. CASE k = <<i, c>>
      <4>1. Parents(k) = {<<i>>, <<c>>}
        BY <3>2 DEF Parents
      <4> QED BY <2>3, <2>8, <4>1 DEF RowsIn, GraphKeys
    <3>3. CASE k # <<i, c>>
      <4>1. k \notin LinkKeys
        BY <2>3, <3>1, <3>3, KeysApart
      <4> QED BY <3>1, <4>1, KeysApart
    <3> QED BY <3>2, <3>3
  <2>10. ASSUME NEW a \in CategoryKeys \cap RowsIn(rows), NEW b \in CategoryKeys \cap RowsIn(rows)
         PROVE  a = b
    <3>1. <<i>> \notin CategoryKeys
      BY GraphAssumption DEF CategoryKeys
    <3>2. <<i, c>> \notin CategoryKeys
      BY <2>3, KeysApart
    <3> QED BY <2>8, <3>1, <3>2 DEF RowsIn
  <2> QED BY <2>8, <2>9, <2>10 DEF WellFormed, rows
<1>3. HeadFits
  <2>1. ASSUME NEW rows \in {NoRows} \cup {LinkedRows(i, c) : i \in ItemIds, c \in CategoryIds},
               head = [rows |-> rows, tombs |-> {}]
        PROVE  HeadFits
    <3>1. rows \in [GraphKeys -> GraphRow] /\ WellFormed(rows)
      BY <1>1, <1>2
    <3>2. head.rows = rows
      BY <2>1
    <3> QED BY <3>1, <3>2 DEF HeadFits
  <2> QED BY <2>1 DEF GraphInit
<1>4. RowsFit
  <2>1. store = [d \in Devices |-> IF joined[d] THEN head.rows ELSE NoRows]
    BY DEF GraphInit
  <2> QED BY <1>1, <1>3, <2>1 DEF RowsFit, HeadFits
<1>5. DisputesFit
  <2>1. dispute = [d \in Devices |-> NoRows]
    BY DEF GraphInit
  <2>2. NoRows = [k \in GraphKeys |-> NoRows[k]] /\ \A k \in GraphKeys : NoRows[k] = Absent
    BY DEF NoRows
  <2> QED BY <2>1, <2>2 DEF DisputesFit, DisputeFits
<1> QED BY <1>3, <1>4, <1>5 DEF GraphInv

LEMMA GraphInvKept == GraphInv /\ [GraphNext]_graphVars => GraphInv'
<1> SUFFICES ASSUME GraphInv, [GraphNext]_graphVars PROVE GraphInv'
  OBVIOUS
<1>1. CASE UNCHANGED graphVars
  BY <1>1 DEF graphVars, GraphInv, RowsFit, HeadFits, DisputesFit, DisputeFits
<1>2. CASE GraphNext
  <2>1. PICK d \in Devices : DeviceStep(d)
    BY <1>2 DEF GraphNext
  <2>2. CASE Cycle(d)
    BY <2>2, CycleFits
  <2>3. CASE \E k \in GraphKeys : Write(d, k) \/ Delete(d, k)
    BY <2>3, WriteFits, DeleteFits
  <2>4. CASE \E k \in GraphKeys : KeepRemote(d, k) \/ KeepDeletion(d, k)
    BY <2>4, KeepRemoteFits, KeepDeletionFits
  <2>5. CASE \E k \in GraphKeys : Revive(d, k) \/ KeepLocal(d, k)
    BY <2>5, ReviveFits, KeepLocalFits
  <2> QED BY <2>1, <2>2, <2>3, <2>4, <2>5 DEF DeviceStep
<1> QED BY <1>1, <1>2

(* A device that may read its head can apply what interpret leaves of the plan. *)
LEMMA InvAppliable == GraphInv => Appliable
<1> SUFFICES ASSUME GraphInv, NEW d \in Devices, Valid(d), ~MarkedAgain(d)
             PROVE  WellFormed(Applied(Decide(d), store[d]))
  BY DEF Appliable
<1> DEFINE plan == Plan(d)
           settled == Interpreted(d)
           local == store[d]
           remote == head.rows
<1>1. /\ local \in [GraphKeys -> GraphRow] /\ remote \in [GraphKeys -> GraphRow]
      /\ WellFormed(local) /\ WellFormed(remote)
  BY DEF GraphInv, RowsFit, HeadFits
<1>2. plan = [k \in GraphKeys |-> plan[k]] /\ \A k \in GraphKeys : PlannedFor(plan[k], local[k], remote[k])
  BY <1>1, PlanIs
<1>3. settled = Interpret(plan, local, remote)
  BY DEF Interpreted, Plan, NoScores
<1>4. Defer(settled, local, remote) = settled /\ DeferredFrom(settled, plan, local, remote)
  BY <1>2, <1>3, InterpretSettles
<1>5. Decide(d) = Revived(settled, local, remote, known[d].revive)
  BY DEF Decide
<1>6. known[d].revive \cap Of(settled, {"delete-local"}) = {}
  BY DEF MarkedAgain, Of
<1> HIDE DEF settled, plan
<1>7. settled = [k \in GraphKeys |-> settled[k]]
      /\ \A k \in GraphKeys : PlannedFor(settled[k], local[k], remote[k]) \/ settled[k].type = "conflict"
  BY <1>2, <1>4 DEF DeferredFrom
<1>8. WellFormed(Applied(settled, local))
  BY <1>1, <1>4, <1>7, SettledFits
<1>9. Applied(Decide(d), local) = Applied(settled, local)
  <2>1. local = [k \in GraphKeys |-> local[k]]
    BY <1>1
  <2> QED BY <1>5, <1>6, <1>7, <2>1, RevivedFits
<1> QED BY <1>8, <1>9

(* Appliable, for any devices, records and edits: no cycle is refused for a parent that *)
(* is missing or a name that is taken twice.                                            *)
THEOREM HeadsFit == GraphSpec => []Appliable
<1>1. GraphSpec => []GraphInv
  BY GraphInvInit, GraphInvKept, PTL DEF GraphSpec
<1> QED BY <1>1, InvAppliable, PTL

=============================================================================
