---------------------------- MODULE PageSession ----------------------------
(***************************************************************************)
(* Who the page takes its user to be (shell/AuthContext.tsx), against the  *)
(* guard of the server (core/auth/guard.ts).  The secret is a cookie that  *)
(* the page never sees and that other tabs share; requests carry the one   *)
(* of the moment they leave, and their answers come in any order.          *)
(***************************************************************************)
EXTENDS Integers, Sequences

CONSTANTS
    People,      \* accounts; one of them is an admin
    Admin,
    MaxLogins, \* bound: sessions ever opened
    Calls,       \* requests in flight
    MaxOutages   \* bound: calls lost and times the database is away

Nobody == "nobody"
ASSUME SessionAssumption == Admin \in People /\ Nobody \notin People /\ MaxLogins \in Nat

VARIABLES
    sessions, \* owners of the sessions opened so far
    live,     \* core.sessions that are neither deleted nor expired
    jar,      \* the cookie, 0 for none
    dbUp,     \* the database answers
    gate,     \* status and user of the provider; LoginPage is busy
    calls,    \* each request: what it asks, the cookie it carries, its answer
    outages

sessionVars == <<sessions, live, jar, dbUp, gate, calls, outages>>

NoCall == [is |-> "none", cookie |-> 0, who |-> Nobody, answer |-> "none"]
Boot == CHOOSE c \in Calls : TRUE
Gate(status, who) == [gate EXCEPT !.status = status, !.user = who]
Owner(s) == sessions[s]

(* The page boots with whatever cookie an earlier visit left. *)
SessionInit ==
    /\ sessions \in {<<>>} \union {<<p>> : p \in People}
    /\ live \in SUBSET DOMAIN sessions
    /\ jar \in {0} \union DOMAIN sessions
    /\ dbUp = TRUE /\ outages = 0
    /\ gate = [status |-> "loading", user |-> Nobody, busy |-> FALSE]
    /\ calls = [c \in Calls |-> IF c = Boot THEN [NoCall EXCEPT !.is = "me", !.cookie = jar] ELSE NoCall]

Outage == outages < MaxOutages /\ outages' = outages + 1
Send(c, is, who) ==
    /\ calls[c] = NoCall
    /\ calls' = [calls EXCEPT ![c] = [NoCall EXCEPT !.is = is, !.cookie = jar, !.who = who]]
    /\ UNCHANGED <<sessions, live, jar, dbUp, outages>>

(* What each screen of SessionGate offers: the retry button, the login form, the shell. *)
refresh(c) == gate.status = "error" /\ Send(c, "me", Nobody) /\ UNCHANGED gate
signIn(c, who) ==
    /\ gate.status = "anonymous" /\ ~gate.busy /\ Send(c, "login", who)
    /\ gate' = [gate EXCEPT !.busy = TRUE]
signOut(c) == gate.status = "authenticated" /\ Send(c, "logout", Nobody) /\ UNCHANGED gate
api(c, is) == gate.status = "authenticated" /\ Send(c, is, Nobody) /\ UNCHANGED gate
-----------------------------------------------------------------------------
(* resolveOrReject: a failing database answers 503 and never 401. *)
FailureIsNobody(cookie) ==
    IF dbUp /\ cookie \in live THEN "ok" ELSE "401"
resolveOrReject(cookie) ==
    IF ~dbUp THEN "503" ELSE IF cookie \in live THEN "ok" ELSE "401"
requireAdmin(cookie) ==
    IF resolveOrReject(cookie) = "ok" /\ Owner(cookie) # Admin THEN "403" ELSE resolveOrReject(cookie)

Answer(c, answer, who) == calls' = [calls EXCEPT ![c].answer = answer, ![c].who = who]
Waits(c, is) == calls[c].is = is /\ calls[c].answer = "none"

ServeMe(c) ==
    /\ \E is \in {"me", "app"} : Waits(c, is)
    /\ LET answer == resolveOrReject(calls[c].cookie) IN
       Answer(c, answer, IF answer = "ok" THEN Owner(calls[c].cookie) ELSE Nobody)
    /\ UNCHANGED <<sessions, live, jar, dbUp, gate, outages>>

ServeAdmin(c) ==
    /\ Waits(c, "users") /\ Answer(c, requireAdmin(calls[c].cookie), Nobody)
    /\ UNCHANGED <<sessions, live, jar, dbUp, gate, outages>>

(* A login opens a session, or is refused (wrong password, too many attempts). *)
ServeLogin(c) ==
    /\ Waits(c, "login")
    /\ \/ /\ dbUp /\ Len(sessions) < MaxLogins
          /\ sessions' = Append(sessions, calls[c].who) /\ live' = live \union {Len(sessions')}
          /\ calls' = [calls EXCEPT ![c].answer = "ok", ![c].cookie = Len(sessions')]
       \/ Answer(c, IF dbUp THEN "401" ELSE "503", Nobody) /\ UNCHANGED <<sessions, live>>
    /\ UNCHANGED <<jar, dbUp, gate, outages>>

(* A logout clears the cookie although it may fail to delete the session. *)
ServeLogout(c) ==
    /\ Waits(c, "logout") /\ Answer(c, "ok", Nobody)
    /\ live' = IF dbUp THEN live \ {calls[c].cookie} ELSE live
    /\ UNCHANGED <<sessions, jar, dbUp, gate, outages>>

Lose(c) ==
    /\ calls[c] # NoCall /\ calls[c].answer # "lost" /\ Outage /\ Answer(c, "lost", Nobody)
    /\ UNCHANGED <<sessions, live, jar, dbUp, gate>>
-----------------------------------------------------------------------------
(* The answers as the page takes them, whatever has happened since it asked. *)
Take(c, is) == calls[c].is = is /\ calls[c].answer # "none" /\ calls' = [calls EXCEPT ![c] = NoCall]

fetchMe(c) ==
    /\ Take(c, "me")
    /\ gate' = CASE calls[c].answer = "ok" -> Gate("authenticated", calls[c].who)
                 [] calls[c].answer = "401" -> Gate("anonymous", Nobody)
                 [] OTHER -> Gate("error", Nobody)
    /\ UNCHANGED <<sessions, live, jar, dbUp, outages>>

(* onUnauthorized: the event of any 401 outside /api/core/auth. *)
onUnauthorized(c) ==
    /\ \/ Take(c, "app") /\ gate' = IF calls[c].answer = "401" THEN Gate("anonymous", Nobody) ELSE gate
       \/ Take(c, "users") /\ UNCHANGED gate
    /\ UNCHANGED <<sessions, live, jar, dbUp, outages>>

SignedIn(c) ==
    /\ Take(c, "login")
    /\ IF calls[c].answer = "ok"
         THEN jar' = calls[c].cookie
              /\ gate' = [status |-> "authenticated", user |-> calls[c].who, busy |-> FALSE]
         ELSE UNCHANGED jar /\ gate' = [gate EXCEPT !.busy = FALSE]
    /\ UNCHANGED <<sessions, live, dbUp, outages>>

SignedOut(c) ==
    /\ Take(c, "logout")
    /\ jar' = IF calls[c].answer = "ok" THEN 0 ELSE jar
    /\ gate' = Gate("anonymous", Nobody)
    /\ UNCHANGED <<sessions, live, dbUp, outages>>

(* A session expires or another tab logs out, another tab logs in, the database comes and goes. *)
Expire(s) ==
    /\ s \in live /\ live' = live \ {s}
    /\ jar' \in {jar, 0}
    /\ UNCHANGED <<sessions, dbUp, gate, calls, outages>>
OtherTab(who) ==
    /\ Len(sessions) < MaxLogins /\ sessions' = Append(sessions, who)
    /\ jar' = Len(sessions') /\ live' = live \union {jar'}
    /\ UNCHANGED <<dbUp, gate, calls, outages>>
DatabaseAway ==
    /\ IF dbUp THEN Outage ELSE UNCHANGED outages
    /\ dbUp' = ~dbUp
    /\ UNCHANGED <<sessions, live, jar, gate, calls>>

SessionNext ==
    \/ DatabaseAway
    \/ \E s \in live : Expire(s)
    \/ \E who \in People : OtherTab(who)
    \/ \E c \in Calls :
         \/ refresh(c) \/ signOut(c) \/ api(c, "app") \/ api(c, "users")
         \/ \E who \in People : signIn(c, who)
         \/ ServeMe(c) \/ ServeAdmin(c) \/ ServeLogin(c) \/ ServeLogout(c) \/ Lose(c)
         \/ fetchMe(c) \/ onUnauthorized(c) \/ SignedIn(c) \/ SignedOut(c)

SessionSpec == SessionInit /\ [][SessionNext]_sessionVars
-----------------------------------------------------------------------------
(* AuthContext.tsx:24 and guard.ts:7: "an infrastructure outage must not be     *)
(* presented as 'you are not logged in'".  The page becomes anonymous only when *)
(* its user signs out, or on the answer to a request that carried no cookie or  *)
(* the cookie of a session that has ended, never because the database or the    *)
(* network failed.                                                              *)
OutageKeepsUser ==
    [][gate'.status = "anonymous" /\ gate.status # "anonymous" =>
         \E c \in Calls : /\ calls[c] # NoCall /\ calls'[c] = NoCall
                          /\ \/ calls[c].is = "logout"
                             \/ calls[c].is \in {"me", "app"} /\ calls[c].cookie \notin live]_sessionVars
=============================================================================
