------------------------------ MODULE Accounts ------------------------------
(***************************************************************************)
(* Accounts and sessions of auth/service.ts.  Every query is a step: a     *)
(* login reads, verifies and inserts; the bootstrap of a starting process  *)
(* looks for its account, for a placeholder and for an admin before it     *)
(* writes.  A session stands for all cookies of its account that expire    *)
(* together.                                                               *)
(***************************************************************************)
EXTENDS FiniteSets

CONSTANTS Owners,     \* ids of accounts, Seed among them
          Seed,       \* the placeholder of the first migration
          LoginNames, \* user names, "admin" among them
          Passwords,  \* the passwords that are long enough
          Bootstraps, \* processes that bootstrap: a starting server, the command line
          Logins      \* logins in flight

ASSUME AccountAssumption ==
    Seed \in Owners /\ "admin" \in LoginNames /\ {"pending", "none"} \cap Passwords = {}

VARIABLES users,    \* core.users: id |-> name, password_hash, role, status
          signedIn, \* core.sessions: owner, and whether it is before expires_at
          boot,     \* ensureBootstrapAdmin of each process
          login     \* login of each request

accountVars == <<users, signedIn, boot, login>>

User(name, hash, role) == [name |-> name, hash |-> hash, role |-> role, active |-> TRUE]
isPendingBootstrapHash(hash) == hash = "pending"
NameTaken(name, except) == \E u \in DOMAIN users \ {except} : users[u].name = name
ActiveAdmins(table) == {u \in DOMAIN table : table[u].role = "admin" /\ ~isPendingBootstrapHash(table[u].hash)}

NotBooting == [pc |-> "idle", name |-> "none", password |-> "none", id |-> Seed]
NotLoggingIn == [pc |-> "idle", id |-> Seed, hash |-> "none"]

\* A migrated database, or one whose placeholder is gone.
AccountsInit ==
    /\ \E ids \in SUBSET {Seed} : users = [u \in ids |-> User("admin", "pending", "admin")]
    /\ signedIn = {} /\ boot = [b \in Bootstraps |-> NotBooting] /\ login = [l \in Logins |-> NotLoggingIn]

-----------------------------------------------------------------------------
(* ensureBootstrapAdmin: the environment may name another account and      *)
(* another password at each start.                                         *)

NeverActive(hash) == TRUE
MayActivate(hash) == isPendingBootstrapHash(hash)

FindAccount(b) == \E name \in LoginNames, password \in Passwords \cup {"none"} :
    LET existing == {u \in DOMAIN users : users[u].name = name}
        to == [NotBooting EXCEPT !.name = name, !.password = password]
    IN  /\ boot[b].pc = "idle" /\ password # "none"
        /\ \A u \in existing : MayActivate(users[u].hash)
        /\ boot' = [boot EXCEPT ![b] = IF existing = {} THEN [to EXCEPT !.pc = "placeholder"]
                                       ELSE [to EXCEPT !.pc = "activate", !.id = CHOOSE u \in existing : TRUE]]
        /\ UNCHANGED <<users, signedIn, login>>

ActivateAccount(b) ==
    /\ boot[b].pc = "activate"
    /\ users' = [users EXCEPT ![boot[b].id].hash = boot[b].password]
    /\ boot' = [boot EXCEPT ![b] = NotBooting] /\ UNCHANGED <<signedIn, login>>

FindPlaceholder(b) ==
    LET pending == {u \in DOMAIN users : isPendingBootstrapHash(users[u].hash)}
    IN  /\ boot[b].pc = "placeholder"
        /\ boot' = [boot EXCEPT ![b] = IF pending = {} THEN [@ EXCEPT !.pc = "admins"]
                                       ELSE [@ EXCEPT !.pc = "rename", !.id = CHOOSE u \in pending : TRUE]]
        /\ UNCHANGED <<users, signedIn, login>>

\* The placeholder keeps its id and takes the name; a taken name stops the process.
RenamePlaceholder(b) ==
    LET id == boot[b].id
    IN  /\ boot[b].pc = "rename"
        /\ users' = IF NameTaken(boot[b].name, id) THEN users
                    ELSE [users EXCEPT ![id].name = boot[b].name, ![id].hash = boot[b].password]
        /\ boot' = [boot EXCEPT ![b] = NotBooting] /\ UNCHANGED <<signedIn, login>>

FindActiveAdmin(b) ==
    /\ boot[b].pc = "admins"
    /\ boot' = [boot EXCEPT ![b] = IF ActiveAdmins(users) = {} THEN [@ EXCEPT !.pc = "create"] ELSE NotBooting]
    /\ UNCHANGED <<users, signedIn, login>>

Inserted(id, row) ==
    users' = IF NameTaken(row.name, id) THEN users
             ELSE [u \in DOMAIN users \cup {id} |-> IF u = id THEN row ELSE users[u]]
CreateAdmin(b) == \E id \in Owners \ DOMAIN users :
    /\ boot[b].pc = "create" /\ Inserted(id, User(boot[b].name, boot[b].password, "admin"))
    /\ boot' = [boot EXCEPT ![b] = NotBooting] /\ UNCHANGED <<signedIn, login>>

BootstrapDies(b) ==
    /\ boot[b].pc # "idle" /\ boot' = [boot EXCEPT ![b] = NotBooting] /\ UNCHANGED <<users, signedIn, login>>

-----------------------------------------------------------------------------
(* Requests.                                                               *)

\* The row is read once; a wrong password, a placeholder and a disabled account end alike.
ReadCredentials(l) == \E u \in DOMAIN users :
    /\ login[l].pc = "idle"
    /\ login' = [login EXCEPT ![l] = [pc |-> "verify", id |-> u, hash |-> users[u].hash]]
    /\ UNCHANGED <<users, signedIn, boot>>
VerifyPassword(l) == \E password \in Passwords :
    /\ login[l].pc = "verify"
    /\ login' = [login EXCEPT ![l] = IF password = @.hash THEN [@ EXCEPT !.pc = "insert"] ELSE NotLoggingIn]
    /\ UNCHANGED <<users, signedIn, boot>>
InsertSession(l) ==
    /\ login[l].pc = "insert" /\ login' = [login EXCEPT ![l] = NotLoggingIn]
    /\ signedIn' = signedIn \cup {[user |-> login[l].id, live |-> TRUE]}
    /\ UNCHANGED <<users, boot>>

logout == \E s \in signedIn :
    /\ signedIn' = signedIn \ {s} /\ UNCHANGED <<users, boot, login>>
SessionExpires == \E s \in signedIn :
    /\ s.live /\ signedIn' = (signedIn \ {s}) \cup {[s EXCEPT !.live = FALSE]} /\ UNCHANGED <<users, boot, login>>
purgeExpiredSessions ==
    /\ \E s \in signedIn : ~s.live
    /\ signedIn' = {s \in signedIn : s.live} /\ UNCHANGED <<users, boot, login>>

\* resolveSession: a live session of an active account.
resolveSession(u) == [user |-> u, live |-> TRUE] \in signedIn /\ users[u].active
createUser == \E id \in Owners \ DOMAIN users, name \in LoginNames, password \in Passwords :
    /\ \E u \in DOMAIN users : resolveSession(u) /\ users[u].role = "admin"
    /\ ~NameTaken(name, id) /\ Inserted(id, User(name, password, "user"))
    /\ UNCHANGED <<signedIn, boot, login>>

AccountsNext ==
    \/ \E b \in Bootstraps :
         \/ FindAccount(b) \/ ActivateAccount(b) \/ FindPlaceholder(b) \/ RenamePlaceholder(b)
         \/ FindActiveAdmin(b) \/ CreateAdmin(b) \/ BootstrapDies(b)
    \/ \E l \in Logins : ReadCredentials(l) \/ VerifyPassword(l) \/ InsertSession(l)
    \/ logout \/ SessionExpires \/ purgeExpiredSessions \/ createUser
AccountsSpec == AccountsInit /\ [][AccountsNext]_accountVars

-----------------------------------------------------------------------------
(* "an account that already has a real Argon2 hash is NEVER rewritten, no  *)
(* matter what password the environment carries" and "bootstrap means      *)
(* 'first admin'" (service.ts ensureBootstrapAdmin), over restarts with    *)
(* changed names and passwords, stops between its queries and accounts     *)
(* created meanwhile.  One process bootstraps at a time.                   *)
BootstrapOnce ==
    [][/\ \A u \in DOMAIN users : ~isPendingBootstrapHash(users[u].hash) => users'[u] = users[u]
       /\ ActiveAdmins(users) # {} => ActiveAdmins(users') = ActiveAdmins(users)]_accountVars
=============================================================================
