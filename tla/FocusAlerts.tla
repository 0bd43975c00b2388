---------------------------- MODULE FocusAlerts -----------------------------
(***************************************************************************)
(* The alert controller of the focus timer (useFocusAlerts.ts): one in a   *)
(* document, for every page and widget that observes the timer.  It plays  *)
(* a sound or shows a notification when a session has completed.  Both     *)
(* have to be allowed by the browser, which answers late: the user may     *)
(* have chosen otherwise by then, or left every observer.  Volume and      *)
(* wording are left out, and the controllers of other users.               *)
(***************************************************************************)
EXTENDS Naturals, Sequences

CONSTANTS Listeners,    \* mounted pages and widgets
          Verified,     \* sessions an observer may have verified as completed
          LedgerLimit,  \* sessions the controller remembers
          MaxEpoch      \* bound: choices of the user, of each kind

ASSUME FocusAlertsAssumption == LedgerLimit \in Nat \ {0} /\ MaxEpoch \in Nat

VARIABLES
    listeners,                        \* the observers that are subscribed
    soundOn, notesOn,                 \* state.sound, state.notifications
    context, permission,              \* the audio context, Notification.permission
    audioEpoch, permissionEpoch,      \* count the choices of the user
    resuming, asking,                 \* requests to the browser, by the epoch of each
    ledger, notices,                  \* the sessions claimed, oldest first; notifications shown
    wantsSound, wantsNotes,           \* history: the last choice of the user
    since,       \* history: claims since a session's, itself included; 0 for no claim
    repeated     \* history: a session was claimed again that should be remembered

soundVars == <<soundOn, context, audioEpoch, resuming, wantsSound>>
noteVars == <<notesOn, permissionEpoch, asking, wantsNotes>>
ledgerVars == <<ledger, since, repeated>>
alertVars == <<listeners, soundVars, noteVars, permission, notices, ledgerVars>>

Contexts == {"none", "suspended", "running"}
Permissions == {"default", "granted", "denied"}

AlertsInit ==
    /\ listeners = {} /\ permission \in Permissions /\ notices = {}
    /\ soundOn = FALSE /\ context = "none" /\ audioEpoch = 0 /\ resuming = {} /\ wantsSound = FALSE
    /\ notesOn = FALSE /\ permissionEpoch = 0 /\ asking = {} /\ wantsNotes = FALSE
    /\ ledger = <<>> /\ since = [s \in Verified |-> 0] /\ repeated = FALSE

Allowed == permission = "granted"
Heard == listeners # {}

Subscribe(o) ==
    /\ o \notin listeners
    /\ listeners' = listeners \cup {o} /\ notesOn' = (notesOn /\ Allowed)
    /\ UNCHANGED <<soundVars, permissionEpoch, asking, wantsNotes, permission, notices, ledgerVars>>

\* The document is shown again.
refreshPermission ==
    /\ Heard /\ notesOn' = (notesOn /\ Allowed)
    /\ UNCHANGED <<listeners, soundVars, permissionEpoch, asking, wantsNotes, permission, notices, ledgerVars>>

Unsubscribe(o) ==
    /\ o \in listeners /\ listeners # {o} /\ listeners' = listeners \ {o}
    /\ UNCHANGED <<soundVars, noteVars, permission, notices, ledgerVars>>

\* The last observer takes the sound along; what the browser still answers is stale.
UnsubscribeLast(o) ==
    /\ listeners = {o} /\ audioEpoch < MaxEpoch /\ permissionEpoch < MaxEpoch
    /\ listeners' = {} /\ notices' = {}
    /\ soundOn' = FALSE /\ context' = "none" /\ audioEpoch' = audioEpoch + 1 /\ wantsSound' = FALSE
    /\ permissionEpoch' = permissionEpoch + 1
    /\ UNCHANGED <<resuming, notesOn, asking, wantsNotes, permission, ledgerVars>>

-----------------------------------------------------------------------------
\* The context is made once and asked to resume.
enableSound(made) ==
    /\ Heard /\ audioEpoch < MaxEpoch
    /\ audioEpoch' = audioEpoch + 1 /\ wantsSound' = TRUE
    /\ context' = IF context = "none" THEN made ELSE context
    /\ resuming' = resuming \cup {audioEpoch'}
    /\ UNCHANGED <<listeners, soundOn, noteVars, permission, notices, ledgerVars>>

\* The browser has no sound, or refuses at once: with the context made, or before.
NoSound ==
    /\ Heard /\ audioEpoch < MaxEpoch
    /\ audioEpoch' = audioEpoch + 1 /\ wantsSound' = TRUE /\ soundOn' = FALSE
    /\ context' \in IF context = "none" THEN Contexts ELSE {context}
    /\ UNCHANGED <<listeners, resuming, noteVars, permission, notices, ledgerVars>>

muteSound ==
    /\ Heard /\ audioEpoch < MaxEpoch
    /\ audioEpoch' = audioEpoch + 1 /\ wantsSound' = FALSE /\ soundOn' = FALSE
    /\ UNCHANGED <<listeners, context, resuming, noteVars, permission, notices, ledgerVars>>

\* Mutant: every answer is believed.
AnyAnswer(generation, epoch) == Heard

\* Whether an answer of the browser is the answer to the last choice.
IsLast(generation, epoch) == generation = epoch /\ Heard

\* The resumption is over, or failed; the context may still be suspended.
Resumed(g, ok) ==
    /\ g \in resuming /\ resuming' = resuming \ {g}
    /\ soundOn' = IF IsLast(g, audioEpoch) THEN ok /\ context = "running" ELSE soundOn
    /\ UNCHANGED <<listeners, context, audioEpoch, wantsSound, noteVars, permission, notices, ledgerVars>>

\* The browser runs or suspends the context, and says so some time later.
ContextChanges(now) ==
    /\ context # "none" /\ context' = now
    /\ UNCHANGED <<listeners, soundOn, audioEpoch, resuming, wantsSound, noteVars, permission, notices,
                   ledgerVars>>

\* onstatechange of a context that stopped, a volume that cannot be set, a test not heard.
SoundStops ==
    /\ Heard /\ soundOn' = FALSE
    /\ UNCHANGED <<listeners, context, audioEpoch, resuming, wantsSound, noteVars, permission, notices,
                   ledgerVars>>

-----------------------------------------------------------------------------
enableNotifications ==
    /\ Heard /\ permissionEpoch < MaxEpoch
    /\ permissionEpoch' = permissionEpoch + 1 /\ wantsNotes' = TRUE
    /\ asking' = asking \cup {permissionEpoch'}
    /\ UNCHANGED <<listeners, soundVars, notesOn, permission, notices, ledgerVars>>

\* The browser has no notifications.
NoNotifications ==
    /\ Heard /\ notesOn' = FALSE
    /\ UNCHANGED <<listeners, soundVars, permissionEpoch, asking, wantsNotes, permission, notices, ledgerVars>>

disableNotifications ==
    /\ Heard /\ permissionEpoch < MaxEpoch
    /\ permissionEpoch' = permissionEpoch + 1 /\ wantsNotes' = FALSE /\ notesOn' = FALSE
    /\ UNCHANGED <<listeners, soundVars, asking, permission, notices, ledgerVars>>

\* The user answers the prompt, or it fails: then nothing is granted.
Prompted(g, answer) ==
    /\ g \in asking /\ asking' = asking \ {g} /\ permission' = answer
    /\ notesOn' = IF IsLast(g, permissionEpoch) THEN answer = "granted" ELSE notesOn
    /\ UNCHANGED <<listeners, soundVars, permissionEpoch, wantsNotes, notices, ledgerVars>>

\* The settings of the browser.
PermissionChanges(answer) ==
    /\ permission' = answer
    /\ UNCHANGED <<listeners, soundVars, noteVars, notices, ledgerVars>>

-----------------------------------------------------------------------------
\* announce: an observer verified that the session completed; others will too.
Claimed(s) == \E i \in 1..Len(ledger) : ledger[i] = s
Remember(s) == Append(IF Len(ledger) < LedgerLimit THEN ledger ELSE Tail(ledger), s)
Remembered(s) == since[s] \in 1..LedgerLimit

announce(s, played, shown) ==
    /\ Heard /\ ~Claimed(s)
    /\ ledger' = Remember(s)
    /\ since' = [t \in Verified |-> IF t = s THEN 1
                                    ELSE IF Remembered(t) THEN since[t] + 1 ELSE since[t]]
    /\ repeated' = (repeated \/ Remembered(s))
    /\ soundOn' = (soundOn /\ played /\ context = "running")
    /\ notesOn' = (notesOn /\ shown /\ Allowed)
    /\ notices' = IF notesOn' THEN notices \cup {s} ELSE notices
    /\ UNCHANGED <<listeners, context, audioEpoch, resuming, wantsSound, permissionEpoch, asking,
                   wantsNotes, permission>>

NoticeClosed(s) ==
    /\ s \in notices /\ notices' = notices \ {s}
    /\ UNCHANGED <<listeners, soundVars, noteVars, permission, ledgerVars>>

AlertsNext ==
    \/ \E o \in Listeners : Subscribe(o) \/ Unsubscribe(o) \/ UnsubscribeLast(o)
    \/ refreshPermission \/ (\E made \in {"suspended", "running"} : enableSound(made)) \/ NoSound
    \/ muteSound \/ (\E g \in resuming, ok \in BOOLEAN : Resumed(g, ok))
    \/ (\E now \in {"suspended", "running"} : ContextChanges(now)) \/ SoundStops
    \/ enableNotifications \/ NoNotifications \/ disableNotifications
    \/ (\E g \in asking, answer \in Permissions : Prompted(g, answer))
    \/ (\E answer \in Permissions : PermissionChanges(answer))
    \/ (\E s \in Verified, played, shown \in BOOLEAN : announce(s, played, shown))
    \/ (\E s \in Verified : NoticeClosed(s))

AlertsSpec == AlertsInit /\ [][AlertsNext]_alertVars

\* An answer of the browser that comes late turns nothing on that was turned off since, or
\* for nobody: sound and notifications are as the user chose last.
AlertsAsChosen ==
    /\ soundOn => wantsSound /\ Heard /\ context # "none"
    /\ notesOn => wantsNotes
    /\ notices # {} => Heard

\* No session is announced again before as many others were as the controller remembers.
AnnouncedSeldom == ~repeated
=============================================================================
