------------------------------ MODULE Backups -------------------------------
(***************************************************************************)
(* The WebDAV backups of one user: webdav.ts over incremental.ts.  A run   *)
(* claims a lease of ten minutes in the database, exports the data in one  *)
(* read-only transaction, uploads content-addressed objects, then an       *)
(* immutable manifest, and records a history row in one transaction.       *)
(* Leases expire under slow runs, answers of the server get lost, the      *)
(* process crashes, and files in the directory may disappear.              *)
(***************************************************************************)
EXTENDS Integers, Sequences, FiniteSets

CONSTANTS BackupRuns,      \* runs, each started once; its id names its manifest
          BackupObjects,   \* content objects, named by their hash
          Destinations,    \* endpoint and account together: a namespace each
          MaxEdits,        \* bound: changes of the data
          MaxRemoteFaults, \* bound: uploads cut short, files lost, crashes, database failures
          NoRun

ASSUME BackupAssumption ==
    MaxEdits \in Nat /\ MaxRemoteFaults \in Nat /\ NoRun \notin BackupRuns
        /\ BackupRuns \cap BackupObjects = {}

VARIABLES data,          \* the user's data: the objects it splits into, and its age
          target,        \* core.backup_targets: destination ("none" when unset) and lease
          remote,        \* the directories: "absent", "whole" or "broken" per file
          backups,       \* core.backup_history, oldest first
          run,           \* the await each run stands at
          remoteFaults

backupVars == <<data, target, remote, backups, run, remoteFaults>>

Files == BackupRuns \cup BackupObjects
NotStarted == [pc |-> "new", mode |-> "full", place |-> "none", holds |-> {}, age |-> 0,
               known |-> {}, todo |-> {}, sends |-> NoRun, same |-> NoRun, excused |-> FALSE]

BackupInit ==
    /\ data = [objects |-> {}, age |-> 0]
    /\ target = [place |-> "none", lease |-> NoRun, live |-> FALSE]
    /\ remote = [p \in Destinations |-> [f \in Files |-> "absent"]]
    /\ backups = <<>> /\ remoteFaults = 0
    /\ run = [b \in BackupRuns |-> NotStarted]

Standing(b, pc) == run[b].pc = pc
Ends(b) == [NotStarted EXCEPT !.pc = "over"]
Leased == target.lease # NoRun /\ target.live
HoldsLease(b) == target.lease = b /\ target.live
RemoteFault == remoteFaults < MaxRemoteFaults /\ remoteFaults' = remoteFaults + 1
There(b, f) == remote[run[b].place][f]
Goes(b, next) == run' = [run EXCEPT ![b] = next]
BackupsRest == UNCHANGED <<data, backups>>

\* save and remove: never under a live lease; remove keeps the files and the history.
SaveTarget == \E p \in Destinations :
    /\ ~Leased /\ target' = [target EXCEPT !.place = p]
    /\ UNCHANGED <<data, remote, backups, run, remoteFaults>>
RemoveTarget ==
    /\ ~Leased /\ target' = [place |-> "none", lease |-> NoRun, live |-> FALSE]
    /\ UNCHANGED <<data, remote, backups, run, remoteFaults>>

\* perform: the claim takes over a lease that expired, and remembers the target's row.
ClaimLease(b) == \E m \in {"incremental", "full"} :
    /\ Standing(b, "new") /\ target.place # "none" /\ ~Leased
    /\ target' = [target EXCEPT !.lease = b, !.live = TRUE]
    /\ Goes(b, [NotStarted EXCEPT !.pc = "export", !.mode = m, !.place = target.place])
    /\ BackupsRest /\ UNCHANGED <<remote, remoteFaults>>

\* exportSnapshot: one repeatable-read transaction; buildIncremental splits the rows.
Export(b) ==
    /\ Standing(b, "export")
    /\ Goes(b, [run[b] EXCEPT !.pc = IF run[b].mode = "full" THEN "manifest" ELSE "previous",
                              !.holds = data.objects, !.age = data.age])
    /\ BackupsRest /\ UNCHANGED <<target, remote, remoteFaults>>

\* The newest incremental row of this namespace.
NewestIncremental(p) ==
    LET rows == {i \in DOMAIN backups : backups[i].place = p /\ backups[i].mode = "incremental"}
    IN  IF rows = {} THEN NoRun
        ELSE backups[CHOOSE i \in rows : \A j \in rows : j <= i].id
HeldBy(id) == backups[CHOOSE i \in DOMAIN backups : backups[i].id = id].holds

\* A missing manifest is rebuilt; one that changed ends the run.
ReadPrevious(b) ==
    LET id == NewestIncremental(run[b].place)
        found == id # NoRun /\ There(b, id) = "whole"
    IN  /\ Standing(b, "previous")
        /\ id # NoRun => There(b, id) # "broken"
        /\ Goes(b, [run[b] EXCEPT !.pc = "objects", !.todo = run[b].holds,
                                  !.known = IF found THEN HeldBy(id) ELSE {},
                                  !.same = IF found /\ HeldBy(id) = run[b].holds THEN id ELSE NoRun])
        /\ BackupsRest /\ UNCHANGED <<target, remote, remoteFaults>>

\* A known object is confirmed by the server: HEAD, or GET where HEAD cannot tell.
Confirmed(b, o) == o \in run[b].known /\ There(b, o) = "whole"

ConfirmObject(b) == \E o \in run[b].todo :
    /\ Standing(b, "objects") /\ Confirmed(b, o)
    /\ Goes(b, [run[b] EXCEPT !.todo = @ \ {o}])
    /\ BackupsRest /\ UNCHANGED <<target, remote, remoteFaults>>

\* put: the lease is checked, then the request goes out.
SendObject(b) == \E o \in run[b].todo :
    /\ Standing(b, "objects") /\ ~Confirmed(b, o) /\ HoldsLease(b)
    /\ o \in run[b].known => There(b, o) = "absent"
    /\ Goes(b, [run[b] EXCEPT !.pc = "upload", !.sends = o])
    /\ BackupsRest /\ UNCHANGED <<target, remote, remoteFaults>>

\* If-None-Match: an existing file stays, and passes only when its bytes are the same.
Stored(b) == [remote EXCEPT ![run[b].place][run[b].sends] = IF @ = "absent" THEN "whole" ELSE @]
Upload(b) ==
    /\ Standing(b, "upload") /\ There(b, run[b].sends) # "broken"
    /\ remote' = Stored(b)
    /\ Goes(b, IF run[b].sends = b THEN [run[b] EXCEPT !.pc = "record"]
               ELSE [run[b] EXCEPT !.pc = "objects", !.todo = @ \ {run[b].sends}, !.sends = NoRun])
    /\ BackupsRest /\ UNCHANGED <<target, remoteFaults>>

\* Mutant: a failed upload is taken for one that succeeded.
UploadTaken(b) == \E kept \in {"absent", "whole", "broken"} :
    /\ Standing(b, "upload") /\ RemoteFault
    /\ remote' = [remote EXCEPT ![run[b].place][run[b].sends] = IF @ = "absent" THEN kept ELSE @]
    /\ Goes(b, [run[b] EXCEPT !.pc = IF run[b].sends = b THEN "record" ELSE "finish"])
    /\ BackupsRest /\ UNCHANGED target

\* The answer is lost: the server kept nothing, everything or the beginning of the file.
UploadFails(b) == \E kept \in {"absent", "whole", "broken"} :
    /\ Standing(b, "upload") /\ RemoteFault
    /\ remote' = [remote EXCEPT ![run[b].place][run[b].sends] = IF @ = "absent" THEN kept ELSE @]
    /\ Goes(b, [run[b] EXCEPT !.pc = "finish"])
    /\ BackupsRest /\ UNCHANGED target

\* Every object is there and the previous backup holds the same: nothing to record.
Unchanged(b) ==
    /\ Standing(b, "objects") /\ run[b].todo = {} /\ run[b].same # NoRun /\ HoldsLease(b)
    /\ Goes(b, [run[b] EXCEPT !.pc = "finish"])
    /\ BackupsRest /\ UNCHANGED <<target, remote, remoteFaults>>

SendManifest(b) ==
    /\ Standing(b, "manifest") \/ (Standing(b, "objects") /\ run[b].todo = {} /\ run[b].same = NoRun)
    /\ HoldsLease(b)
    /\ Goes(b, [run[b] EXCEPT !.pc = "upload", !.sends = b])
    /\ BackupsRest /\ UNCHANGED <<target, remote, remoteFaults>>

\* The row is inserted under the lease of this very run.
RecordBackup(b) ==
    /\ Standing(b, "record") /\ HoldsLease(b)
    /\ backups' = Append(backups, [id |-> b, mode |-> run[b].mode, place |-> run[b].place,
                                   holds |-> run[b].holds, age |-> run[b].age, excused |-> run[b].excused])
    /\ Goes(b, [run[b] EXCEPT !.pc = "finish"])
    /\ UNCHANGED <<data, target, remote, remoteFaults>>

\* Every other way a step ends: lease lost, file differs, owner inactive, limits, budget.
RunFails(b) ==
    /\ run[b].pc \in {"export", "previous", "objects", "manifest", "record"}
    /\ Goes(b, [run[b] EXCEPT !.pc = "finish"])
    /\ BackupsRest /\ UNCHANGED <<target, remote, remoteFaults>>

\* finally: the lease is given back unless another run took it over.
FinishRun(b) ==
    /\ Standing(b, "finish")
    /\ target' = IF target.lease = b THEN [target EXCEPT !.lease = NoRun, !.live = FALSE] ELSE target
    /\ Goes(b, Ends(b))
    /\ BackupsRest /\ UNCHANGED <<remote, remoteFaults>>

\* The process, or its connection to the database, ends; the lease stays in the row.
RunDies(b) ==
    /\ run[b].pc \notin {"new", "over"} /\ RemoteFault
    /\ Goes(b, Ends(b)) /\ BackupsRest /\ UNCHANGED <<target, remote>>

LeaseExpires ==
    /\ Leased /\ target' = [target EXCEPT !.live = FALSE]
    /\ UNCHANGED <<data, remote, backups, run, remoteFaults>>

EditData == \E objects \in SUBSET BackupObjects :
    /\ data.age < MaxEdits /\ objects # data.objects
    /\ data' = [objects |-> objects, age |-> data.age + 1]
    /\ UNCHANGED <<target, remote, backups, run, remoteFaults>>

\* A file disappears: rows that need it are excused, and so is a run past that file.
Needs(id, mode, holds, f) == f = id \/ (mode = "incremental" /\ f \in holds)
FileLost == \E p \in Destinations, f \in Files :
    /\ remote[p][f] # "absent" /\ RemoteFault
    /\ remote' = [remote EXCEPT ![p][f] = "absent"]
    /\ backups' = [i \in DOMAIN backups |->
            [backups[i] EXCEPT !.excused = @ \/ (backups[i].place = p
                /\ Needs(backups[i].id, backups[i].mode, backups[i].holds, f))]]
    /\ run' = [b \in BackupRuns |->
            [run[b] EXCEPT !.excused = @ \/ (run[b].place = p /\ run[b].pc \in {"objects", "upload", "record"}
                /\ Needs(b, run[b].mode, run[b].holds \ run[b].todo, f))]]
    /\ UNCHANGED <<data, target>>

RunStep(b) ==
    \/ ClaimLease(b) \/ Export(b) \/ ReadPrevious(b) \/ ConfirmObject(b) \/ SendObject(b)
    \/ Upload(b) \/ UploadFails(b) \/ Unchanged(b) \/ SendManifest(b) \/ RecordBackup(b)
    \/ RunFails(b) \/ FinishRun(b) \/ RunDies(b)
BackupNext ==
    \/ \E b \in BackupRuns : RunStep(b)
    \/ SaveTarget \/ RemoveTarget \/ LeaseExpires \/ EditData \/ FileLost
BackupSpec == BackupInit /\ [][BackupNext]_backupVars

-----------------------------------------------------------------------------
\* download: the manifest, then every object it names, each against its digest.
Restorable(row) ==
    /\ remote[row.place][row.id] = "whole"
    /\ row.mode = "incremental" => \A o \in row.holds : remote[row.place][o] = "whole"

(* A backup that the history shows can be restored, unless a file it needs      *)
(* disappeared after the run had seen or sent it; and of two backups of one     *)
(* destination the later row holds the later data, although a run may outlive   *)
(* its lease.  webdav.ts perform and download.                                  *)
BackupsRestorable == \A i \in DOMAIN backups :
    /\ backups[i].excused \/ Restorable(backups[i])
    /\ \A j \in 1..i : backups[j].age <= backups[i].age
=============================================================================
