---------------------------- MODULE TaskRecords -----------------------------
(***************************************************************************)
(* tasks/index.ts: one user's tasks, edited by several pages and scripts    *)
(* and by rows the sync service applies.  A patch names some of the columns *)
(* and is judged against the row it locks; the completion event is          *)
(* published after the transaction.                                         *)
(***************************************************************************)
EXTENDS WriteFence, Integers, FiniteSets

CONSTANTS
    Tasks,          \* task ids
    TaskPages,      \* open pages
    Instants,       \* times a page writes
    MaxWrites       \* bound: versions of one row

ASSUME TaskAssumption ==
    MaxWrites \in Nat /\ Instants \subseteq Nat \ {0} /\ IsFiniteSet(TaskPages)

VARIABLES
    task,           \* tasks.tasks
    taskPage,       \* the row a page showed, and the event its request still has to tell
    untold          \* history: patches that turned the row from todo to done, less
                    \* the tasks.task.completed.v1 events published for it

taskVars == <<fenced, task, taskPage, untold>>

Null == 0
NoTask == [version |-> 0, status |-> "todo", startAt |-> Null, dueAt |-> Null, completedAt |-> Null]
Deleted == [NoTask EXCEPT !.version = 0 - 1]
Exists(t) == task[t].version > 0

NoPage == [pc |-> "closed", id |-> Null, seen |-> NoTask]

\* assertValidInterval
ValidInterval(startAt, dueAt) == startAt = Null \/ dueAt = Null \/ startAt <= dueAt

TaskInit ==
    /\ fenced = FALSE
    /\ task = [t \in Tasks |-> NoTask]
    /\ taskPage = [p \in TaskPages |-> NoPage]
    /\ untold = [t \in Tasks |-> 0]

-----------------------------------------------------------------------------
Stamp(status) == IF status = "done" THEN 1 ELSE Null

CreateTask(t, status, startAt, dueAt) ==
    /\ task[t] = NoTask /\ ValidInterval(startAt, dueAt)
    /\ task' = [task EXCEPT ![t] = [version |-> 1, status |-> status, startAt |-> startAt,
                                    dueAt |-> dueAt, completedAt |-> Stamp(status)]]
    /\ UNCHANGED <<fenced, taskPage, untold>>

OpenTask(p, t) ==
    /\ taskPage[p].pc = "closed" /\ Exists(t)
    /\ taskPage' = [taskPage EXCEPT ![p] = [pc |-> "open", id |-> t, seen |-> task[t]]]
    /\ UNCHANGED <<fenced, task, untold>>

\* The row a patch leaves: the columns it names, and completed_at by the transition.
MergedTask(row, patch) ==
    LET status == IF "status" \in DOMAIN patch THEN patch.status ELSE row.status
    IN [version |-> row.version + 1,
        status |-> status,
        startAt |-> IF "startAt" \in DOMAIN patch THEN patch.startAt ELSE row.startAt,
        dueAt |-> IF "dueAt" \in DOMAIN patch THEN patch.dueAt ELSE row.dueAt,
        completedAt |-> IF "status" \notin DOMAIN patch THEN row.completedAt
                        ELSE IF status = "done" /\ row.status # "done" THEN 1
                        ELSE IF status = "todo" THEN Null
                        ELSE row.completedAt]

\* Mutant: the transition is judged by the row the page showed.
CompletesWhatWasSeen(p, row, patch) ==
    "status" \in DOMAIN patch /\ patch.status = "done" /\ taskPage[p].seen.status # "done"

Completes(p, row, patch) ==
    "status" \in DOMAIN patch /\ patch.status = "done" /\ row.status # "done"

\* Mutant: the interval is judged by the row the page showed, not by the locked one.
IntervalAsSeen(p, row, patch) ==
    LET merged == MergedTask(taskPage[p].seen, patch) IN ValidInterval(merged.startAt, merged.dueAt)

IntervalAccepted(p, row, patch) ==
    LET merged == MergedTask(row, patch) IN ValidInterval(merged.startAt, merged.dueAt)

Patches ==
    [status : {"todo", "done"}]
    \cup [startAt : Instants \cup {Null}] \cup [dueAt : Instants \cup {Null}]
    \cup [status : {"todo", "done"}, startAt : Instants, dueAt : Instants]

PatchTask(p, presents, patch) ==
    LET t == taskPage[p].id
        row == task[t]
    IN /\ taskPage[p].pc = "open" /\ Exists(t) /\ row.version < MaxWrites
       /\ IntervalAccepted(p, row, patch)
       /\ Presented(IF presents THEN taskPage[p].seen ELSE NoHash, row)
       /\ task' = [task EXCEPT ![t] = MergedTask(row, patch)]
       /\ untold' = [untold EXCEPT ![t] =
                          IF row.status # "done" /\ MergedTask(row, patch).status = "done" THEN @ + 1 ELSE @]
       /\ taskPage' = [taskPage EXCEPT ![p] =
                          IF Completes(p, row, patch) THEN [NoPage EXCEPT !.pc = "publish", !.id = t]
                                                      ELSE NoPage]
       /\ UNCHANGED fenced

DeleteTask(p, presents) ==
    LET t == taskPage[p].id
    IN /\ taskPage[p].pc = "open" /\ Exists(t)
       /\ Presented(IF presents THEN taskPage[p].seen ELSE NoHash, task[t])
       /\ task' = [task EXCEPT ![t] = Deleted]
       /\ taskPage' = [taskPage EXCEPT ![p] = NoPage]
       /\ UNCHANGED <<fenced, untold>>

\* 404, 409, 422 or a patch that names no column.
RefuseTask(p) ==
    /\ taskPage[p].pc = "open"
    /\ taskPage' = [taskPage EXCEPT ![p] = NoPage]
    /\ UNCHANGED <<fenced, task, untold>>

PublishCompleted(p) ==
    /\ taskPage[p].pc = "publish"
    /\ untold' = [untold EXCEPT ![taskPage[p].id] = @ - 1]
    /\ taskPage' = [taskPage EXCEPT ![p] = NoPage]
    /\ UNCHANGED <<fenced, task>>

(* Another server's version of the row replaces this one, whole, under the data lock. *)
ApplyTask(t, row) ==
    /\ fenced /\ Exists(t) /\ task[t].version < MaxWrites
    /\ ValidInterval(row.startAt, row.dueAt)
    /\ task' = [task EXCEPT ![t] = [row EXCEPT !.version = task[t].version + 1,
                                               !.completedAt = Stamp(row.status)]]
    /\ UNCHANGED <<fenced, taskPage, untold>>

LinkTasks == ToggleFence /\ UNCHANGED <<task, taskPage, untold>>

Rows == [version : {0}, status : {"todo", "done"}, startAt : Instants, dueAt : Instants, completedAt : {Null}]

TaskNext ==
    \/ \E t \in Tasks, status \in {"todo", "done"}, startAt, dueAt \in Instants \cup {Null} :
          CreateTask(t, status, startAt, dueAt)
    \/ \E p \in TaskPages, t \in Tasks : OpenTask(p, t)
    \/ \E p \in TaskPages, presents \in BOOLEAN :
          (\E patch \in Patches : PatchTask(p, presents, patch)) \/ DeleteTask(p, presents)
    \/ \E p \in TaskPages : RefuseTask(p) \/ PublishCompleted(p)
    \/ \E t \in Tasks, row \in Rows : ApplyTask(t, row)
    \/ LinkTasks

TaskSpec == TaskInit /\ [][TaskNext]_taskVars

-----------------------------------------------------------------------------
(* No deadline lies before its start: two patches that each name one of the two and  *)
(* were each right about the row their page showed cannot cross (assertValidInterval  *)
(* on the locked row).                                                               *)
IntervalsValid == \A t \in Tasks : ValidInterval(task[t].startAt, task[t].dueAt)

(* However many pages tick one task done, tasks.task.completed.v1 is published no     *)
(* more often than the row really went from todo to done.                             *)
CompletedOnce == \A t \in Tasks : untold[t] >= 0

(* Both, of any patches that cross on one row (PATCH tasks/:id).                      *)
PatchesAgree == IntervalsValid /\ CompletedOnce
=============================================================================
