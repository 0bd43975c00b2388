----------------------------- MODULE TodayCounts -----------------------------
(***************************************************************************)
(* The read surfaces of the tasks app (apps/tasks/index.ts): GET summary,   *)
(* five counts for the dashboard's meter, and GET public/status, the task   *)
(* of now, the next one and how many more start today.  Each is a row of    *)
(* statements with no transaction around them: tasks are written and the    *)
(* clock moves between two of them.                                         *)
(***************************************************************************)
EXTENDS Integers, Sequences

CONSTANTS
    CountedTasks,
    DayTicks,        \* ticks of a local day
    Opening,         \* the time it is at first, on day 1
    Closing,         \* bound: the time at which the clock stops
    MaxCountWrites   \* bound: writes of the tasks

ASSUME TodayCountsAssumption ==
    /\ DayTicks \in Nat /\ DayTicks >= 2
    /\ Opening \in Nat /\ Opening \div DayTicks = 1
    /\ Closing \in Nat /\ Closing >= Opening /\ MaxCountWrites \in Nat

Unset == -1
Dates == (DayTicks - 1)..(2 * DayTicks) \cup {Unset}
Questions == {"summary", "status"}

\* date is due_at for the summary and start_at for the status: neither reads the other's.
CountedRow == [done : BOOLEAN, date : Dates, completed : 0..Closing \cup {Unset}]

VARIABLES
    tasksTable,  \* tasks.tasks: the rows of one user
    countNow,    \* the time
    question,    \* the request in progress, with the day and the time it read at its start
    segment,     \* the rows that each of its statements counted
    touched,     \* history: the rows written since its first statement
    countWrites

countVars == <<tasksTable, countNow, question, segment, touched, countWrites>>

NoQuestion == [of |-> "none", left |-> <<>>, start |-> 0, end |-> 0, now |-> 0]

CountInit ==
    /\ tasksTable \in [CountedTasks ->
          {r \in CountedRow : r.completed \in IF r.done THEN {DayTicks - 1, DayTicks} ELSE {Unset}}]
    /\ countNow = Opening /\ question = NoQuestion
    /\ segment = <<>> /\ touched = {} /\ countWrites = 0

-----------------------------------------------------------------------------
InDay(d) == question.start <= d /\ d < question.end

DueToday(r) == ~r.done /\ InDay(r.date)
Overdue(r) == ~r.done /\ r.date # Unset /\ r.date < countNow \* now() of the database
IsDone(r) == r.done
DoneToday(r) == r.done /\ InDay(r.completed)

\* Mutant: what is overdue is told by the time, as the counter beside it.
OverdueByNow(r) == Overdue(r)
OverdueBeforeToday(r) == ~r.done /\ r.date # Unset /\ r.date < question.start

\* The first row in the order of the dates, or none: a set of one or no row.
FirstOf(rows) ==
    IF rows = {} THEN {}
    ELSE {CHOOSE t \in rows : \A u \in rows : tasksTable[t].date <= tasksTable[u].date}
LastOf(rows) ==
    IF rows = {} THEN {}
    ELSE {CHOOSE t \in rows : \A u \in rows : tasksTable[t].date >= tasksTable[u].date}

Started(r) == ~r.done /\ r.date # Unset /\ r.date <= question.now
StartsLater(r) == ~r.done /\ r.date > question.now

getCurrentTask == LastOf({t \in CountedTasks : Started(tasksTable[t])})
getNextTask == FirstOf({t \in CountedTasks : StartsLater(tasksTable[t])})
Remaining == {t \in CountedTasks : StartsLater(tasksTable[t]) /\ InDay(tasksTable[t].date)} \ segment.next

Rows(P(_)) == {t \in CountedTasks : P(tasksTable[t])}
Counted(statement) ==
    CASE statement = "today"              -> Rows(DueToday)
      [] statement = "overdue"            -> Rows(Overdue)
      [] statement = "done"               -> Rows(IsDone)
      [] statement = "doneToday"          -> Rows(DoneToday)
      [] statement = "overdueBeforeToday" -> Rows(OverdueBeforeToday)
      [] statement = "current"            -> getCurrentTask
      [] statement = "next"               -> getNextTask
      [] statement = "remaining"          -> Remaining

Summary == <<"today", "overdue", "done", "doneToday", "overdueBeforeToday">>
Status == <<"current", "next", "remaining">>

-----------------------------------------------------------------------------
AskCounts(of) ==
    /\ question.of = "none"
    /\ question' = [of |-> of, left |-> IF of = "summary" THEN Summary ELSE Status,
                    start |-> (countNow \div DayTicks) * DayTicks,
                    end |-> (countNow \div DayTicks + 1) * DayTicks, now |-> countNow]
    /\ segment' = [statement \in {} |-> {}] /\ touched' = {}
    /\ UNCHANGED <<tasksTable, countNow, countWrites>>

\* The request's next statement, on the rows as they are now.
Count ==
    /\ question.left # <<>>
    /\ segment' = [s \in DOMAIN segment \cup {Head(question.left)} |->
                      IF s \in DOMAIN segment THEN segment[s] ELSE Counted(s)]
    /\ question' = [question EXCEPT !.left = Tail(@)]
    /\ touched' = IF DOMAIN segment = {} THEN {} ELSE touched
    /\ UNCHANGED <<tasksTable, countNow, countWrites>>

AnswerCounts ==
    /\ question.of # "none" /\ question.left = <<>>
    /\ question' = NoQuestion /\ segment' = <<>> /\ touched' = {}
    /\ UNCHANGED <<tasksTable, countNow, countWrites>>

\* PATCH tasks/:id; a task that is deleted counts no more than one without a date.
PatchCounted(t, done, date) ==
    LET r == tasksTable[t]
    IN /\ countWrites < MaxCountWrites /\ (done # r.done \/ date # r.date)
       /\ tasksTable' = [tasksTable EXCEPT ![t] =
             [done |-> done, date |-> date,
              completed |-> IF ~done THEN Unset ELSE IF r.done THEN r.completed ELSE countNow]]
       /\ touched' = IF question.of = "none" THEN {} ELSE touched \cup {t}
       /\ countWrites' = countWrites + 1
       /\ UNCHANGED <<countNow, question, segment>>

PassTime ==
    /\ countNow < Closing /\ countNow' = countNow + 1
    /\ UNCHANGED <<tasksTable, question, segment, touched, countWrites>>

CountNext ==
    \/ \E of \in Questions : AskCounts(of)
    \/ Count \/ AnswerCounts \/ PassTime
    \/ \E t \in CountedTasks, done \in BOOLEAN, date \in Dates : PatchCounted(t, done, date)

CountSpec == CountInit /\ [][CountNext]_countVars

-----------------------------------------------------------------------------
Holding(t, names) == {s \in names : t \in segment[s]}
HasAll(of) == question.of = of /\ question.left = <<>>

(* "The meter's three segments are disjoint by construction" (apps/tasks/index.ts:    *)
(* 300-304), and "now == start_at can never be both" current and next (:350): of a    *)
(* row that nobody writes meanwhile, whatever happens to the others and if the day    *)
(* ends under the request, the summary counts each open one that is due before the    *)
(* end of the day, and each that was completed in it, in one segment and in no other; *)
(* and the status has each open one that starts later today as the next or among the  *)
(* remaining, one that has started in neither, and none twice.                        *)
CountedOnce ==
    /\ HasAll("summary") => \A t \in CountedTasks \ touched :
          LET r == tasksTable[t]
              meter == Holding(t, {"today", "doneToday", "overdueBeforeToday"})
          IN meter = IF r.done THEN IF InDay(r.completed) THEN {"doneToday"} ELSE {}
                     ELSE IF r.date = Unset \/ r.date >= question.end THEN {}
                     ELSE IF r.date < question.start THEN {"overdueBeforeToday"} ELSE {"today"}
    /\ HasAll("status") => \A t \in CountedTasks \ touched :
          LET r == tasksTable[t]  held == Holding(t, {"current", "next", "remaining"})
          IN /\ ~r.done /\ r.date > question.now /\ InDay(r.date) => held \in {{"next"}, {"remaining"}}
             /\ ~r.done /\ r.date # Unset /\ r.date <= question.now => held \subseteq {"current"}
             /\ r.done \/ r.date = Unset => held = {}
=============================================================================
