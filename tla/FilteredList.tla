---------------------------- MODULE FilteredList ----------------------------
(***************************************************************************)
(* A list that is searched and filtered: the pages of the notes, the tasks *)
(* and the items.  The filters are in the URL; the search box has a state   *)
(* of its own, which reaches the URL through a timer and an effect and      *)
(* follows it through another (useDebouncedValue, useSearchParams); the     *)
(* list is fetched by useAsync for the URL of the last render.  React       *)
(* renders, and then runs effects, some time after a state was set, and a   *)
(* change of the URL is a transition: it may be rendered after later        *)
(* changes of the box.  Left out: whether the filters are folded, and a     *)
(* parameter that a hand-written URL names and leaves empty.                *)
(***************************************************************************)
EXTENDS Naturals

CONSTANTS
    ListPages,      \* among "notes", "tasks", "items"
    NoWord, Words,  \* what the search box can hold
    Labels,         \* tags of notes, categories of items
    DeepLinks,      \* URLs by which the page is opened
    Tables,         \* the rows of a user, at one time or another
    MaxTurns,       \* bound: acts of the user
    MaxListWrites,  \* bound: changes of the table
    MaxListFaults   \* bound: requests that fail

Texts == Words \cup {NoWord}

\* A filter beside the search and the labels (mood, status, location), one that no control
\* sets (a mood nobody knows, the start of a task), and the sort order, unless it is left
\* to the server or to the page.
Facets == {"none", "some", "odd"}
Orders == {"unset", "asc", "desc"}
Urls == [q : Texts, labels : SUBSET Labels, facet : Facets, order : Orders]
Plain == [q |-> NoWord, labels |-> {}, facet |-> "none", order |-> "unset"]
Rows == [text : Words, labels : SUBSET Labels, facet : BOOLEAN]

ASSUME FilteredListAssumption ==
    /\ ListPages \subseteq {"notes", "tasks", "items"} /\ NoWord \notin Words
    /\ DeepLinks \subseteq Urls /\ \A rows \in Tables : rows \subseteq Rows
    /\ MaxTurns \in Nat /\ MaxListWrites \in Nat /\ MaxListFaults \in Nat

-----------------------------------------------------------------------------
(* What each page asks for, and what it calls a filter. *)
NotesQuery(u) ==
    [q |-> u.q, labels |-> u.labels, facet |-> IF u.facet = "odd" THEN "none" ELSE u.facet,
     order |-> IF u.order = "unset" THEN "desc" ELSE u.order]
tasksQueryString(u) == [q |-> u.q, labels |-> {}, facet |-> u.facet, order |-> u.order]
itemsQueryString(u) == [q |-> u.q, labels |-> u.labels, facet |-> u.facet, order |-> u.order]
Query(page, u) ==
    CASE page = "notes" -> NotesQuery(u)
      [] page = "tasks" -> tasksQueryString(u)
      [] page = "items" -> itemsQueryString(u)

NoteFilters(u) == u.q # NoWord \/ u.labels # {} \/ u.facet # "none"
HasFilters(page, u) ==
    IF page = "notes" THEN NoteFilters(u) ELSE Query(page, u) # Query(page, Plain)

\* The button that resets the filters counts those that have a control of their own.
TaskFilterCount(u) == u.q # NoWord \/ u.facet = "some"
countActiveFilters(page, u) == IF page = "tasks" THEN TaskFilterCount(u) ELSE NoteFilters(u)

\* What a click on a control makes of the URL that the page was rendered for.
toggleTag(u, l) == [u EXCEPT !.labels = IF l \in @ THEN @ \ {l} ELSE @ \cup {l}]
Reordered(u) == [u EXCEPT !.order = IF @ = "asc" THEN "desc" ELSE "asc"]
Selects(u) == {[u EXCEPT !.facet = f] : f \in {"none", "some"}} \cup {Reordered(u)}
NoteControls(u) == Selects(u) \cup {toggleTag(u, l) : l \in Labels}
TaskControls(u) == Selects(u)
ItemControls(u) == NoteControls(u) \cup {[u EXCEPT !.labels = {}]}
Controls(page, u) ==
    CASE page = "notes" -> NoteControls(u)
      [] page = "tasks" -> TaskControls(u)
      [] page = "items" -> ItemControls(u)

\* The rows of a user that a query selects (itemConditions and its like); a row is found by
\* its text and has every label asked for.
Matching(rows, query) ==
    {r \in rows : /\ query.q \in {NoWord, r.text}
                  /\ query.labels \subseteq r.labels
                  /\ query.facet = "some" => r.facet
                  /\ query.facet = "odd" => ~r.facet}

-----------------------------------------------------------------------------
VARIABLES
    listPage,     \* the page
    queued,       \* its state with every change that was set
    drawn,        \* its state as last rendered: what is on the screen, what handlers see
    ran,          \* its state as the effects last saw it
    debounce,     \* the timer of useDebouncedValue is set
    reloading,    \* a reload was asked for
    listRequest,  \* the request of the current run of useAsync
    table,        \* the rows of the user
    writes,       \* changes of the table so far
    announced,    \* how many of them the page was told of
    dropping,     \* the deletion of a category, with the URL its handler saw
    turns, listFaults,
    unsent        \* history: the word in the box was put there in a way that sends nothing

listVars == <<listPage, queued, drawn, ran, debounce, reloading, listRequest, table, writes,
              announced, dropping, turns, listFaults, unsent>>

NoList == [shown |-> FALSE, query |-> NotesQuery(Plain), empty |-> FALSE, none |-> FALSE, at |-> 0]
NoListRequest == [pc |-> "none", query |-> NotesQuery(Plain), keep |-> FALSE, got |-> NoList]
NotDropping == [pc |-> "none", labels |-> {}, url |-> Plain]
Asking(page, u, keep) ==
    [pc |-> "asked", query |-> Query(page, u), keep |-> keep, got |-> NoList]
Seen(s) == [url |-> s.url, box |-> s.box, debounced |-> s.debounced]
Opened(u) == [url |-> u, box |-> u.q, debounced |-> u.q, list |-> NoList, error |-> FALSE]

\* The page is mounted on any URL, with any rows; its effects have run.
ListInit ==
    /\ listPage \in ListPages
    /\ \E u \in DeepLinks : queued = Opened(u)
    /\ drawn = queued /\ ran = Seen(queued) /\ debounce = TRUE /\ reloading = FALSE
    /\ listRequest = Asking(listPage, queued.url, FALSE)
    /\ table \in Tables
    /\ writes = 0 /\ announced = 0 /\ dropping = NotDropping
    /\ turns = 0 /\ listFaults = 0 /\ unsent = FALSE

Turn == turns < MaxTurns /\ turns' = turns + 1
ListFault == listFaults < MaxListFaults /\ listFaults' = listFaults + 1

\* setSearchParams starts from the URL of the render that its caller saw: a word that is on
\* its way to the page is gone from the URL, and the box is not told.
Navigated(v) ==
    /\ queued' = [queued EXCEPT !.url = v]
    /\ unsent' = (unsent \/ (queued.url.q # drawn.url.q /\ v.q = drawn.url.q))

Search(text) ==
    /\ Turn /\ text # drawn.box
    /\ queued' = [queued EXCEPT !.box = text]
    /\ UNCHANGED <<listPage, drawn, ran, debounce, reloading, listRequest, table, writes,
                   announced, dropping, listFaults, unsent>>

setParam(v) ==
    /\ Turn /\ Navigated(v)
    /\ UNCHANGED <<listPage, drawn, ran, debounce, reloading, listRequest, table, writes,
                   announced, dropping, listFaults>>

resetFilters ==
    /\ Turn /\ countActiveFilters(listPage, drawn.url)
    /\ queued' = [queued EXCEPT !.url = Plain, !.box = NoWord]
    /\ UNCHANGED <<listPage, drawn, ran, debounce, reloading, listRequest, table, writes,
                   announced, dropping, listFaults, unsent>>

\* Back, forward, a link to the page.
Navigate(u) ==
    /\ Turn /\ Navigated(u)
    /\ UNCHANGED <<listPage, drawn, ran, debounce, reloading, listRequest, table, writes,
                   announced, dropping, listFaults>>

\* A word that was typed again before the timer noticed that it had gone is no change of
\* the debounced value: its effect does not run.
DebounceFires ==
    /\ debounce
    /\ debounce' = FALSE
    /\ queued' = [queued EXCEPT !.debounced = ran.box]
    /\ unsent' = (unsent \/ (ran.box = ran.debounced /\ ran.box # queued.url.q))
    /\ UNCHANGED <<listPage, drawn, ran, reloading, listRequest, table, writes, announced,
                   dropping, turns, listFaults>>

(* A render, of the URL too or of the rest alone, once the effects of the last one ran. *)
(* A record of another URL is dropped while rendering.                                  *)
\* Mutant: it stays until its successor comes.
KeptWhileDrawn(s, moved) == s
Redrawn(s, moved) == IF moved THEN [s EXCEPT !.list = NoList, !.error = FALSE] ELSE s
Render(withUrl) ==
    /\ ran = Seen(drawn)
    /\ LET moved == withUrl /\ queued.url # drawn.url
       IN /\ queued' = Redrawn(queued, moved)
          /\ drawn' = [queued' EXCEPT !.url = IF withUrl THEN @ ELSE drawn.url]
    /\ UNCHANGED <<listPage, ran, debounce, reloading, listRequest, table, writes, announced,
                   dropping, turns, listFaults, unsent>>

(* The effects of a render, in their order: the timer of the box, the debounced word to   *)
(* the URL, the word of the URL to the box, a run of useAsync, which ends the one before. *)
Effects ==
    /\ ran # Seen(drawn) \/ reloading
    /\ LET moved == drawn.url # ran.url
           sends == drawn.debounced # ran.debounced /\ drawn.debounced # drawn.url.q
           follows == drawn.url.q # ran.url.q
           again == moved \/ reloading
           keep == ~moved /\ queued.list.shown
       IN /\ debounce' = (debounce \/ drawn.box # ran.box)
          /\ queued' = [url |-> IF sends THEN [drawn.url EXCEPT !.q = drawn.debounced] ELSE queued.url,
                        box |-> IF follows THEN drawn.url.q ELSE queued.box,
                        debounced |-> queued.debounced,
                        list |-> IF again /\ ~keep THEN NoList ELSE queued.list,
                        error |-> ~again /\ queued.error]
          /\ unsent' = (unsent /\ ~follows)
          /\ listRequest' = IF again THEN Asking(listPage, drawn.url, keep) ELSE listRequest
    /\ ran' = Seen(drawn) /\ reloading' = FALSE
    /\ UNCHANGED <<listPage, drawn, table, writes, announced, dropping, turns, listFaults>>

ServeList ==
    /\ listRequest.pc = "asked"
    /\ listRequest' = [listRequest EXCEPT !.pc = "served",
                          !.got = [shown |-> TRUE, query |-> listRequest.query, none |-> table = {}, at |-> writes,
                                   empty |-> Matching(table, listRequest.query) = {}]]
    /\ UNCHANGED <<listPage, queued, drawn, ran, debounce, reloading, table, writes, announced,
                   dropping, turns, listFaults, unsent>>

ListArrives ==
    /\ listRequest.pc = "served"
    /\ queued' = [queued EXCEPT !.list = listRequest.got, !.error = FALSE]
    /\ listRequest' = NoListRequest
    /\ UNCHANGED <<listPage, drawn, ran, debounce, reloading, table, writes, announced, dropping,
                   turns, listFaults, unsent>>

ListFails ==
    /\ listRequest.pc # "none" /\ ListFault
    /\ queued' = [queued EXCEPT !.error = TRUE, !.list = IF listRequest.keep THEN @ ELSE NoList]
    /\ listRequest' = NoListRequest
    /\ UNCHANGED <<listPage, drawn, ran, debounce, reloading, table, writes, announced, dropping,
                   turns, unsent>>

\* The retry button.
RetryList ==
    /\ drawn.error /\ reloading' = TRUE
    /\ UNCHANGED <<listPage, queued, drawn, ran, debounce, listRequest, table, writes, announced,
                   dropping, turns, listFaults, unsent>>

\* Another page, the sync service.
WriteRow(rows) ==
    /\ writes < MaxListWrites /\ rows # table
    /\ table' = rows /\ writes' = writes + 1
    /\ UNCHANGED <<listPage, queued, drawn, ran, debounce, reloading, listRequest, announced,
                   dropping, turns, listFaults, unsent>>

\* SYNC_DATA_CHANGED of this user, the answer to a save of this page, which may have been
\* refused: the list is fetched anew.
RefreshList ==
    /\ announced' = writes /\ reloading' = TRUE
    /\ UNCHANGED <<listPage, queued, drawn, ran, debounce, listRequest, table, writes, dropping,
                   turns, listFaults, unsent>>

\* The category is deleted, its name in every item with it (LinkedRecords).
ConfirmDelete(l) ==
    /\ listPage = "items" /\ dropping = NotDropping /\ Turn
    /\ dropping' = [pc |-> "asked", labels |-> {l}, url |-> drawn.url]
    /\ UNCHANGED <<listPage, queued, drawn, ran, debounce, reloading, listRequest, table, writes,
                   announced, listFaults, unsent>>

ServeDelete ==
    /\ dropping.pc = "asked" /\ writes < MaxListWrites
    /\ table' = {[r EXCEPT !.labels = @ \ dropping.labels] : r \in table}
    /\ writes' = writes + 1
    /\ dropping' = [dropping EXCEPT !.pc = "served"]
    /\ UNCHANGED <<listPage, queued, drawn, ran, debounce, reloading, listRequest, announced,
                   turns, listFaults, unsent>>

\* The dialog closes, the filter loses the category, the list is fetched anew.
CategoryDeleted ==
    /\ dropping.pc = "served"
    /\ IF dropping.labels \subseteq dropping.url.labels
       THEN Navigated([dropping.url EXCEPT !.labels = @ \ dropping.labels])
       ELSE UNCHANGED <<queued, unsent>>
    /\ dropping' = NotDropping /\ announced' = writes /\ reloading' = TRUE
    /\ UNCHANGED <<listPage, drawn, ran, debounce, listRequest, table, writes, turns, listFaults>>

DeleteFails ==
    /\ dropping # NotDropping /\ ListFault
    /\ dropping' = NotDropping
    /\ UNCHANGED <<listPage, queued, drawn, ran, debounce, reloading, listRequest, table, writes,
                   announced, turns, unsent>>

ListNext ==
    \/ (\E text \in Texts : Search(text)) \/ (\E v \in Controls(listPage, drawn.url) : setParam(v))
    \/ (\E u \in DeepLinks : Navigate(u))
    \/ resetFilters \/ DebounceFires \/ (\E withUrl \in BOOLEAN : Render(withUrl)) \/ Effects
    \/ ServeList \/ ListArrives \/ ListFails \/ RetryList \/ RefreshList
    \/ (\E rows \in Tables : WriteRow(rows))
    \/ (\E l \in Labels : ConfirmDelete(l)) \/ ServeDelete \/ CategoryDeleted \/ DeleteFails

\* What stands below the filters.
Screen(page, s) ==
    CASE s.error -> "error"
      [] ~s.error /\ ~s.list.shown -> "loading"
      [] ~s.error /\ s.list.shown /\ s.list.empty ->
            IF HasFilters(page, s.url) THEN "no match" ELSE "nothing yet"
      [] OTHER -> "rows"

ListSpec == ListInit /\ [][ListNext]_listVars

-----------------------------------------------------------------------------
\* Every timer, render, effect and request is over.
ListAtRest ==
    /\ queued = drawn /\ ran = Seen(drawn) /\ ~debounce /\ ~reloading
    /\ listRequest = NoListRequest /\ dropping = NotDropping

(* The list on the screen is the answer to the filters on the screen, also while the URL, *)
(* the box and two answers cross ("still drops the previous record and ignores late       *)
(* results", shared/useAsync.ts:15).                                                      *)
ListAnswersFilters == drawn.list.shown => drawn.list.query = Query(listPage, drawn.url)

(* "Nothing yet" is said only to a user who has nothing, whatever the deep link. *)
EmptyMeansNone == Screen(listPage, drawn) = "nothing yet" => drawn.list.none

(* When all is over the word in the box is the one searched for, unless it was typed      *)
(* again before the timer or its URL was overtaken, and the list is as new as the last    *)
(* change the page was told of, or the error is shown.                                    *)
RestIsCurrent ==
    ListAtRest => /\ drawn.box = drawn.url.q \/ unsent
                  /\ Screen(listPage, drawn) # "loading"
                  /\ ~drawn.error => drawn.list.at >= announced

(* All three: what the list page shows is what its filters ask for. *)
ListFollowsFilters == ListAnswersFilters /\ EmptyMeansNone /\ RestIsCurrent
=============================================================================
