------------------------------ MODULE TasksPage ------------------------------
(***************************************************************************)
(* The tasks page (app/tasks/page.tsx): a filtered list, a drawer for one   *)
(* task found in the list, in the dashboard's tasks or fetched, a history   *)
(* over it and actions on the task.  Fetches are cancelled by their         *)
(* effect's cleanup; the list's loads are not guarded.  Wording, focus and  *)
(* the queue board, which only reorders, are left out.                      *)
(***************************************************************************)
EXTENDS Integers, FiniteSets

CONSTANTS Tasks, NoTask,
          Recent,      \* the tasks the dashboard's own list reaches back to
          MaxPending       \* bound on the requests under way

VARIABLES
    tkStatus,          \* the backend: each task's status
    tkRecent,          \* the dashboard's tasks, as last refreshed
    tkFilter,          \* the filter chosen
    tkRows,            \* the list: tasks with their status
    tkLoads,           \* loads of the list under way, with their answers
    tkSelected,        \* selectedTaskId
    tkRemote,          \* remoteTask
    tkFetches,         \* getTask() requests: [task, live]
    tkHistoryOf,       \* historyTaskId
    tkHistory,         \* the task whose entries are shown
    tkHistories,       \* getTaskHistory() requests: [task, live]
    tkBusy,            \* busyTaskId
    tkActions          \* cancellations and retries under way

tkVars == <<tkStatus, tkRecent, tkFilter, tkRows, tkLoads, tkSelected, tkRemote,
            tkFetches, tkHistoryOf, tkHistory, tkHistories, tkBusy, tkActions>>

TaskFilters == {"ALL", "QUEUED"}

\* getTaskPage() as the backend answers it now.
PageOf(filter) ==
    {[task |-> t, status |-> tkStatus[t]] :
       t \in {u \in Tasks : filter = "ALL" \/ tkStatus[u] = filter}}

\* selectedTask: the row of a task, wherever the page has one.
Rows(task) ==
    LET listed == {row \in tkRows : row.task = task}
        recent == {row \in tkRecent : row.task = task}
    IN  CASE listed # {} -> listed
          [] recent # {} -> recent
          [] OTHER -> {row \in {tkRemote} : row.task = task}

Found == tkSelected # NoTask /\ Rows(tkSelected) # {}
NoRemote == [task |-> NoTask, status |-> "none"]

\* historyTaskStatus
HistoryStatus ==
    IF Found /\ tkSelected = tkHistoryOf THEN Rows(tkHistoryOf)
    ELSE {row \in tkRecent : row.task = tkHistoryOf}

Silenced(requests) == {[request EXCEPT !.live = FALSE] : request \in requests}

\* The effect of [selectedTask, selectedTaskId]: a selected task that is nowhere
\* on the page is fetched; the previous request is cancelled by the cleanup.
FetchEffect(fetches) ==
    tkFetches' =
      IF <<tkSelected', Rows(tkSelected)'>> = <<tkSelected, Rows(tkSelected)>> THEN fetches
      ELSE Silenced(fetches) \cup (IF tkSelected' = NoTask \/ Found' THEN {}
                                   ELSE {[task |-> tkSelected', live |-> TRUE]})

\* The effect of [historyTaskId, historyTaskStatus].
HistoryEffect(histories) ==
    tkHistories' =
      IF <<tkHistoryOf', HistoryStatus'>> = <<tkHistoryOf, HistoryStatus>> THEN histories
      ELSE Silenced(histories) \cup (IF tkHistoryOf' = NoTask THEN {}
                                     ELSE {[task |-> tkHistoryOf', live |-> TRUE]})

Pending == Cardinality(tkLoads) + Cardinality(tkFetches) + Cardinality(tkHistories)
             + Cardinality(tkActions)

EffectsAfter(fetches) ==
    FetchEffect(fetches) /\ HistoryEffect(tkHistories) /\ Pending' <= MaxPending
Effects == EffectsAfter(tkFetches)

Loads(filter) == tkLoads' = tkLoads \cup {PageOf(filter)}

\* A queued delivery comes to nothing while the page is open.
TKStatus(t) ==
    /\ tkStatus[t] = "QUEUED" /\ tkStatus' = [tkStatus EXCEPT ![t] = "FAILED"]
    /\ UNCHANGED <<tkRecent, tkFilter, tkRows, tkLoads, tkSelected, tkRemote, tkFetches,
                   tkHistoryOf, tkHistory, tkHistories, tkBusy, tkActions>>

\* The dashboard refreshes; a changed taskRevision loads the list again.
TKRefreshed ==
    /\ tkRecent' = {[task |-> t, status |-> tkStatus[t]] : t \in Recent}
    /\ tkRecent' # tkRecent /\ Loads(tkFilter)
    /\ UNCHANGED <<tkStatus, tkFilter, tkRows, tkSelected, tkRemote, tkHistoryOf,
                   tkHistory, tkBusy, tkActions>>
    /\ Effects

\* changeFilter(), submitSearch(), the robot's menu and the page buttons.
TKFilter(filter) ==
    /\ filter # tkFilter /\ tkSelected = NoTask
    /\ tkFilter' = filter /\ Loads(filter)
    /\ UNCHANGED <<tkStatus, tkRecent, tkRows, tkSelected, tkRemote, tkFetches,
                   tkHistoryOf, tkHistory, tkHistories, tkBusy, tkActions>>
    /\ Pending' <= MaxPending

TKLoaded(load, ok) ==
    /\ tkLoads' = tkLoads \ {load} /\ tkRows' = IF ok THEN load ELSE tkRows
    /\ UNCHANGED <<tkStatus, tkRecent, tkFilter, tkSelected, tkRemote, tkHistoryOf,
                   tkHistory, tkBusy, tkActions>>
    /\ Effects

\* openDrawer() from a row; the drawer covers the list until it is closed.
TKOpen(row) ==
    /\ ~Found /\ row.task # tkSelected /\ tkSelected' = row.task
    /\ UNCHANGED <<tkStatus, tkRecent, tkFilter, tkRows, tkLoads, tkRemote, tkHistoryOf,
                   tkHistory, tkBusy, tkActions>>
    /\ Effects

TKClose ==
    /\ Found /\ tkHistoryOf = NoTask /\ tkSelected' = NoTask /\ tkRemote' = NoRemote
    /\ UNCHANGED <<tkStatus, tkRecent, tkFilter, tkRows, tkLoads, tkHistoryOf, tkHistory,
                   tkBusy, tkActions>>
    /\ Effects

\* Seeded fault: a cancelled request's answer is used.
Wanted_Anyway(request) == request.task # NoTask

\* The cancelled flag of an effect's request.
StillWanted(request) == request.live

TKFetched(fetch) ==
    /\ tkRemote' = IF StillWanted(fetch)
                   THEN [task |-> fetch.task, status |-> tkStatus[fetch.task]] ELSE tkRemote
    /\ UNCHANGED <<tkStatus, tkRecent, tkFilter, tkRows, tkLoads, tkSelected, tkHistoryOf,
                   tkHistory, tkBusy, tkActions>>
    /\ EffectsAfter(tkFetches \ {fetch})

\* A task that cannot be fetched closes its drawer.
TKFetchFails(fetch) ==
    /\ IF StillWanted(fetch) THEN tkSelected' = NoTask /\ tkRemote' = NoRemote
       ELSE UNCHANGED <<tkSelected, tkRemote>>
    /\ UNCHANGED <<tkStatus, tkRecent, tkFilter, tkRows, tkLoads, tkHistoryOf, tkHistory,
                   tkBusy, tkActions>>
    /\ EffectsAfter(tkFetches \ {fetch})

TKHistoryOpens ==
    /\ Found /\ tkHistoryOf = NoTask /\ tkHistoryOf' = tkSelected
    /\ UNCHANGED <<tkStatus, tkRecent, tkFilter, tkRows, tkLoads, tkSelected, tkRemote,
                   tkHistory, tkBusy, tkActions>>
    /\ Effects

TKHistoryCloses ==
    /\ tkHistoryOf # NoTask /\ tkHistoryOf' = NoTask /\ tkHistory' = NoTask
    /\ UNCHANGED <<tkStatus, tkRecent, tkFilter, tkRows, tkLoads, tkSelected, tkRemote,
                   tkBusy, tkActions>>
    /\ Effects

TKHistoryAnswer(request, ok) ==
    /\ tkHistory' = IF ok /\ StillWanted(request) THEN request.task ELSE tkHistory
    /\ tkHistories' = tkHistories \ {request}
    /\ UNCHANGED <<tkStatus, tkRecent, tkFilter, tkRows, tkLoads, tkSelected, tkRemote,
                   tkFetches, tkHistoryOf, tkBusy, tkActions>>

\* runTaskAction(): cancelling a task shown queued, retrying one shown failed.
TKAct(row) ==
    /\ Found /\ tkHistoryOf = NoTask /\ row \in Rows(tkSelected) /\ tkBusy # tkSelected
    /\ row.status \in {"QUEUED", "FAILED"} /\ tkBusy' = tkSelected
    /\ tkActions' = tkActions \cup {[task |-> tkSelected, expects |-> row.status,
                                     filter |-> tkFilter]}
    /\ UNCHANGED <<tkStatus, tkRecent, tkFilter, tkRows, tkLoads, tkSelected, tkRemote,
                   tkFetches, tkHistoryOf, tkHistory, tkHistories>>
    /\ Pending' <= MaxPending

\* The backend acts on a task that is still as it was shown, the list loads as
\* it was filtered when the action began, and every task's buttons open.
TKActed(action) ==
    LET ok == tkStatus[action.task] = action.expects IN
    /\ tkActions' = tkActions \ {action} /\ tkBusy' = NoTask
    /\ IF ok
       THEN tkStatus' = [tkStatus EXCEPT ![action.task] =
                           IF action.expects = "QUEUED" THEN "CANCELLED" ELSE "QUEUED"]
            /\ tkLoads' = tkLoads \cup {PageOf(action.filter)'}
       ELSE UNCHANGED <<tkStatus, tkLoads>>
    /\ UNCHANGED <<tkRecent, tkFilter, tkRows, tkSelected, tkRemote, tkFetches, tkHistoryOf,
                   tkHistory, tkHistories>>

\* Tasks further back have ended.  The page may open on one its address names.
TKInit ==
    /\ tkStatus = [t \in Tasks |-> IF t \in Recent THEN "QUEUED" ELSE "CANCELLED"]
    /\ tkFilter = "ALL"
    /\ tkRecent = {} /\ tkRows = {} /\ tkLoads = {PageOf("ALL")}
    /\ tkSelected \in Tasks \cup {NoTask} /\ tkRemote = NoRemote
    /\ tkFetches = IF tkSelected = NoTask THEN {} ELSE {[task |-> tkSelected, live |-> TRUE]}
    /\ tkHistoryOf = NoTask /\ tkHistory = NoTask /\ tkHistories = {}
    /\ tkBusy = NoTask /\ tkActions = {}

TKNext ==
    \/ TKRefreshed \/ TKClose \/ TKHistoryOpens \/ TKHistoryCloses
    \/ \E t \in Tasks : TKStatus(t)
    \/ \E filter \in TaskFilters : TKFilter(filter)
    \/ \E load \in tkLoads, ok \in BOOLEAN : TKLoaded(load, ok)
    \/ \E row \in tkRows : TKOpen(row)
    \/ \E fetch \in tkFetches : TKFetched(fetch) \/ TKFetchFails(fetch)
    \/ \E request \in tkHistories, ok \in BOOLEAN : TKHistoryAnswer(request, ok)
    \/ (tkSelected # NoTask /\ \E row \in Rows(tkSelected) : TKAct(row))
    \/ \E action \in tkActions : TKActed(action)

-----------------------------------------------------------------------------
\* What is opened is what is shown: the history over the drawer is the named
\* task's, however late the answers to earlier ones come, and a request that
\* fails closes no other task's drawer (app/tasks/page.tsx 90-95, 119-130).
ShowsOneTask ==
    [][ /\ tkHistory' \in {NoTask, tkHistoryOf'}
        /\ \A fetch \in tkFetches \ tkFetches' :
             tkSelected # NoTask /\ tkSelected' = NoTask => fetch.task = tkSelected ]_tkVars
=============================================================================
