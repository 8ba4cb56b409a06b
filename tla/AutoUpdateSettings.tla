-------------------------- MODULE AutoUpdateSettings --------------------------
(***************************************************************************)
(* The daily auto-update: the setting in the state store, the scheduled    *)
(* task it stands for, the requests that change both, and the status cache *)
(* that a request has refreshed in the background and a manager install    *)
(* job in its own thread.  A save is atomic here: see StateStore.          *)
(***************************************************************************)
EXTENDS Naturals

CONSTANTS
    SettingRequests,  \* requests of the Web UI
    MaxRefreshes,     \* bound on the status refreshes
    MaxInstalls       \* bound on the jobs that refresh in their own thread

ASSUME SettingsAssumption == MaxRefreshes \in Nat /\ MaxInstalls \in Nat

VARIABLES
    setting,    \* State.AutoUpdateGlobal on disk
    task,       \* the scheduled task exists
    setters,    \* request -> what it wants, what it has loaded, where it is, and
                \* (history) whether nothing has come between it and the task
    cache,      \* the status cache: loading, queued, what the last query has seen
    refreshing, \* refresh -> kind, where it is and what it has seen
    begun,      \* refreshes begun so far
    installs,   \* manager install jobs that refreshed so far
    ending,     \* the shutdown has begun
    crossed,    \* history: two refreshes ran at once, or one was cancelled
    strayed     \* history: what a request was told, or another request, has parted
                \* task and setting, and no request has since brought them together

settingsVars == <<setting, task, setters, cache, refreshing, begun, installs,
                  ending, crossed, strayed>>

\* What a query of the task tells. The status shows a failed one as "none":
\* only the model remembers the difference.
Told == IF task THEN "task" ELSE "none"

NoRefresh == [kind |-> "none", at |-> "none", seen |-> "failed"]
JustBegun(kind) == [kind |-> kind, at |-> "begun", seen |-> "failed"]
NotAsked == [at |-> "none", want |-> FALSE, old |-> FALSE, clean |-> FALSE]
Pending == {r \in SettingRequests : setters[r].at \notin {"none", "done"}}
Running == {i \in 1..MaxRefreshes : refreshing[i].kind # "none"}

SettingsInit ==
    /\ setting \in BOOLEAN /\ task = setting
    /\ setters = [r \in SettingRequests |-> NotAsked]
    /\ cache = [loading |-> FALSE, queued |-> FALSE, seen |-> Told]
    /\ refreshing = [i \in 1..MaxRefreshes |-> NoRefresh]
    /\ begun = 0 /\ installs = 0
    /\ ending = FALSE /\ crossed = FALSE /\ strayed = FALSE

-----------------------------------------------------------------------------
(* The status cache. *)

Begins(kind) ==
    /\ begun < MaxRefreshes
    /\ begun' = begun + 1
    /\ refreshing' = [refreshing EXCEPT ![begun'] = JustBegun(kind)]

\* A forced refresh is queued behind the one that runs; a shutdown refuses it.
RefreshStatus ==
    IF cache.loading
    THEN cache' = [cache EXCEPT !.queued = TRUE] /\ UNCHANGED <<refreshing, begun>>
    ELSE IF ending
    THEN UNCHANGED <<cache, refreshing, begun>>
    ELSE cache' = [cache EXCEPT !.loading = TRUE] /\ Begins("background")

\* A query that fails or times out passes for a task that is not there.
ReadTask(i) ==
    /\ refreshing[i].at = "begun"
    /\ \E seen \in {Told, "failed"} :
         refreshing' = [refreshing EXCEPT ![i].at = "read", ![i].seen = seen]
    /\ UNCHANGED <<setting, task, setters, cache, begun, installs, ending, crossed, strayed>>

RunsNever == FALSE
RunsAgain == cache.queued

\* finishRefresh: what was queued meanwhile runs now.
FinishRefresh(i) ==
    /\ refreshing[i].at = "read" /\ ~(ending /\ refreshing[i].kind = "background")
    /\ IF RunsAgain /\ ~ending
       THEN /\ begun < MaxRefreshes /\ begun' = begun + 1
            /\ cache' = [loading |-> TRUE, queued |-> FALSE, seen |-> refreshing[i].seen]
            /\ refreshing' = [refreshing EXCEPT ![i] = NoRefresh,
                   ![begun'] = JustBegun("background")]
       ELSE /\ cache' = [loading |-> FALSE, queued |-> FALSE, seen |-> refreshing[i].seen]
            /\ refreshing' = [refreshing EXCEPT ![i] = NoRefresh]
            /\ UNCHANGED begun
    /\ UNCHANGED <<setting, task, setters, installs, ending, crossed, strayed>>

\* cancelRefresh, by the shutdown or by the cancellation of the job.
CancelRefresh(i) ==
    /\ refreshing[i].at # "none" /\ (ending \/ refreshing[i].kind = "job")
    /\ cache' = [cache EXCEPT !.loading = FALSE, !.queued = FALSE]
    /\ refreshing' = [refreshing EXCEPT ![i] = NoRefresh]
    /\ crossed' = TRUE
    /\ UNCHANGED <<setting, task, setters, begun, installs, ending, strayed>>

\* A manager install job refreshes whatever runs already.
JobRefresh ==
    /\ installs < MaxInstalls /\ ~ending
    /\ installs' = installs + 1
    /\ cache' = [cache EXCEPT !.loading = TRUE, !.queued = FALSE]
    /\ Begins("job")
    /\ crossed' = (crossed \/ Running # {})
    /\ UNCHANGED <<setting, task, setters, ending, strayed>>

-----------------------------------------------------------------------------
(* A request: the task first, then the setting, then the task again when the *)
(* setting could not be saved. *)

Ask(r) ==
    /\ setters[r].at = "none" /\ ~ending
    /\ \E want \in BOOLEAN :
         setters' = [s \in SettingRequests |->
            IF s = r
            THEN [at |-> "load", want |-> want, old |-> FALSE, clean |-> Pending = {}]
            ELSE [setters[s] EXCEPT !.clean = FALSE]]
    /\ strayed' = (strayed \/ Pending # {})
    /\ UNCHANGED <<setting, task, cache, refreshing, begun, installs, ending, crossed>>

Moves(r, at) == setters' = [setters EXCEPT ![r].at = at]

LoadSetting(r) ==
    /\ setters[r].at = "load"
    /\ \/ setters' = [setters EXCEPT ![r].at = "task", ![r].old = setting]
       \/ Moves(r, "answer")
    /\ UNCHANGED <<setting, task, cache, refreshing, begun, installs, ending, crossed, strayed>>

\* What schtasks answers need not be what it has done: a command that fails or
\* times out may have changed the task, and a removal that cannot ask for the
\* task answers that there was none.
ChangeTask(r) ==
    /\ setters[r].at = "task"
    /\ \/ task' = setters[r].want /\ Moves(r, "save") /\ UNCHANGED strayed
       \/ /\ ~setters[r].want
          /\ setters' = [setters EXCEPT ![r].at = "save", ![r].clean = @ /\ ~task]
          /\ strayed' = (strayed \/ task)
          /\ UNCHANGED task
       \/ /\ task' \in {task, setters[r].want}
          /\ strayed' = (strayed \/ task' # task)
          /\ Moves(r, "answer")
    /\ UNCHANGED <<setting, cache, refreshing, begun, installs, ending, crossed>>

\* A save may fail although the setting is on disk: StateStore!ReturnSaved.
SaveSetting(r) ==
    /\ setters[r].at = "save"
    /\ \/ /\ setting' = setters[r].want /\ Moves(r, "answer")
          /\ strayed' = (strayed /\ ~setters[r].clean)
       \/ UNCHANGED setting /\ Moves(r, "rollback") /\ UNCHANGED strayed
       \/ setting' = setters[r].want /\ Moves(r, "rollback") /\ strayed' = TRUE
    /\ UNCHANGED <<task, cache, refreshing, begun, installs, ending, crossed>>

TaskOfRequest(r) == setters[r].want
TaskBefore(r) == setters[r].old

RollBackTask(r) ==
    /\ setters[r].at = "rollback"
    /\ \/ task' = TaskBefore(r) /\ UNCHANGED strayed
       \/ UNCHANGED task /\ strayed' = TRUE
    /\ Moves(r, "answer")
    /\ UNCHANGED <<setting, cache, refreshing, begun, installs, ending, crossed>>

Answer(r) ==
    /\ setters[r].at = "answer"
    /\ Moves(r, "done")
    /\ RefreshStatus
    /\ UNCHANGED <<setting, task, installs, ending, crossed, strayed>>

BeginEnding ==
    /\ ~ending
    /\ ending' = TRUE
    /\ UNCHANGED <<setting, task, setters, cache, refreshing, begun, installs, crossed, strayed>>

SettingsNext ==
    \/ \E r \in SettingRequests :
         Ask(r) \/ LoadSetting(r) \/ ChangeTask(r) \/ SaveSetting(r) \/ RollBackTask(r) \/ Answer(r)
    \/ \E i \in 1..MaxRefreshes : ReadTask(i) \/ FinishRefresh(i) \/ CancelRefresh(i)
    \/ JobRefresh
    \/ BeginEnding

SettingsSpec == SettingsInit /\ [][SettingsNext]_settingsVars

-----------------------------------------------------------------------------
(* Properties. *)

\* When every request has been answered and no refresh runs, the status shows
\* the task as it is, unless the last query has failed, refreshes crossed or the
\* shutdown began: a queued refresh is not lost, and it replaces what was read
\* before the request.
StatusIsCurrent ==
    Pending = {} /\ ~cache.loading /\ ~crossed /\ ~ending => cache.seen \in {Told, "failed"}

\* The task exists exactly when the setting says so, once the requests are
\* answered, wherever a request has failed. What parts them is an answer that
\* belies the command, a save that fails after it is on disk, or another
\* request at the same time; the next request that is alone, is told the truth
\* and is saved brings them together again.
TaskFollowsSetting == Pending = {} /\ ~strayed => task = setting
===============================================================================
