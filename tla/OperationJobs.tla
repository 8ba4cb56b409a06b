--------------------------- MODULE OperationJobs ---------------------------
(***************************************************************************)
(* The operation job queue of the PatchBoard WebUI process: HTTP handlers, *)
(* the tray and timers submit jobs, one queue runner executes them in      *)
(* order, anybody may cancel, and the process may shut down at any moment. *)
(*                                                                         *)
(*   src/internal/updater/operation_job.go            queue, cancel, prune *)
(*   src/internal/updater/operation_job_scheduler.go  its state            *)
(*   src/internal/updater/operation_job_actions.go    the job bodies       *)
(*   src/internal/updater/app_lifecycle.go, app.go, main.go     shutdown   *)
(*                                                                         *)
(* Every action below is one critical section of jobScheduler.mu or of     *)
(* lifecycle.mu: between two of them any other goroutine may run.          *)
(*                                                                         *)
(* A definition marked "Mutant" is a wrong version of the one after it; no *)
(* specification uses it. A property is known to bite when it fails once   *)
(* the mutant replaces the definition.                                     *)
(***************************************************************************)
EXTENDS Integers, FiniteSets

CONSTANTS
    Clients,      \* goroutines that submit jobs
    PackageKeys,  \* canonical package keys
    Requests,     \* the jobs a client may ask for
    MaxPending,   \* maxPendingOperationJobs
    HistoryLimit, \* operationJobRecentHistoryLimit
    MaxJobs       \* bound: no job is submitted once so many were admitted

SingletonTypes == {"scan", "inventory-refresh", "app-self-update"}
PackageTypes   == {"install", "update", "update-all"}
UpdateTypes    == {"update", "update-all"}
JobTypes       == SingletonTypes \cup PackageTypes \cup {"manager-install"}

ProgressStates == {"running", "starting", "accepted", "verifying"}
OutcomeStates  == {"succeeded", "accepted_not_verified", "failed", "cancelled"}
JobStates      == {"queued", "refreshing"} \cup ProgressStates \cup OutcomeStates

(* A request carries the package keys its job deduplicates by; `rejected'  *)
(* marks the update jobs that only report why nothing was started.         *)
RequestRecords == [type : JobTypes, keys : SUBSET PackageKeys, rejected : BOOLEAN]

ASSUME RequestsAssumption == Requests \subseteq RequestRecords
ASSUME LimitsAssumption   == /\ MaxPending \in Nat
                             /\ HistoryLimit \in Nat \ {0}
                             /\ MaxJobs \in Nat

VARIABLES
    jobs,      \* jobScheduler.jobs: job number -> its status
    queue,     \* jobScheduler.queue, as a set: numbers only grow and are
               \* appended at the back, so the slice is this set in order
    sequence,  \* jobScheduler.sequence
    active,    \* jobScheduler.active
    unsent,    \* jobScheduler.revision is no longer the one an event stream
               \* sent last: a bump sets it, sending the job list clears it
    clients,   \* where each submitting goroutine is
    runners,   \* the live queue runner goroutines, keyed by the job whose
               \* admission launched them
    shutdown,  \* how far requestShutdown and the deferred part of main are
    timedOut   \* a wait for background work gave up

scheduler == <<jobs, queue, sequence, active, unsent>>
vars == <<jobs, queue, sequence, active, unsent, clients, runners,
          shutdown, timedOut>>

JobRecords == [request : RequestRecords, state : JobStates,
               running : BOOLEAN, cancelRequested : BOOLEAN]

ClientRecords == [at : {"idle"}]
                 \cup [at : {"admitted"}, request : RequestRecords]
                 \cup [at : {"launch", "refused"}, job : Nat]
RunnerRecords == [at : {"pop"}]
                 \cup [at : {"act", "refresh", "panic", "end"}, job : Nat]

TypeOK ==
    /\ sequence \in Nat
    /\ DOMAIN jobs \subseteq 1..sequence
    /\ jobs \in [DOMAIN jobs -> JobRecords]
    /\ queue \subseteq 1..sequence
    /\ active \in BOOLEAN
    /\ unsent \in BOOLEAN
    /\ clients \in [Clients -> ClientRecords]
    /\ DOMAIN runners \subseteq Nat
    /\ runners \in [DOMAIN runners -> RunnerRecords]
    /\ shutdown \in {"off", "begun", "waiting", "closing", "final", "exited"}
    /\ timedOut \in BOOLEAN

-----------------------------------------------------------------------------
(* Reading the job list.                                                   *)

ShuttingDown == shutdown # "off"

Complete(job) == /\ ~job.running
                 /\ job.state \notin {"queued", "running", "refreshing"}

Incomplete == {j \in DOMAIN jobs : ~Complete(jobs[j])}

Pending == queue \cap Incomplete

Conflict(r, s) ==
    \/ r.type \in SingletonTypes /\ s.type = r.type
    \/ /\ r.type \in PackageTypes
       /\ s.type \in PackageTypes
       /\ r.keys \cap s.keys # {}

(* Mutant: the job that is being executed is forgotten.                    *)
DuplicatePending(r) == \E j \in Pending : Conflict(r, jobs[j].request)

Duplicate(r) == \E j \in Incomplete : Conflict(r, jobs[j].request)

(* What pruneLocked keeps: every job that is not complete, the latest      *)
(* complete job of each type and the HistoryLimit latest complete jobs.    *)
(* Mutant: only queued jobs are exempt, not the running one.               *)
DoneOrRunning(js) == {j \in DOMAIN js : js[j].state # "queued"}

Done(js) == {j \in DOMAIN js : Complete(js[j])}

(* Mutant: the latest job of a type is not exempt.                         *)
LatestOfNoType(js) == {}

LatestOfType(js) ==
    {j \in Done(js) :
        \A k \in Done(js) : k > j => js[k].request.type # js[j].request.type}

(* Mutant: one complete job too many is kept.                              *)
MostRecentAndOne(js) ==
    {j \in Done(js) : Cardinality({k \in Done(js) : k > j}) <= HistoryLimit}

MostRecent(js) ==
    {j \in Done(js) : Cardinality({k \in Done(js) : k > j}) < HistoryLimit}

Retained(js) == (DOMAIN js \ Done(js)) \cup LatestOfType(js) \cup MostRecent(js)

Pruned(js) ==
    IF Cardinality(DOMAIN js) <= HistoryLimit
    THEN js
    ELSE [j \in Retained(js) |-> js[j]]

(* Mutant: pruned jobs stay in the queue.                                  *)
PublishAndKeepQueue(js) ==
    /\ jobs' = Pruned(js)
    /\ queue' = queue

(* Job list js is published and pruned; the queue forgets pruned jobs.     *)
PublishAndPrune(js) ==
    /\ jobs' = Pruned(js)
    /\ queue' = IF Cardinality(DOMAIN js) <= HistoryLimit
                THEN queue
                ELSE queue \cap DOMAIN jobs'

(* Did pruning to the new jobs and queue bump the revision?                *)
PruneBumps(js) == DOMAIN jobs' # DOMAIN js \/ queue' # queue

(* Mutant: the change is not announced by a new revision.                  *)
MutateSilently(j, job) ==
    /\ jobs' = [jobs EXCEPT ![j] = job]
    /\ unsent' = unsent

(* mutateOperationJob: one status change, one bump, no pruning.            *)
Mutate(j, job) ==
    /\ jobs' = [jobs EXCEPT ![j] = job]
    /\ unsent' = TRUE

CancelledInQueue(job) ==
    [job EXCEPT !.state = "cancelled", !.running = FALSE, !.cancelRequested = TRUE]

(* Mutant: a job cancelled in the queue is not marked, so that the runner  *)
(* cannot tell it from a waiting one.                                      *)
WithUnmarkedCancel(job) ==
    IF job.state = "queued"
    THEN [job EXCEPT !.state = "cancelled", !.running = FALSE]
    ELSE [job EXCEPT !.cancelRequested = TRUE]

(* The effect of a cancel on one job: a queued job is finished at once, a  *)
(* running one has its context cancelled.                                  *)
WithCancel(job) ==
    IF job.state = "queued"
    THEN CancelledInQueue(job)
    ELSE [job EXCEPT !.cancelRequested = TRUE]

-----------------------------------------------------------------------------
Init ==
    /\ jobs = [j \in {} |-> j]
    /\ queue = {}
    /\ sequence = 0
    /\ active = FALSE
    /\ unsent = FALSE
    /\ clients = [c \in Clients |-> [at |-> "idle"]]
    /\ runners = [w \in {} |-> w]
    /\ shutdown = "off"
    /\ timedOut = FALSE

-----------------------------------------------------------------------------
(* Submitting a job: the shutdown check, the admission and the launch of   *)
(* the runner are three separate critical sections.                        *)

CheckShutdown(c, r) ==
    /\ clients[c].at = "idle"
    /\ ~ShuttingDown
    /\ sequence < MaxJobs
    /\ clients' = [clients EXCEPT ![c] = [at |-> "admitted", request |-> r]]
    /\ UNCHANGED <<scheduler, runners, shutdown, timedOut>>

Reject(c) ==
    /\ clients[c].at = "admitted"
    /\ \/ Duplicate(clients[c].request)
       \/ Cardinality(Pending) >= MaxPending
    /\ clients' = [clients EXCEPT ![c] = [at |-> "idle"]]
    /\ UNCHANGED <<scheduler, runners, shutdown, timedOut>>

NewJob(r) == [request |-> r, state |-> "queued",
              running |-> FALSE, cancelRequested |-> FALSE]

(* Mutant: the number is taken before the sequence is advanced: "job-0".   *)
OldNumber == sequence

NewNumber == sequence + 1

(* Mutant: a runner is launched although one is active.                    *)
AlwaysLaunch == TRUE

MustLaunch == ~active

Enqueue(c) ==
    LET j == NewNumber
    IN  /\ clients[c].at = "admitted"
        /\ ~Duplicate(clients[c].request)
        /\ Cardinality(Pending) < MaxPending
        /\ sequence' = sequence + 1
        /\ jobs' = [k \in DOMAIN jobs \cup {j} |->
                       IF k = j THEN NewJob(clients[c].request) ELSE jobs[k]]
        /\ queue' = queue \cup {j}
        /\ unsent' = TRUE
        /\ active' = TRUE
        /\ clients' = [clients EXCEPT ![c] =
                          IF MustLaunch THEN [at |-> "launch", job |-> j]
                                        ELSE [at |-> "idle"]]
        /\ UNCHANGED <<runners, shutdown, timedOut>>

(* Mutant: work is accounted for without looking at the shutdown flag.     *)
AlwaysStartWork == TRUE

(* startBackgroundWork refuses new work under lifecycle.mu once shutdown   *)
(* has begun, and otherwise accounts for it before the lock is released.   *)
MayStartWork == ~ShuttingDown

LaunchRunner(c) ==
    /\ clients[c].at = "launch"
    /\ MayStartWork
    /\ runners' = [w \in DOMAIN runners \cup {clients[c].job} |->
                      IF w = clients[c].job THEN [at |-> "pop"] ELSE runners[w]]
    /\ clients' = [clients EXCEPT ![c] = [at |-> "idle"]]
    /\ UNCHANGED <<scheduler, shutdown, timedOut>>

LaunchRefused(c) ==
    /\ clients[c].at = "launch"
    /\ ~MayStartWork
    /\ clients' = [clients EXCEPT ![c].at = "refused"]
    /\ UNCHANGED <<scheduler, runners, shutdown, timedOut>>

(* The submitter whose launch was refused gives up the active flag and     *)
(* cancels its own job, and only that one.                                 *)
CancelRefused(c) ==
    /\ clients[c].at = "refused"
    /\ active' = FALSE
    /\ jobs' = [k \in DOMAIN jobs |-> IF k = clients[c].job
                                      THEN CancelledInQueue(jobs[k])
                                      ELSE jobs[k]]
    /\ unsent' = TRUE
    /\ clients' = [clients EXCEPT ![c] = [at |-> "idle"]]
    /\ UNCHANGED <<queue, sequence, runners, shutdown, timedOut>>

-----------------------------------------------------------------------------
(* The queue runner.                                                       *)

Runnable(j) == /\ j \in DOMAIN jobs
               /\ ~jobs[j].cancelRequested
               /\ ~ShuttingDown

(* Jobs popped on the way to the next runnable one finish as cancelled.    *)
Drained(js, popped) ==
    [j \in DOMAIN js |-> IF j \in popped THEN CancelledInQueue(js[j]) ELSE js[j]]

RunnerTakes(w, j) ==
    LET passed == {k \in queue : k < j}
    IN  /\ w \in DOMAIN runners
        /\ runners[w].at = "pop"
        /\ j \in queue
        /\ Runnable(j)
        /\ \A k \in passed : ~Runnable(k)
        /\ jobs' = [Drained(jobs, passed) EXCEPT
                       ![j] = [@ EXCEPT !.state = "running", !.running = TRUE]]
        /\ queue' = queue \ (passed \cup {j})
        /\ unsent' = TRUE
        /\ runners' = [runners EXCEPT ![w] = [at |-> "act", job |-> j]]
        /\ UNCHANGED <<sequence, active, clients, shutdown, timedOut>>

(* Mutant: a cancelled job at the head of the queue passes for the end.    *)
RunnerEndsEarly(w) ==
    /\ w \in DOMAIN runners
    /\ runners[w].at = "pop"
    /\ \E k \in queue : ~Runnable(k) /\ \A i \in queue : k <= i
    /\ active' = FALSE
    /\ runners' = [v \in DOMAIN runners \ {w} |-> runners[v]]
    /\ UNCHANGED <<jobs, queue, unsent, sequence, clients, shutdown, timedOut>>

(* Nothing left to run: the runner gives up the active flag in the same    *)
(* critical section that found the queue empty, and its goroutine ends.    *)
RunnerEnds(w) ==
    /\ w \in DOMAIN runners
    /\ runners[w].at = "pop"
    /\ \A k \in queue : ~Runnable(k)
    /\ jobs' = Drained(jobs, queue)
    /\ queue' = {}
    /\ unsent' = (unsent \/ queue \cap DOMAIN jobs # {})
    /\ active' = FALSE
    /\ runners' = [v \in DOMAIN runners \ {w} |-> runners[v]]
    /\ UNCHANGED <<sequence, clients, shutdown, timedOut>>

(* The terminal state of a job whose body has returned: a body that left   *)
(* it running or refreshing lets the runner decide.                        *)
FinalStates(job) ==
    IF job.state \notin {"running", "refreshing"} THEN {job.state}
    ELSE IF job.cancelRequested THEN {"cancelled"}
    ELSE {"failed", "succeeded"}

RunnerFinishes(w) ==
    /\ w \in DOMAIN runners
    /\ runners[w].at = "end"
    /\ LET j == runners[w].job
       IN  \E s \in FinalStates(jobs[j]) :
              PublishAndPrune([jobs EXCEPT ![j] =
                  [@ EXCEPT !.state = s, !.running = FALSE]])
    /\ unsent' = TRUE
    /\ runners' = [runners EXCEPT ![w] = [at |-> "pop"]]
    /\ UNCHANGED <<sequence, active, clients, shutdown, timedOut>>

-----------------------------------------------------------------------------
(* The job bodies, reduced to the statuses they publish. A body is at      *)
(* "act" until its command or scan returns, then at "refresh" while the    *)
(* inventory is refreshed. Its context is done once its job is cancelled   *)
(* or the process shuts down. A body whose installer was cancelled sets    *)
(* cancelRequested itself, with its context alive; from there on it does   *)
(* not look at its context, so ContextDone may count both.                 *)

ContextDone(job) == job.cancelRequested \/ ShuttingDown

(* The body run by w publishes status job and moves on to label next.      *)
BodyPublishes(w, job, next) ==
    /\ Mutate(runners[w].job, job)
    /\ runners' = [runners EXCEPT ![w].at = next]
    /\ UNCHANGED <<queue, sequence, active, clients, shutdown, timedOut>>

InBody(w, label) == w \in DOMAIN runners /\ runners[w].at = label

BodyJob(w) == jobs[runners[w].job]

CancelledInBody(job) ==
    [job EXCEPT !.state = "cancelled", !.cancelRequested = TRUE]

(* What an update reports while its packages are processed one by one: a   *)
(* Store package is also accepted and verified. Repeats of "starting" only *)
(* change the notice and are left out.                                     *)
NextProgress(state) ==
    CASE state = "starting" -> "accepted"
      [] state = "accepted" -> "verifying"
      [] OTHER -> "starting"

UpdateProgress(w) ==
    /\ InBody(w, "act")
    /\ BodyJob(w).request.type \in UpdateTypes
    /\ ~BodyJob(w).request.rejected
    /\ BodyPublishes(w, [BodyJob(w) EXCEPT !.state = NextProgress(@)], "act")

(* The command was cancelled by the context of its job: no refresh follows. *)
ActCancelled(w) ==
    /\ InBody(w, "act")
    /\ ~BodyJob(w).request.rejected
    /\ ContextDone(BodyJob(w))
    /\ BodyPublishes(w,
          [BodyJob(w) EXCEPT !.state = "cancelled",
              !.cancelRequested = @ \/ BodyJob(w).request.type # "app-self-update"],
          "end")

(* An installer was cancelled by itself or by the user: its job is shown   *)
(* as cancelled, but its context is alive and the inventory is refreshed.  *)
ActAborted(w) ==
    /\ InBody(w, "act")
    /\ ~BodyJob(w).request.rejected
    /\ BodyJob(w).request.type \in PackageTypes \cup {"manager-install"}
    /\ ~ContextDone(BodyJob(w))
    /\ BodyPublishes(w, CancelledInBody(BodyJob(w)), "refresh")

(* The command returned: every job but a self-update refreshes the         *)
(* inventory. An update does not look at its context here.                 *)
ActDone(w) ==
    /\ InBody(w, "act")
    /\ ~BodyJob(w).request.rejected
    /\ BodyJob(w).request.type # "app-self-update"
    /\ ContextDone(BodyJob(w)) => BodyJob(w).request.type \in UpdateTypes
    /\ BodyPublishes(w, [BodyJob(w) EXCEPT !.state = "refreshing"], "refresh")

(* A rejected update fails at once; a self-update ends without refresh.    *)
ActEnds(w) ==
    /\ InBody(w, "act")
    /\ \/ BodyJob(w).request.rejected
       \/ BodyJob(w).request.type = "app-self-update"
    /\ \E s \in IF BodyJob(w).request.rejected THEN {"failed"}
                ELSE {"failed", "succeeded"} :
          BodyPublishes(w, [BodyJob(w) EXCEPT !.state = s], "end")

(* After the refresh an update and an inventory refresh look at their      *)
(* context once more; the other jobs report how their command ended. A     *)
(* job that is shown as cancelled stays so.                                *)
RefreshStates(job) ==
    CASE job.request.type = "inventory-refresh" -> {"succeeded"}
      [] job.request.type \in UpdateTypes ->
            {"succeeded", "failed", "accepted_not_verified"}
      [] OTHER -> {"succeeded", "failed"}

(* Mutant: the context is not looked at again.                             *)
OutcomesAnyway(job) ==
    IF job.state = "cancelled" THEN {job}
    ELSE {[job EXCEPT !.state = s] : s \in RefreshStates(job)}

Outcomes(job) ==
    IF job.state = "cancelled" THEN {job}
    ELSE IF /\ job.request.type \in UpdateTypes \cup {"inventory-refresh"}
            /\ ContextDone(job)
    THEN {CancelledInBody(job)}
    ELSE {[job EXCEPT !.state = s] : s \in RefreshStates(job)}

RefreshDone(w) ==
    /\ InBody(w, "refresh")
    /\ \E job \in Outcomes(BodyJob(w)) : BodyPublishes(w, job, "end")

(* Mutant: the panic ends the goroutine of the queue runner.               *)
BodyPanicsThrough(w) ==
    /\ InBody(w, "act") \/ InBody(w, "refresh")
    /\ runners' = [v \in DOMAIN runners \ {w} |-> runners[v]]
    /\ UNCHANGED <<scheduler, clients, shutdown, timedOut>>

(* A panicking body is recovered, then recorded as a failure of its job.   *)
BodyPanics(w) ==
    /\ InBody(w, "act") \/ InBody(w, "refresh")
    /\ runners' = [runners EXCEPT ![w].at = "panic"]
    /\ UNCHANGED <<scheduler, clients, shutdown, timedOut>>

RecordPanic(w) ==
    /\ InBody(w, "panic")
    /\ BodyPublishes(w, [BodyJob(w) EXCEPT !.state = "failed"], "end")

-----------------------------------------------------------------------------
(* Cancelling, reading and shutting down.                                  *)

CancelOperationJob(j) ==
    /\ j \in DOMAIN jobs
    /\ IF jobs[j].state = "queued" \/ jobs[j].running
       THEN /\ PublishAndPrune([jobs EXCEPT ![j] = WithCancel(jobs[j])])
            /\ unsent' = TRUE
       ELSE /\ PublishAndPrune(jobs)
            /\ unsent' = (unsent \/ PruneBumps(jobs))
    /\ UNCHANGED <<sequence, active, clients, runners, shutdown, timedOut>>

(* GET /api/jobs prunes and reads, as the event stream does before it      *)
(* waits for its timer.                                                    *)
ReadJobs ==
    /\ PublishAndPrune(jobs)
    /\ unsent' = (unsent \/ PruneBumps(jobs))
    /\ UNCHANGED <<sequence, active, clients, runners, shutdown, timedOut>>

(* The event stream prunes, reads, and sends the list if its revision has  *)
(* moved since the last send.                                              *)
EventStreamPoll ==
    /\ PublishAndPrune(jobs)
    /\ unsent' = FALSE
    /\ UNCHANGED <<sequence, active, clients, runners, shutdown, timedOut>>

BeginShutdown ==
    /\ shutdown = "off"
    /\ shutdown' = "begun"
    /\ UNCHANGED <<scheduler, clients, runners, timedOut>>

CancelAll ==
    LET cancelled == [j \in DOMAIN jobs |->
                         IF j \in Incomplete THEN WithCancel(jobs[j]) ELSE jobs[j]]
    IN  /\ PublishAndPrune(cancelled)
        /\ unsent' = (unsent \/ Incomplete # {} \/ PruneBumps(cancelled))

(* cancelOperationJobsForShutdown runs once in requestShutdown and again   *)
(* when the server has stopped and main returns: because requestShutdown   *)
(* has closed it or, at any moment, because the server itself failed.      *)
CancelJobsForShutdown ==
    /\ shutdown \in {"begun", "waiting", "closing"}
    /\ CancelAll
    /\ \/ shutdown = "begun" /\ shutdown' = "waiting"
       \/ shutdown' = "final"
    /\ UNCHANGED <<sequence, active, clients, runners, timedOut>>

(* Mutant: the wait has no timeout.                                        *)
StopWaitingIdle ==
    /\ shutdown \in {"waiting", "final"}
    /\ DOMAIN runners = {}
    /\ shutdown' = IF shutdown = "waiting" THEN "closing" ELSE "exited"
    /\ UNCHANGED <<scheduler, clients, runners, timedOut>>

(* The wait for background work ends when no runner is left or on timeout. *)
StopWaiting ==
    /\ shutdown \in {"waiting", "final"}
    /\ shutdown' = IF shutdown = "waiting" THEN "closing" ELSE "exited"
    /\ timedOut' = (timedOut \/ DOMAIN runners # {})
    /\ UNCHANGED <<scheduler, clients, runners>>

-----------------------------------------------------------------------------
ClientStep(c) == \/ Reject(c) \/ Enqueue(c) \/ LaunchRunner(c)
                 \/ LaunchRefused(c) \/ CancelRefused(c)

RunnerStep(w) == \/ \E j \in queue : RunnerTakes(w, j)
                 \/ RunnerEnds(w) \/ RunnerFinishes(w)

BodyStep(w) == \/ UpdateProgress(w) \/ ActCancelled(w) \/ ActAborted(w)
               \/ ActDone(w) \/ ActEnds(w) \/ RefreshDone(w)
               \/ BodyPanics(w) \/ RecordPanic(w)

ShutdownStep == CancelJobsForShutdown \/ StopWaiting

Step == \/ \E c \in Clients : (\E r \in Requests : CheckShutdown(c, r)) \/ ClientStep(c)
        \/ \E w \in DOMAIN runners : RunnerStep(w) \/ BodyStep(w)
        \/ \E j \in DOMAIN jobs : CancelOperationJob(j)
        \/ ReadJobs
        \/ EventStreamPoll
        \/ BeginShutdown
        \/ ShutdownStep

(* Once main has returned the process is gone.                             *)
Next == \/ shutdown # "exited" /\ Step
        \/ shutdown = "exited" /\ UNCHANGED vars

Safety == Init /\ [][Next]_vars

(* Goroutines run; commands, scans and refreshes end because they are      *)
(* bounded by a timeout. Nobody has to submit, cancel, read or shut down.  *)
QueueFairness ==
    /\ \A c \in Clients : WF_vars(shutdown # "exited" /\ ClientStep(c))
    /\ \A w \in 1..(MaxJobs + Cardinality(Clients)) :
          WF_vars(shutdown # "exited" /\ (RunnerStep(w) \/ RecordPanic(w)))
    /\ WF_vars(shutdown # "exited" /\ ShutdownStep)

BodyFairness ==
    \A w \in 1..(MaxJobs + Cardinality(Clients)) :
       WF_vars(/\ shutdown # "exited"
               /\ \/ ActCancelled(w) \/ ActAborted(w) \/ ActDone(w) \/ ActEnds(w)
                  \/ RefreshDone(w))

(* A command may hang for ever: a property says so when it needs           *)
(* BodyFairness.                                                           *)
Spec == Safety /\ QueueFairness

-----------------------------------------------------------------------------
(* The properties.                                                         *)

(* Admission deduplicates: no two jobs that are queued or running are of   *)
(* the same singleton type or touch the same package.                      *)
NoConflictingJobs ==
    \A j, k \in Incomplete :
       j # k => ~Conflict(jobs[j].request, jobs[k].request)

(* `active' is a token: exactly when it is set there is one goroutine that *)
(* runs the queue or still has to launch the goroutine that will.          *)
Launching == {c \in Clients : clients[c].at \in {"launch", "refused"}}

RunnerIsUnique ==
    Cardinality(DOMAIN runners) + Cardinality(Launching) = IF active THEN 1 ELSE 0

(* A job is marked running exactly while a runner executes it, and it is   *)
(* not pruned before it has finished.                                      *)
RunningHasRunner ==
    {j \in DOMAIN jobs : jobs[j].running} =
       {runners[w].job : w \in {v \in DOMAIN runners : runners[v].at # "pop"}}

(* No lost wakeup: until the process shuts down a queued job is in the     *)
(* queue and the queue has a runner.                                       *)
QueuedIsServed ==
    ~ShuttingDown =>
       \A j \in DOMAIN jobs : jobs[j].state = "queued" => j \in queue /\ active

(* The queue never names a job that pruning has removed, and what it names *)
(* is waiting or was cancelled there.                                      *)
QueueIsSound ==
    \A j \in queue : /\ j \in DOMAIN jobs
                     /\ ~jobs[j].running
                     /\ jobs[j].state \in {"queued", "cancelled"}
                     /\ jobs[j].state = "cancelled" <=> jobs[j].cancelRequested

(* Submitting and cancelling for ever cannot grow the scheduler: the queue *)
(* admits MaxPending jobs beside the running one, and of the complete ones *)
(* the HistoryLimit latest stay, which include the latest of at least one  *)
(* type, and the latest of every other type. (During a shutdown a client   *)
(* whose launch was refused completes its job without pruning.)            *)
SchedulerIsBounded ==
    LET done == DOMAIN jobs \ Incomplete
    IN  /\ Cardinality(Pending) <= MaxPending
        /\ Cardinality(Incomplete) <= MaxPending + 1
        /\ ~ShuttingDown /\ done # {} =>
              Cardinality(done) <
                 HistoryLimit + Cardinality({jobs[j].request.type : j \in done})

(* An outcome is final from the moment it is published, before the runner  *)
(* marks the job as no longer running: a late cancel does not rewrite it,  *)
(* and a job cancelled in the queue is not started when its turn comes.    *)
(* Only a job that is shown as cancelled while its inventory refresh still *)
(* runs may yet become a failure, when the refresh panics.                 *)
OutcomeIsFinal ==
    [][\A j \in DOMAIN jobs \cap DOMAIN jobs' :
          jobs[j].state \in OutcomeStates =>
             /\ jobs'[j].running => jobs[j].running
             /\ \/ jobs'[j].state = jobs[j].state
                \/ /\ jobs[j].state = "cancelled" /\ jobs'[j].state = "failed"
                   /\ \E w \in DOMAIN runners : runners[w] = [at |-> "panic", job |-> j]]_vars

(* An update or inventory refresh that was cancelled, or caught by a       *)
(* shutdown, while it was still working never goes on to report success.   *)
CancelledUpdateNeverSucceeds ==
    [][\A j \in DOMAIN jobs \cap DOMAIN jobs' :
          /\ jobs[j].request.type \in UpdateTypes \cup {"inventory-refresh"}
          /\ jobs[j].state \notin OutcomeStates
          /\ ContextDone(jobs[j])
          => jobs'[j].state \notin {"succeeded", "accepted_not_verified"}]_vars

(* Pruning removes a job only when a later job of its type is kept that    *)
(* has completed, so the latest job of every type stays on display.        *)
PruningKeepsLatest ==
    [][\A j \in DOMAIN jobs \ DOMAIN jobs' :
          \E k \in DOMAIN jobs' :
             /\ k > j
             /\ jobs'[k].request.type = jobs[j].request.type
             /\ Complete(jobs'[k])]_vars

(* The final result of a job is not lost (the claim of docs/testing/       *)
(* privilege-boundary-smoke-test.md, section 6): only jobs that completed  *)
(* in an earlier step, and so could be read, are ever removed.             *)
FinalResultIsReadable ==
    [][\A j \in DOMAIN jobs \ DOMAIN jobs' : Complete(jobs[j])]_vars

(* The event stream misses nothing: a step that changes what it would show *)
(* leaves the revision moved, unless that step sends the new list.         *)
StreamSeesEveryChange ==
    [][jobs' # jobs => unsent' \/ EventStreamPoll]_vars

(* When the wait for background work did not time out, nothing a job       *)
(* started outlives the shutdown that waited for it.                       *)
NoWorkAfterWait ==
    shutdown \in {"closing", "exited"} /\ ~timedOut => DOMAIN runners = {}

(* If commands and refreshes end, every queued job does (unless the        *)
(* process ends), panics of other jobs and cancels of any job              *)
(* notwithstanding.                                                        *)
EveryJobEnds ==
    BodyFairness =>
       \A j \in 1..(MaxJobs + Cardinality(Clients)) :
          j \in Incomplete ~> (j \notin Incomplete \/ shutdown = "exited")

(* A shutdown that has begun ends the process, even with a hanging job.    *)
ShutdownEnds == ShuttingDown ~> shutdown = "exited"

=============================================================================
