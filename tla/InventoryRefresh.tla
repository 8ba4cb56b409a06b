-------------------------- MODULE InventoryRefresh --------------------------
(***************************************************************************)
(* The inventory service of the PatchBoard WebUI process: the cached       *)
(* package inventory, the refreshes that publish to it and the background  *)
(* scan of the Microsoft Store that follows a publication.                 *)
(*                                                                         *)
(*   src/internal/updater/app_inventory.go       refreshes and scans       *)
(*   src/internal/updater/inventory_service.go   their state               *)
(*   src/internal/updater/update_job.go          the jobs' use of both     *)
(*                                                                         *)
(* Every action is one critical section of inventoryService.mu or of the   *)
(* lifecycle, or one look at a context outside of both.                    *)
(*                                                                         *)
(* Each refresh has its own number, its generation, so refreshes are known *)
(* by it. A definition marked "Mutant" is a wrong version of the one after *)
(* it; no specification uses it.                                           *)
(***************************************************************************)
EXTENDS Integers, FiniteSets

CONSTANTS
    Jobs,           \* goroutines that refresh synchronously: the body of the
                    \* running job, of which the job queue has only one
    MaxGeneration,  \* bound: no refresh is requested beyond this generation
    NoJob           \* marks a refresh in the background

ASSUME JobsAssumption  == NoJob \notin Jobs
ASSUME BoundAssumption == MaxGeneration \in Nat

VARIABLES
    cache,         \* the generation the cached inventory came from, 0: none
    loading, queued, generation,  \* loading, queued, refreshGeneration
    scanLoading, scanQueued,      \* storeScanLoading, storeScanQueued
    attempts,      \* storeScanLastAttemptAt, as the number of that attempt
    finished,      \* the last attempt that set storeScanLastPublishedAt or
                   \* storeScanLastFailureAt
    refreshes,     \* the refreshes that are collecting or about to publish
    starters,      \* what the goroutine that ended or asked for a refresh
                   \* has still to launch, keyed by that refresh
    scans,         \* the live scan goroutines, keyed by the refresh whose
                   \* publication decided to launch them
    jobs,          \* where each job body is
    shuttingDown,  \* lifecycle.shuttingDown; it also ends the root context
    wanted,        \* history: a refresh at least this new was asked for by
                   \* force and neither published nor given up, 0: none
    orphaned       \* history: the newest refresh died of a panic in its job

service == <<cache, loading, queued, generation>>
store   == <<scanLoading, scanQueued, attempts, finished>>
history == <<wanted, orphaned>>
vars == <<service, store, refreshes, starters, scans, jobs, shuttingDown, history>>

RefreshRecords == [job : Jobs \cup {NoJob}, force : BOOLEAN,
                   at : {"collect", "abandon", "publish"}]
StarterRecords == [job : Jobs \cup {NoJob},
                   scan : {"none", "start", "refused"},
                   next : Nat, force : BOOLEAN, refused : BOOLEAN]
ScanRecords    == [at : {"check", "quit", "begin", "scan"}, attempt : Nat]
JobRecords     == [at : {"idle", "refresh", "wait", "scanned"},
                   cancelled : BOOLEAN, since : Nat]

TypeOK ==
    /\ {cache, generation, attempts, finished, wanted} \subseteq Nat
    /\ {loading, queued, scanLoading, scanQueued} \subseteq BOOLEAN
    /\ {shuttingDown, orphaned} \subseteq BOOLEAN
    /\ DOMAIN refreshes \subseteq 1..generation
    /\ refreshes \in [DOMAIN refreshes -> RefreshRecords]
    /\ DOMAIN starters \subseteq 1..generation
    /\ starters \in [DOMAIN starters -> StarterRecords]
    /\ DOMAIN scans \subseteq 1..generation
    /\ scans \in [DOMAIN scans -> ScanRecords]
    /\ jobs \in [Jobs -> JobRecords]

Nothing == [g \in {} |-> g]

(* Function f with x mapped to y, and without x.                           *)
With(f, x, y) == [g \in DOMAIN f \cup {x} |-> IF g = x THEN y ELSE f[g]]
Without(f, x) == [g \in DOMAIN f \ {x} |-> f[g]]

Init ==
    /\ cache = 0
    /\ loading = FALSE /\ queued = FALSE /\ generation = 0
    /\ scanLoading = FALSE /\ scanQueued = FALSE
    /\ attempts = 0 /\ finished = 0
    /\ refreshes = Nothing /\ starters = Nothing /\ scans = Nothing
    /\ jobs = [j \in Jobs |-> [at |-> "idle", cancelled |-> FALSE, since |-> 0]]
    /\ shuttingDown = FALSE
    /\ wanted = 0 /\ orphaned = FALSE

-----------------------------------------------------------------------------
(* Beginning a refresh.                                                    *)

(* Mutant: the generation is taken before it is advanced.                  *)
SameGeneration == generation

NextGeneration == generation + 1

(* Mutant: a request does not mind the refresh that is loading.            *)
MayAlwaysBegin == TRUE

MayBegin == ~loading

(* refreshInventory while no refresh is loading: it begins one, unless it  *)
(* is not forced and the cache is young enough. The caller has still to    *)
(* launch the goroutine.                                                   *)
RequestRefresh(force) ==
    /\ generation < MaxGeneration
    /\ MayBegin
    /\ loading' = TRUE
    /\ generation' = NextGeneration
    /\ starters' = With(starters, NextGeneration,
          [job |-> NoJob, scan |-> "none", next |-> NextGeneration,
           force |-> force, refused |-> FALSE])
    /\ wanted' = IF force THEN NextGeneration ELSE wanted
    /\ orphaned' = FALSE
    /\ UNCHANGED <<cache, queued, store, refreshes, scans, jobs, shuttingDown>>

(* Mutant: a request that meets a running refresh is taken as served.      *)
NoFollowUp == FALSE

FollowUp == TRUE

(* A forced request that meets a running refresh: another one follows it.  *)
RequestFollowUp ==
    /\ generation < MaxGeneration
    /\ loading
    /\ queued' = FollowUp
    /\ wanted' = NextGeneration
    /\ UNCHANGED <<cache, loading, generation, store, refreshes, starters,
                   scans, jobs, shuttingDown, orphaned>>

(* refreshInventorySyncContext supersedes whatever is loading or queued.   *)
(* The job's context may have been cancelled by the time it is called.     *)
BeginJobRefresh(j) ==
    /\ generation < MaxGeneration
    /\ jobs[j].at \in {"idle", "scanned"}
    /\ generation' = NextGeneration
    /\ loading' = TRUE
    /\ queued' = FALSE
    /\ refreshes' = With(refreshes, NextGeneration,
          [job |-> j, force |-> TRUE, at |-> "collect"])
    /\ \E cancelled \in BOOLEAN :
          jobs' = [jobs EXCEPT ![j] = [at |-> "refresh", cancelled |-> cancelled,
                                       since |-> 0]]
    /\ orphaned' = FALSE
    /\ UNCHANGED <<cache, store, starters, scans, shuttingDown, wanted>>

-----------------------------------------------------------------------------
(* Ending a refresh.                                                       *)

(* After its refresh a job that updated Store packages waits for the scan; *)
(* any other job goes on with something else.                              *)
AfterRefresh(job, since) ==
    IF job = NoJob THEN jobs' = jobs
    ELSE \E at \in {"idle", "wait"} :
            jobs' = [jobs EXCEPT ![job] = [@ EXCEPT !.at = at, !.since = since]]

ContextDone(job) ==
    \/ shuttingDown
    \/ job # NoJob /\ jobs[job].cancelled

(* The collector has returned: the context is looked at before the lock is *)
(* taken, so it may end in between.                                        *)
Collected(g) ==
    /\ g \in DOMAIN refreshes
    /\ refreshes[g].at = "collect"
    /\ refreshes' = [refreshes EXCEPT ![g].at =
          IF ContextDone(refreshes[g].job) THEN "abandon" ELSE "publish"]
    /\ UNCHANGED <<service, store, starters, scans, jobs, shuttingDown, history>>

(* Mutant: a superseded refresh counts as current.                        *)
AnyGeneration(g) == g > 0

(* A refresh is superseded once a newer one has begun.                     *)
IsCurrent(g) == g = generation

(* A cancelled refresh gives up the loading flag, and with it a queued     *)
(* request, if no newer refresh owns them.                                 *)
Abandon(g) ==
    /\ g \in DOMAIN refreshes
    /\ refreshes[g].at = "abandon"
    /\ loading' = (loading /\ ~IsCurrent(g))
    /\ queued' = (queued /\ ~IsCurrent(g))
    /\ wanted' = IF IsCurrent(g) THEN 0 ELSE wanted
    /\ refreshes' = Without(refreshes, g)
    /\ AfterRefresh(refreshes[g].job, attempts)
    /\ UNCHANGED <<cache, generation, store, starters, scans, shuttingDown, orphaned>>

(* The result of a superseded refresh is thrown away.                      *)
Discard(g) ==
    /\ g \in DOMAIN refreshes
    /\ refreshes[g].at = "publish"
    /\ ~IsCurrent(g)
    /\ refreshes' = Without(refreshes, g)
    /\ AfterRefresh(refreshes[g].job, attempts)
    /\ UNCHANGED <<service, store, starters, scans, shuttingDown, history>>

(* Mutant: a scan under way is good enough.                                *)
JoinScan(wantScan, force) ==
    /\ scanLoading' = (scanLoading \/ wantScan)
    /\ scanQueued' = scanQueued

(* beginStoreScanLocked, once the cool-down of an automatic request is     *)
(* decided: start a scan, or have the one that runs followed by another.   *)
(* Only a forced request queues a follow-up.                               *)
DecideScan(wantScan, force) ==
    /\ scanLoading' = (scanLoading \/ wantScan)
    /\ scanQueued' = (scanQueued \/ (scanLoading /\ force))

(* Mutant: every publication launches a scan.                              *)
AlwaysLaunch(wantScan) == wantScan

MustLaunch(wantScan) == wantScan /\ ~scanLoading

(* The current refresh publishes, and in the same critical section hands   *)
(* the loading flag to a queued refresh or gives it up. An automatic       *)
(* request within the cool-down of an earlier scan wants no scan.          *)
Publish(g) ==
    LET refresh == refreshes[g]
        next    == IF queued THEN NextGeneration ELSE 0
    IN  /\ g \in DOMAIN refreshes
        /\ refresh.at = "publish"
        /\ IsCurrent(g)
        /\ cache' = g
        /\ queued' = FALSE
        /\ loading' = queued
        /\ generation' = IF queued THEN NextGeneration ELSE generation
        /\ wanted' = IF wanted <= g THEN 0 ELSE wanted
        /\ \E wantScan \in BOOLEAN :
              /\ ~wantScan => ~refresh.force /\ finished > 0
              /\ DecideScan(wantScan, refresh.force)
              /\ starters' =
                    IF queued \/ MustLaunch(wantScan)
                    THEN With(starters, g,
                           [job |-> refresh.job,
                            scan |-> IF MustLaunch(wantScan) THEN "start" ELSE "none",
                            next |-> next, force |-> TRUE, refused |-> FALSE])
                    ELSE starters
              /\ IF queued \/ MustLaunch(wantScan)
                 THEN jobs' = IF refresh.job = NoJob THEN jobs
                              ELSE [jobs EXCEPT ![refresh.job].since = attempts]
                 ELSE AfterRefresh(refresh.job, attempts)
        /\ refreshes' = Without(refreshes, g)
        /\ orphaned' = FALSE
        /\ UNCHANGED <<attempts, finished, scans, shuttingDown>>

(* The collector panics in a job: the job queue recovers, but nobody gives *)
(* up the loading flag. (A panic in the background ends the process.)      *)
Panic(g) ==
    /\ g \in DOMAIN refreshes
    /\ refreshes[g].at = "collect"
    /\ refreshes[g].job # NoJob
    /\ refreshes' = Without(refreshes, g)
    /\ jobs' = [jobs EXCEPT ![refreshes[g].job].at = "idle"]
    /\ orphaned' = (orphaned \/ IsCurrent(g))
    /\ UNCHANGED <<service, store, starters, scans, shuttingDown, wanted>>

-----------------------------------------------------------------------------
(* Launching: first the scan, then the queued refresh.                     *)

(* Starter g has done its part up to record s.                             *)
StarterDone(g, s) ==
    IF s.scan = "none" /\ s.next = 0
    THEN /\ starters' = Without(starters, g)
         /\ AfterRefresh(s.job, IF s.job = NoJob THEN 0 ELSE jobs[s.job].since)
    ELSE /\ starters' = [starters EXCEPT ![g] = s]
         /\ UNCHANGED jobs

StartScan(g) ==
    /\ g \in DOMAIN starters
    /\ starters[g].scan = "start"
    /\ IF shuttingDown
       THEN /\ StarterDone(g, [starters[g] EXCEPT !.scan = "refused"])
            /\ UNCHANGED scans
       ELSE /\ StarterDone(g, [starters[g] EXCEPT !.scan = "none"])
            /\ scans' = With(scans, g, [at |-> "check", attempt |-> 0])
    /\ UNCHANGED <<service, store, refreshes, shuttingDown, history>>

ScanRefused(g) ==
    /\ g \in DOMAIN starters
    /\ starters[g].scan = "refused"
    /\ scanLoading' = FALSE
    /\ scanQueued' = FALSE
    /\ StarterDone(g, [starters[g] EXCEPT !.scan = "none"])
    /\ UNCHANGED <<service, attempts, finished, refreshes, scans, shuttingDown, history>>

StartRefresh(g) ==
    LET s == starters[g]
    IN  /\ g \in DOMAIN starters
        /\ s.scan = "none"
        /\ ~s.refused
        /\ IF shuttingDown
           THEN /\ starters' = [starters EXCEPT ![g].refused = TRUE]
                /\ UNCHANGED <<refreshes, jobs>>
           ELSE /\ StarterDone(g, [s EXCEPT !.next = 0])
                /\ refreshes' = With(refreshes, s.next,
                      [job |-> NoJob, force |-> s.force, at |-> "collect"])
        /\ UNCHANGED <<service, store, scans, shuttingDown, history>>

RefreshRefused(g) ==
    LET s == starters[g]
    IN  /\ g \in DOMAIN starters
        /\ s.refused
        /\ loading' = (loading /\ ~IsCurrent(s.next))
        /\ wanted' = IF IsCurrent(s.next) THEN 0 ELSE wanted
        /\ StarterDone(g, [s EXCEPT !.next = 0])
        /\ UNCHANGED <<cache, queued, generation, store, refreshes, scans,
                       shuttingDown, orphaned>>

-----------------------------------------------------------------------------
(* The background Store scan.                                              *)

(* The loop looks at the root context before each scan.                    *)
CheckScan(g) ==
    /\ g \in DOMAIN scans
    /\ scans[g].at = "check"
    /\ scans' = [scans EXCEPT ![g].at = IF shuttingDown THEN "quit" ELSE "begin"]
    /\ UNCHANGED <<service, store, refreshes, starters, jobs, shuttingDown, history>>

QuitScan(g) ==
    /\ g \in DOMAIN scans
    /\ scans[g].at = "quit"
    /\ scanLoading' = FALSE
    /\ scanQueued' = FALSE
    /\ scans' = Without(scans, g)
    /\ UNCHANGED <<service, attempts, finished, refreshes, starters, jobs,
                   shuttingDown, history>>

BeginScan(g) ==
    /\ g \in DOMAIN scans
    /\ scans[g].at = "begin"
    /\ attempts' = attempts + 1
    /\ scans' = [scans EXCEPT ![g] = [at |-> "scan", attempt |-> attempts + 1]]
    /\ UNCHANGED <<service, scanLoading, scanQueued, finished, refreshes,
                   starters, jobs, shuttingDown, history>>

(* Mutant: the loading flag is given up before the follow-up.              *)
GapBeforeFollowUp(follow) == FALSE

StaysLoading(follow) == follow

(* A scan ends: published, unpublished or failed. The root context is read *)
(* twice in this section, and a shutdown may begin between the two reads.  *)
EndScan(g) ==
    LET follow == scanQueued /\ ~shuttingDown
    IN  /\ g \in DOMAIN scans
        /\ scans[g].at = "scan"
        /\ finished' \in {scans[g].attempt} \cup (IF shuttingDown THEN {finished} ELSE {})
        /\ scanQueued' = (scanQueued /\ ~follow)
        /\ scanLoading' = StaysLoading(follow)
        /\ scans' = IF follow THEN [scans EXCEPT ![g].at = "check"]
                              ELSE Without(scans, g)
        /\ UNCHANGED <<service, attempts, refreshes, starters, jobs,
                       shuttingDown, history>>

-----------------------------------------------------------------------------
(* Jobs that wait for the scan, cancellation and shutdown.                 *)

(* waitForStoreScanIdle looks at the flag before it looks at its context.  *)
WaitEnds(j) ==
    /\ jobs[j].at = "wait"
    /\ ~scanLoading
    /\ jobs' = [jobs EXCEPT ![j].at = "scanned"]
    /\ UNCHANGED <<service, store, refreshes, starters, scans, shuttingDown, history>>

WaitGivesUp(j) ==
    /\ jobs[j].at = "wait"
    /\ jobs' = [jobs EXCEPT ![j].at = "idle"]
    /\ UNCHANGED <<service, store, refreshes, starters, scans, shuttingDown, history>>

CancelJob(j) ==
    /\ jobs[j].at \in {"refresh", "wait"}
    /\ ~jobs[j].cancelled
    /\ jobs' = [jobs EXCEPT ![j].cancelled = TRUE]
    /\ UNCHANGED <<service, store, refreshes, starters, scans, shuttingDown, history>>

BeginShutdown ==
    /\ ~shuttingDown
    /\ shuttingDown' = TRUE
    /\ UNCHANGED <<service, store, refreshes, starters, scans, jobs, history>>

-----------------------------------------------------------------------------
Request == (\E force \in BOOLEAN : RequestRefresh(force)) \/ RequestFollowUp

RefreshStep(g) == Collected(g) \/ Abandon(g) \/ Discard(g) \/ Publish(g)

StarterStep(g) == StartScan(g) \/ ScanRefused(g) \/ StartRefresh(g) \/ RefreshRefused(g)

ScanStep(g) == CheckScan(g) \/ QuitScan(g) \/ BeginScan(g) \/ EndScan(g)

(* After a shutdown nothing is left to do.                                 *)
Stopped == /\ shuttingDown
           /\ DOMAIN refreshes \cup DOMAIN starters \cup DOMAIN scans = {}
           /\ UNCHANGED vars

Next ==
    \/ Request
    \/ \E g \in DOMAIN refreshes : RefreshStep(g) \/ Panic(g)
    \/ \E g \in DOMAIN starters : StarterStep(g)
    \/ \E g \in DOMAIN scans : ScanStep(g)
    \/ \E j \in Jobs : BeginJobRefresh(j) \/ WaitEnds(j) \/ WaitGivesUp(j) \/ CancelJob(j)
    \/ BeginShutdown
    \/ Stopped

Safety == Init /\ [][Next]_vars

(* Goroutines run, and collectors and scans end: their commands have       *)
(* timeouts. Nobody has to request, cancel, wait or shut down.             *)
Fairness == \A g \in 1..MaxGeneration :
               /\ WF_vars(RefreshStep(g))
               /\ WF_vars(StarterStep(g))
               /\ WF_vars(ScanStep(g))

Spec == Safety /\ Fairness

-----------------------------------------------------------------------------
(* The properties.                                                         *)

(* A refresh that is on its way or has still to be launched.               *)
Alive(g) == \/ g \in DOMAIN refreshes
            \/ \E d \in DOMAIN starters : starters[d].next = g

(* The loading flag belongs to the newest refresh: it is set exactly while *)
(* that one is alive, so the UI neither shows a superseded inventory as    *)
(* final nor polls for ever. The exception is a panic in a job.            *)
LoadingIsOwned == loading <=> Alive(generation) \/ orphaned

(* storeScanLoading is a token: it is set exactly while there is one scan  *)
(* goroutine or one goroutine that has still to launch it.                 *)
ScanIsUnique ==
    Cardinality(DOMAIN scans)
      + Cardinality({g \in DOMAIN starters : starters[g].scan # "none"})
    = IF scanLoading THEN 1 ELSE 0

(* A forced request is not lost: until it is published or given up by a    *)
(* cancelled or refused refresh, a refresh that began after the request is *)
(* loading or will follow the one that is.                                 *)
ForcedRefreshIsServed ==
    wanted # 0 => loading /\ (generation >= wanted \/ queued)

(* The cached inventory never goes back: a refresh that ends after a newer *)
(* one has begun does not publish.                                         *)
PublicationsAdvance ==
    [][cache' # cache => cache' > cache /\ cache' = generation]_vars

(* With one job at a time nothing supersedes the refresh of a job, so the  *)
(* inventory its result is judged by is the one it has collected.          *)
JobRefreshIsAuthoritative ==
    \A g \in DOMAIN refreshes : refreshes[g].job # NoJob => IsCurrent(g)

(* When an update job has waited for the scan without being cancelled, a   *)
(* scan that began after the job's refresh has ended.                      *)
WaitSeesFreshScan ==
    \A j \in Jobs :
       jobs[j].at = "scanned" =>
          jobs[j].cancelled \/ shuttingDown \/ finished > jobs[j].since

(* A forced request is followed by a publication that is at least as new,  *)
(* unless a cancelled or refused refresh gives it up or a job dies.        *)
ForcedRefreshHappens ==
    \A n \in 1..MaxGeneration :
       wanted = n ~> (cache >= n \/ wanted = 0 \/ orphaned)

(* The Store scan as its callers see it.                                   *)
StoreScan == INSTANCE SingleFlight WITH
    phase <- IF ~scanLoading THEN "idle"
             ELSE IF \E g \in DOMAIN scans : scans[g].at = "scan" THEN "working"
             ELSE "pending",
    again <- scanQueued,
    open  <- ~shuttingDown

(* The scan keeps what SingleFlight promises: one at a time, no request is *)
(* satisfied by a scan that had begun before, and none is dropped unless   *)
(* the process shuts down.                                                 *)
ScanKeepsItsPromise == StoreScan!Spec
=============================================================================
