------------------------- MODULE JobInventoryProofs -------------------------
(***************************************************************************)
(* What the body of a job relies on, as long as the queue runs one job at  *)
(* a time (RunnerIsUnique in OperationJobsProofs): its refresh is never    *)
(* superseded, and its wait for the Store scan ends with a scan that began *)
(* after that refresh.                                                     *)
(***************************************************************************)
EXTENDS InventoryRefreshProofs

OneJob == \A i, j \in Jobs : i = j

(* A job that refreshes has one refresh, which is forced and the newest,   *)
(* or one starter; a refresh is abandoned only when its context is done.   *)
JobOwnsRefresh ==
    /\ \A g \in DOMAIN refreshes :
          refreshes[g].job # NoJob =>
             /\ jobs[refreshes[g].job].at = "refresh"
             /\ refreshes[g].force /\ g = generation
             /\ \A d \in DOMAIN starters : starters[d].job # refreshes[g].job
    /\ \A d \in DOMAIN starters :
          starters[d].job # NoJob =>
             /\ jobs[starters[d].job].at = "refresh"
             /\ \A e \in DOMAIN starters : starters[e].job = starters[d].job => e = d
    /\ \A g \in DOMAIN refreshes :
          refreshes[g].at = "abandon" => ContextDone(refreshes[g].job)

(* A scan that runs is the last attempt.                                   *)
ScansAreCounted ==
    /\ finished <= attempts
    /\ \A g \in DOMAIN scans : scans[g].at = "scan" => scans[g].attempt = attempts
    /\ \A j \in Jobs : jobs[j].since <= attempts

(* A scan later than the n-th has ended, or will come.                     *)
Fresh(n) ==
    \/ finished > n
    \/ /\ scanLoading
       /\ \A g \in DOMAIN scans :
             scans[g].at = "scan" /\ scans[g].attempt <= n => scanQueued

Sees(j) == jobs[j].cancelled \/ shuttingDown \/ Fresh(jobs[j].since)

(* A job waits, or will once its starter is done.                          *)
WillWait(j) == \/ jobs[j].at = "wait"
               \/ \E d \in DOMAIN starters : starters[d].job = j

WaitsForFreshScan ==
    /\ \A j \in Jobs : WillWait(j) => Sees(j)
    /\ WaitSeesFreshScan

JobInv == JobOwnsRefresh /\ ScansAreCounted /\ WaitsForFreshScan

-----------------------------------------------------------------------------
(* What a step does to the jobs.                                           *)

LEMMA JobsAfterRefresh ==
    ASSUME TypeOK, NEW job \in Jobs \cup {NoJob}, NEW since \in Nat,
           AfterRefresh(job, since), NEW j \in Jobs
    PROVE  /\ jobs'[j].cancelled = jobs[j].cancelled
           /\ j # job => jobs'[j] = jobs[j]
           /\ j = job => jobs'[j].at \in {"idle", "wait"} /\ jobs'[j].since = since
<1>1. j # NoJob /\ jobs \in [Jobs -> JobRecords]
  BY JobsAssumption DEF TypeOK
<1>2. CASE job = NoJob
  BY <1>1, <1>2 DEF AfterRefresh
<1>3. CASE job # NoJob
  <2>1. PICK at \in {"idle", "wait"} :
           jobs' = [jobs EXCEPT ![job] = [@ EXCEPT !.at = at, !.since = since]]
    BY <1>3 DEF AfterRefresh
  <2>2. jobs[job] \in JobRecords
    BY <1>1, <1>3
  <2>3. jobs'[job] = [jobs[job] EXCEPT !.at = at, !.since = since]
    BY <1>1, <1>3, <2>1
  <2>4. j # job => jobs'[j] = jobs[j]
    BY <1>1, <2>1
  <2> QED
    BY <2>2, <2>3, <2>4 DEF JobRecords
<1> QED
  BY <1>2, <1>3

(* A job leaves its refresh only when its starter ends.                    *)
LEMMA JobsAfterStarter ==
    ASSUME TypeOK, NEW g \in DOMAIN starters, NEW s, s.job = starters[g].job,
           StarterDone(g, s), NEW j \in Jobs
    PROVE  /\ jobs'[j].cancelled = jobs[j].cancelled
           /\ jobs'[j].since = jobs[j].since
           /\ \/ jobs'[j].at = jobs[j].at
              \/ j = s.job /\ g \notin DOMAIN starters' /\ jobs'[j].at \in {"idle", "wait"}
<1>1. CASE s.scan = "none" /\ s.next = 0
  <2> DEFINE since == IF s.job = NoJob THEN 0 ELSE jobs[s.job].since
  <2>1. s.job \in Jobs \cup {NoJob}
    BY DEF TypeOK, StarterRecords
  <2>2. since \in Nat
    BY <2>1 DEF TypeOK, JobRecords
  <2>3. AfterRefresh(s.job, since) /\ g \notin DOMAIN starters'
    BY <1>1 DEF StarterDone, Without
  <2>4. j # NoJob
    BY JobsAssumption
  <2>5. j = s.job => since = jobs[j].since
    BY <2>4
  <2> HIDE DEF since
  <2> QED
    BY <2>1, <2>2, <2>3, <2>5, JobsAfterRefresh
<1>2. CASE ~(s.scan = "none" /\ s.next = 0)
  BY <1>2 DEF StarterDone
<1> QED
  BY <1>1, <1>2

-----------------------------------------------------------------------------
(* The refresh of the one job is the newest.                               *)

LEMMA JobOwnsRefreshInit == Init => JobOwnsRefresh
BY DEF Init, JobOwnsRefresh, Nothing

(* Steps after which no job has got a refresh or a starter.                *)
LEMMA JobOwnsRefreshFrame ==
    ASSUME JobOwnsRefresh,
           \A g \in DOMAIN refreshes' :
              refreshes'[g].job # NoJob =>
                 /\ g \in DOMAIN refreshes
                 /\ refreshes'[g].job = refreshes[g].job
                 /\ refreshes'[g].force = refreshes[g].force
                 /\ generation' = generation
                 /\ jobs'[refreshes[g].job].at = "refresh",
           \A d \in DOMAIN starters' :
              starters'[d].job # NoJob =>
                 /\ d \in DOMAIN starters
                 /\ starters'[d].job = starters[d].job
                 /\ jobs'[starters[d].job].at = "refresh",
           \A g \in DOMAIN refreshes' :
              refreshes'[g].at = "abandon" =>
                 \/ shuttingDown'
                 \/ refreshes'[g].job # NoJob /\ jobs'[refreshes'[g].job].cancelled
    PROVE  JobOwnsRefresh'
<1>1. \A g \in DOMAIN refreshes' :
         refreshes'[g].job # NoJob =>
            \A d \in DOMAIN starters' : starters'[d].job # refreshes'[g].job
  <2> SUFFICES ASSUME NEW g \in DOMAIN refreshes', refreshes'[g].job # NoJob,
                      NEW d \in DOMAIN starters', starters'[d].job = refreshes'[g].job
               PROVE  FALSE
    OBVIOUS
  <2>1. /\ g \in DOMAIN refreshes /\ refreshes'[g].job = refreshes[g].job
        /\ d \in DOMAIN starters /\ starters'[d].job = starters[d].job
    OBVIOUS
  <2>2. starters[d].job # refreshes[g].job
    BY <2>1 DEF JobOwnsRefresh
  <2> QED
    BY <2>1, <2>2
<1>2. \A d, e \in DOMAIN starters' :
         starters'[d].job # NoJob /\ starters'[e].job = starters'[d].job => e = d
  <2> SUFFICES ASSUME NEW d \in DOMAIN starters', NEW e \in DOMAIN starters',
                      starters'[d].job # NoJob, starters'[e].job = starters'[d].job
               PROVE  e = d
    OBVIOUS
  <2>1. /\ d \in DOMAIN starters /\ starters'[d].job = starters[d].job
        /\ e \in DOMAIN starters /\ starters'[e].job = starters[e].job
    OBVIOUS
  <2> QED
    BY <2>1 DEF JobOwnsRefresh
<1>3. \A g \in DOMAIN refreshes' :
         refreshes'[g].job # NoJob =>
            /\ jobs'[refreshes'[g].job].at = "refresh"
            /\ refreshes'[g].force /\ g = generation'
  BY DEF JobOwnsRefresh
<1>4. \A d \in DOMAIN starters' :
         starters'[d].job # NoJob => jobs'[starters'[d].job].at = "refresh"
  OBVIOUS
<1> QED
  BY <1>1, <1>2, <1>3, <1>4 DEF JobOwnsRefresh, ContextDone

(* What every step may assume of the refreshes and starters.               *)
LEMMA JobTypes ==
    ASSUME TypeOK
    PROVE  /\ \A g \in DOMAIN refreshes :
                 /\ refreshes[g] \in RefreshRecords
                 /\ refreshes[g].job \in Jobs \cup {NoJob}
                 /\ refreshes[g].at \in {"collect", "abandon", "publish"}
           /\ \A g \in DOMAIN starters :
                 starters[g] \in StarterRecords /\ starters[g].job \in Jobs \cup {NoJob}
           /\ \A j \in Jobs : jobs[j] \in JobRecords /\ jobs[j].since \in Nat
           /\ {attempts, finished, generation} \subseteq Nat /\ NoJob \notin Jobs
BY JobsAssumption DEF TypeOK, RefreshRecords, StarterRecords, JobRecords

(* A refresh ends, and its job with it.                                    *)
LEMMA JobOwnsRefreshOfEnded ==
    ASSUME TypeOK, JobOwnsRefresh, NEW g \in DOMAIN refreshes,
           refreshes' = Without(refreshes, g), starters' = starters,
           generation' = generation \/ IsCurrent(g), UNCHANGED shuttingDown,
           \A j \in Jobs : /\ j # refreshes[g].job => jobs'[j] = jobs[j]
                           /\ jobs'[j].cancelled = jobs[j].cancelled
    PROVE  JobOwnsRefresh'
<1>1. \A h \in DOMAIN refreshes' :
         h \in DOMAIN refreshes /\ h # g /\ refreshes'[h] = refreshes[h]
  BY DEF Without
<1>2. \A h \in DOMAIN refreshes' :
         refreshes[h].job # NoJob =>
            refreshes[h].job # refreshes[g].job /\ generation' = generation
  BY <1>1 DEF JobOwnsRefresh, IsCurrent
<1>3. \A d \in DOMAIN starters' :
         starters[d].job # NoJob => starters[d].job # refreshes[g].job
  BY DEF JobOwnsRefresh
<1>4. \A h \in DOMAIN refreshes' :
         refreshes'[h].at = "abandon" =>
            \/ shuttingDown'
            \/ refreshes'[h].job # NoJob /\ jobs'[refreshes'[h].job].cancelled
  <2> SUFFICES ASSUME NEW h \in DOMAIN refreshes', refreshes'[h].at = "abandon"
               PROVE  \/ shuttingDown'
                      \/ refreshes'[h].job # NoJob /\ jobs'[refreshes'[h].job].cancelled
    OBVIOUS
  <2>1. ContextDone(refreshes[h].job) /\ refreshes[h].job \in Jobs \cup {NoJob}
    BY <1>1, JobTypes DEF JobOwnsRefresh
  <2> QED
    BY <1>1, <2>1 DEF ContextDone
<1>5. \A h \in DOMAIN refreshes' :
         refreshes[h].job # NoJob => jobs'[refreshes[h].job].at = "refresh"
  BY <1>1, <1>2, JobTypes DEF JobOwnsRefresh
<1>6. \A d \in DOMAIN starters' :
         starters[d].job # NoJob => jobs'[starters[d].job].at = "refresh"
  BY <1>3, JobTypes DEF JobOwnsRefresh
<1> QED
  BY <1>1, <1>2, <1>4, <1>5, <1>6, JobOwnsRefreshFrame

(* A publication that leaves its job with something to launch.             *)
LEMMA JobOwnsRefreshOfPublished ==
    ASSUME TypeOK, Ownership, JobOwnsRefresh, NEW g \in DOMAIN refreshes, IsCurrent(g),
           refreshes' = Without(refreshes, g), UNCHANGED shuttingDown,
           NEW r, r.job = refreshes[g].job, starters' = With(starters, g, r),
           \A j \in Jobs : jobs'[j].at = jobs[j].at /\ jobs'[j].cancelled = jobs[j].cancelled
    PROVE  JobOwnsRefresh'
<1>1. \A h \in DOMAIN refreshes' :
         h \in DOMAIN refreshes /\ h # g /\ refreshes'[h] = refreshes[h]
  BY DEF Without
<1>2. \A h \in DOMAIN refreshes' : refreshes[h].job = NoJob
  BY <1>1 DEF JobOwnsRefresh, IsCurrent
<1>3. \A d \in DOMAIN starters' :
         \/ d = g /\ starters'[d].job = refreshes[g].job
         \/ d # g /\ d \in DOMAIN starters /\ starters'[d].job = starters[d].job
  BY DEF With
<1>4. \A d \in DOMAIN starters' :
         starters'[d].job # NoJob =>
            /\ starters'[d].job \in Jobs
            /\ jobs[starters'[d].job].at = "refresh"
  BY <1>3, JobTypes DEF JobOwnsRefresh
<1>5. \A d, e \in DOMAIN starters' :
         starters'[d].job # NoJob /\ starters'[e].job = starters'[d].job => e = d
  <2> SUFFICES ASSUME NEW d \in DOMAIN starters', NEW e \in DOMAIN starters',
                      starters'[d].job # NoJob, starters'[e].job = starters'[d].job
               PROVE  e = d
    OBVIOUS
  <2>1. CASE d = g \/ e = g
    BY <1>3, <2>1 DEF JobOwnsRefresh
  <2>2. CASE d # g /\ e # g
    BY <1>3, <2>2 DEF JobOwnsRefresh
  <2> QED
    BY <2>1, <2>2
<1>6. \A h \in DOMAIN refreshes' :
         refreshes'[h].at = "abandon" => shuttingDown'
  BY <1>1, <1>2 DEF JobOwnsRefresh, ContextDone
<1> QED
  BY <1>1, <1>2, <1>4, <1>5, <1>6 DEF JobOwnsRefresh, ContextDone

(* A starter goes on or ends, and its job with it.                         *)
LEMMA JobOwnsRefreshOfStarter ==
    ASSUME TypeOK, JobOwnsRefresh, NEW g \in DOMAIN starters,
           NEW s, s.job = starters[g].job, StarterDone(g, s),
           UNCHANGED <<generation, shuttingDown>>,
           \A h \in DOMAIN refreshes' :
              \/ h \in DOMAIN refreshes /\ refreshes'[h] = refreshes[h]
              \/ refreshes'[h].job = NoJob /\ refreshes'[h].at = "collect"
    PROVE  JobOwnsRefresh'
<1>1. \A d \in DOMAIN starters' :
         d \in DOMAIN starters /\ starters'[d].job = starters[d].job
  BY StarterDoneFacts
<1>2. \A j \in Jobs : /\ jobs'[j].cancelled = jobs[j].cancelled
                      /\ \/ jobs'[j].at = jobs[j].at
                         \/ j = s.job /\ g \notin DOMAIN starters'
  BY JobsAfterStarter
<1>3. \A h \in DOMAIN refreshes' :
         refreshes'[h].job # NoJob =>
            /\ h \in DOMAIN refreshes /\ refreshes'[h] = refreshes[h]
            /\ jobs'[refreshes[h].job].at = "refresh"
  <2> SUFFICES ASSUME NEW h \in DOMAIN refreshes', refreshes'[h].job # NoJob
               PROVE  /\ h \in DOMAIN refreshes /\ refreshes'[h] = refreshes[h]
                      /\ jobs'[refreshes[h].job].at = "refresh"
    OBVIOUS
  <2>1. h \in DOMAIN refreshes /\ refreshes'[h] = refreshes[h]
    OBVIOUS
  <2>2. refreshes[h].job \in Jobs /\ refreshes[h].job # NoJob
    BY <2>1, JobTypes
  <2>3. refreshes[h].job # s.job /\ jobs[refreshes[h].job].at = "refresh"
    BY <2>1, <2>2 DEF JobOwnsRefresh
  <2> QED
    BY <1>2, <2>1, <2>2, <2>3
<1>4. \A d \in DOMAIN starters' :
         starters[d].job # NoJob => jobs'[starters[d].job].at = "refresh"
  <2> SUFFICES ASSUME NEW d \in DOMAIN starters', starters[d].job # NoJob
               PROVE  jobs'[starters[d].job].at = "refresh"
    OBVIOUS
  <2>1. d \in DOMAIN starters /\ starters[d].job \in Jobs
    BY <1>1, JobTypes
  <2>2. jobs[starters[d].job].at = "refresh"
    BY <2>1 DEF JobOwnsRefresh
  <2>3. starters[d].job = s.job => d = g
    BY <2>1 DEF JobOwnsRefresh
  <2> QED
    BY <1>2, <2>1, <2>2, <2>3
<1>5. \A h \in DOMAIN refreshes' :
         refreshes'[h].at = "abandon" =>
            \/ shuttingDown'
            \/ refreshes'[h].job # NoJob /\ jobs'[refreshes'[h].job].cancelled
  <2> SUFFICES ASSUME NEW h \in DOMAIN refreshes', refreshes'[h].at = "abandon"
               PROVE  \/ shuttingDown'
                      \/ refreshes'[h].job # NoJob /\ jobs'[refreshes'[h].job].cancelled
    OBVIOUS
  <2>1. h \in DOMAIN refreshes /\ refreshes'[h] = refreshes[h]
    OBVIOUS
  <2>2. ContextDone(refreshes[h].job) /\ refreshes[h].job \in Jobs \cup {NoJob}
    BY <2>1, JobTypes DEF JobOwnsRefresh
  <2> QED
    BY <1>2, <2>1, <2>2 DEF ContextDone
<1> QED
  BY <1>1, <1>3, <1>4, <1>5, JobOwnsRefreshFrame

(* The body that the queue runs begins the only refresh of a job.          *)
LEMMA JobOwnsRefreshOfBegun ==
    ASSUME TypeOK, JobOwnsRefresh, OneJob, NEW j \in Jobs, BeginJobRefresh(j)
    PROVE  JobOwnsRefresh'
<1>1. jobs[j].at \in {"idle", "scanned"} /\ UNCHANGED <<starters, shuttingDown>>
  BY DEF BeginJobRefresh
<1>2. \A h \in DOMAIN refreshes : refreshes[h].job = NoJob
  BY <1>1, JobTypes DEF JobOwnsRefresh, OneJob
<1>3. \A d \in DOMAIN starters : starters[d].job = NoJob
  BY <1>1, JobTypes DEF JobOwnsRefresh, OneJob
<1>4. generation' = generation + 1 /\ j # NoJob
  BY JobsAssumption DEF BeginJobRefresh, NextGeneration
<1>5. \A h \in DOMAIN refreshes' :
         \/ /\ h = generation' /\ refreshes'[h].job = j
            /\ refreshes'[h].force /\ refreshes'[h].at = "collect"
         \/ /\ h \in DOMAIN refreshes /\ refreshes'[h] = refreshes[h]
  BY <1>4 DEF BeginJobRefresh, With, NextGeneration
<1>6. jobs'[j].at = "refresh"
  BY DEF BeginJobRefresh, TypeOK
<1>7. \A h \in DOMAIN refreshes' : refreshes'[h].at = "abandon" => shuttingDown'
  BY <1>1, <1>2, <1>5 DEF JobOwnsRefresh, ContextDone
<1> QED
  BY <1>1, <1>2, <1>3, <1>4, <1>5, <1>6, <1>7 DEF JobOwnsRefresh, ContextDone

(* Steps that leave the refreshes, their starters and the jobs' places.    *)
LEMMA JobOwnsRefreshOfOthers ==
    ASSUME TypeOK, JobOwnsRefresh, UNCHANGED <<refreshes, starters, generation>>,
           shuttingDown => shuttingDown',
           \A j \in Jobs : /\ jobs[j].at = "refresh" => jobs'[j].at = "refresh"
                           /\ jobs[j].cancelled => jobs'[j].cancelled
    PROVE  JobOwnsRefresh'
<1>1. \A g \in DOMAIN refreshes' :
         refreshes'[g].at = "abandon" =>
            \/ shuttingDown'
            \/ refreshes'[g].job # NoJob /\ jobs'[refreshes'[g].job].cancelled
  BY JobTypes DEF JobOwnsRefresh, ContextDone
<1>2. \A g \in DOMAIN refreshes' :
         refreshes[g].job # NoJob => jobs'[refreshes[g].job].at = "refresh"
  BY JobTypes DEF JobOwnsRefresh
<1>3. \A d \in DOMAIN starters' :
         starters[d].job # NoJob => jobs'[starters[d].job].at = "refresh"
  BY JobTypes DEF JobOwnsRefresh
<1> QED
  BY <1>1, <1>2, <1>3, JobOwnsRefreshFrame

LEMMA JobOwnsRefreshStep ==
    ASSUME TypeOK, Ownership, JobOwnsRefresh, OneJob, [Next]_vars
    PROVE  JobOwnsRefresh'
<1>1. ASSUME NEW force \in BOOLEAN, RequestRefresh(force) PROVE JobOwnsRefresh'
  <2>1. /\ ~loading /\ UNCHANGED <<refreshes, jobs, shuttingDown>>
        /\ \A d \in DOMAIN starters' :
              starters'[d].job # NoJob => d \in DOMAIN starters /\ starters'[d] = starters[d]
    BY <1>1 DEF RequestRefresh, MayBegin, With
  <2>2. generation \notin DOMAIN refreshes
    BY <2>1 DEF Ownership, LoadingIsOwned, Alive
  <2>3. \A g \in DOMAIN refreshes' : refreshes'[g].job = NoJob
    BY <2>1, <2>2 DEF JobOwnsRefresh
  <2>4. \A g \in DOMAIN refreshes' : refreshes'[g].at = "abandon" => shuttingDown'
    BY <2>1, <2>3 DEF JobOwnsRefresh, ContextDone
  <2>5. \A d \in DOMAIN starters' :
           starters'[d].job # NoJob => jobs'[starters[d].job].at = "refresh"
    BY <2>1 DEF JobOwnsRefresh
  <2> QED
    BY <2>1, <2>3, <2>4, <2>5, JobOwnsRefreshFrame
<1>2. ASSUME NEW g \in DOMAIN refreshes, Collected(g) PROVE JobOwnsRefresh'
  <2>1. /\ UNCHANGED <<starters, jobs, generation, shuttingDown>>
        /\ DOMAIN refreshes' = DOMAIN refreshes
        /\ \A h \in DOMAIN refreshes : h # g => refreshes'[h] = refreshes[h]
    BY <1>2 DEF Collected, service
  <2>2. /\ refreshes'[g].job = refreshes[g].job /\ refreshes'[g].force = refreshes[g].force
        /\ refreshes'[g].at = "abandon" => ContextDone(refreshes[g].job)
    BY <1>2, JobTypes DEF Collected, RefreshRecords
  <2>3. \A h \in DOMAIN refreshes' :
           refreshes'[h].at = "abandon" =>
              \/ shuttingDown'
              \/ refreshes'[h].job # NoJob /\ jobs'[refreshes'[h].job].cancelled
    BY <2>1, <2>2 DEF JobOwnsRefresh, ContextDone
  <2>4. \A h \in DOMAIN refreshes' :
           refreshes'[h].job = refreshes[h].job /\ refreshes'[h].force = refreshes[h].force
    BY <2>1, <2>2
  <2> QED
    BY <2>1, <2>3, <2>4, JobOwnsRefreshFrame DEF JobOwnsRefresh
<1>3. ASSUME NEW g \in DOMAIN refreshes, Abandon(g) \/ Discard(g) PROVE JobOwnsRefresh'
  <2>1. /\ refreshes' = Without(refreshes, g) /\ AfterRefresh(refreshes[g].job, attempts)
        /\ UNCHANGED <<starters, generation, shuttingDown>>
    BY <1>3 DEF Abandon, Discard, service
  <2>2. \A j \in Jobs : /\ j # refreshes[g].job => jobs'[j] = jobs[j]
                        /\ jobs'[j].cancelled = jobs[j].cancelled
    BY <2>1, JobTypes, JobsAfterRefresh
  <2> QED
    BY <2>1, <2>2, JobOwnsRefreshOfEnded
<1>4. ASSUME NEW g \in DOMAIN refreshes, Panic(g) PROVE JobOwnsRefresh'
  <2>1. /\ refreshes' = Without(refreshes, g) /\ UNCHANGED <<starters, generation, shuttingDown>>
        /\ jobs' = [jobs EXCEPT ![refreshes[g].job].at = "idle"]
    BY <1>4 DEF Panic, service
  <2>2. \A j \in Jobs : /\ j # refreshes[g].job => jobs'[j] = jobs[j]
                        /\ jobs'[j].cancelled = jobs[j].cancelled
    BY <2>1 DEF TypeOK, JobRecords
  <2> QED
    BY <2>1, <2>2, JobOwnsRefreshOfEnded
<1>5. ASSUME NEW g \in DOMAIN refreshes, Publish(g) PROVE JobOwnsRefresh'
  <2>1. /\ refreshes' = Without(refreshes, g) /\ IsCurrent(g) /\ UNCHANGED shuttingDown
    BY <1>5 DEF Publish
  <2>2. PICK wantScan \in BOOLEAN :
          /\ starters' =
                IF queued \/ MustLaunch(wantScan)
                THEN With(starters, g,
                       [job |-> refreshes[g].job,
                        scan |-> IF MustLaunch(wantScan) THEN "start" ELSE "none",
                        next |-> IF queued THEN NextGeneration ELSE 0,
                        force |-> TRUE, refused |-> FALSE])
                ELSE starters
          /\ IF queued \/ MustLaunch(wantScan)
             THEN jobs' = IF refreshes[g].job = NoJob THEN jobs
                          ELSE [jobs EXCEPT ![refreshes[g].job].since = attempts]
             ELSE AfterRefresh(refreshes[g].job, attempts)
    BY <1>5 DEF Publish
  <2>3. CASE queued \/ MustLaunch(wantScan)
    <3> DEFINE r == [job |-> refreshes[g].job,
                     scan |-> IF MustLaunch(wantScan) THEN "start" ELSE "none",
                     next |-> IF queued THEN NextGeneration ELSE 0,
                     force |-> TRUE, refused |-> FALSE]
    <3>1. r.job = refreshes[g].job /\ starters' = With(starters, g, r)
      BY <2>2, <2>3
    <3>2. \A j \in Jobs : jobs'[j].at = jobs[j].at /\ jobs'[j].cancelled = jobs[j].cancelled
      BY <2>2, <2>3 DEF TypeOK, JobRecords
    <3> HIDE DEF r
    <3> QED
      BY <2>1, <3>1, <3>2, JobOwnsRefreshOfPublished
  <2>4. CASE ~(queued \/ MustLaunch(wantScan))
    <3>1. starters' = starters /\ AfterRefresh(refreshes[g].job, attempts)
      BY <2>2, <2>4
    <3>2. \A j \in Jobs : /\ j # refreshes[g].job => jobs'[j] = jobs[j]
                          /\ jobs'[j].cancelled = jobs[j].cancelled
      BY <3>1, JobTypes, JobsAfterRefresh
    <3> QED
      BY <2>1, <3>1, <3>2, JobOwnsRefreshOfEnded
  <2> QED
    BY <2>3, <2>4
<1>6. ASSUME NEW g \in DOMAIN starters, StarterStep(g) PROVE JobOwnsRefresh'
  <2> DEFINE s == starters[g]
  <2>0. starters[g] \in StarterRecords
    BY JobTypes
  <2>1. UNCHANGED <<generation, shuttingDown>>
    BY <1>6 DEF StarterStep, StartScan, ScanRefused, StartRefresh, RefreshRefused, service
  <2>2. \A h \in DOMAIN refreshes' :
           \/ h \in DOMAIN refreshes /\ refreshes'[h] = refreshes[h]
           \/ refreshes'[h].job = NoJob /\ refreshes'[h].at = "collect"
    BY <1>6 DEF StarterStep, StartScan, ScanRefused, StartRefresh, RefreshRefused, With
  <2>3. CASE StartRefresh(g) /\ shuttingDown
    <3>1. UNCHANGED <<refreshes, jobs>> /\ starters' = [starters EXCEPT ![g].refused = TRUE]
      BY <2>3 DEF StartRefresh
    <3>2. \A d \in DOMAIN starters' :
             d \in DOMAIN starters /\ starters'[d].job = starters[d].job
      BY <2>0, <3>1 DEF StarterRecords
    <3> QED
      BY <2>1, <3>1, <3>2, <2>3, JobOwnsRefreshFrame DEF JobOwnsRefresh
  <2>4. CASE ~(StartRefresh(g) /\ shuttingDown)
    <3>1. \E scan \in {"none", "refused"} : StarterDone(g, [s EXCEPT !.scan = scan])
             \/ StarterDone(g, [s EXCEPT !.next = 0])
      BY <1>6, <2>4 DEF StarterStep, StartScan, ScanRefused, StartRefresh, RefreshRefused
    <3>2. PICK r : r.job = starters[g].job /\ StarterDone(g, r)
      BY <2>0, <3>1 DEF StarterRecords
    <3> QED
      BY <2>1, <2>2, <3>2, JobOwnsRefreshOfStarter
  <2> QED
    BY <2>3, <2>4
<1>7. ASSUME NEW g \in DOMAIN scans, ScanStep(g) PROVE JobOwnsRefresh'
  <2>1. UNCHANGED <<refreshes, starters, generation, jobs, shuttingDown>>
    BY <1>7 DEF ScanStep, CheckScan, QuitScan, BeginScan, EndScan, service
  <2> QED
    BY <2>1, JobOwnsRefreshOfOthers
<1>8. ASSUME NEW j \in Jobs, WaitEnds(j) \/ WaitGivesUp(j) \/ CancelJob(j)
      PROVE  JobOwnsRefresh'
  <2>1. UNCHANGED <<refreshes, starters, generation, shuttingDown>>
    BY <1>8 DEF WaitEnds, WaitGivesUp, CancelJob, service
  <2>2. \A i \in Jobs : /\ jobs[i].at = "refresh" => jobs'[i].at = "refresh"
                        /\ jobs[i].cancelled => jobs'[i].cancelled
    BY <1>8 DEF WaitEnds, WaitGivesUp, CancelJob, TypeOK, JobRecords
  <2> QED
    BY <2>1, <2>2, JobOwnsRefreshOfOthers
<1>9. CASE RequestFollowUp \/ BeginShutdown \/ UNCHANGED vars
  <2>1. UNCHANGED <<refreshes, starters, generation, jobs>> /\ (shuttingDown => shuttingDown')
    BY <1>9 DEF RequestFollowUp, BeginShutdown, vars, service
  <2> QED
    BY <2>1, JobOwnsRefreshOfOthers
<1> QED
  BY <1>1, <1>2, <1>3, <1>4, <1>5, <1>6, <1>7, <1>8, <1>9, JobOwnsRefreshOfBegun
  DEF Next, Request, RefreshStep, Stopped

-----------------------------------------------------------------------------
(* Scans are counted, and one that a job waits for comes.                  *)

LEMMA ScansAreCountedInit == Init => ScansAreCounted
BY DEF Init, ScansAreCounted, Nothing

(* A job notes the last attempt, or keeps its note.                        *)
LEMMA SinceStep ==
    ASSUME TypeOK, [Next]_vars, NEW j \in Jobs
    PROVE  jobs'[j].since \in {jobs[j].since, attempts, 0}
<1>t. jobs \in [Jobs -> JobRecords] /\ jobs[j] \in JobRecords
  BY DEF TypeOK
<1>1. ASSUME NEW i \in Jobs,
             BeginJobRefresh(i) \/ WaitEnds(i) \/ WaitGivesUp(i) \/ CancelJob(i)
      PROVE  jobs'[j].since \in {jobs[j].since, attempts, 0}
  BY <1>t, <1>1 DEF BeginJobRefresh, WaitEnds, WaitGivesUp, CancelJob, JobRecords
<1>2. ASSUME NEW job \in Jobs \cup {NoJob}, AfterRefresh(job, attempts)
      PROVE  jobs'[j].since \in {jobs[j].since, attempts, 0}
  BY <1>2, JobTypes, JobsAfterRefresh
<1>3. ASSUME NEW g \in DOMAIN refreshes, RefreshStep(g) \/ Panic(g)
      PROVE  jobs'[j].since \in {jobs[j].since, attempts, 0}
  <2>1. refreshes[g].job \in Jobs \cup {NoJob}
    BY JobTypes
  <2>2. CASE Collected(g) \/ Panic(g)
    BY <1>t, <2>2 DEF Collected, Panic, JobRecords
  <2>3. CASE AfterRefresh(refreshes[g].job, attempts)
    BY <1>2, <2>1, <2>3
  <2>4. CASE jobs' = IF refreshes[g].job = NoJob THEN jobs
                     ELSE [jobs EXCEPT ![refreshes[g].job].since = attempts]
    BY <1>t, <2>4 DEF JobRecords
  <2>5. Abandon(g) \/ Discard(g) => AfterRefresh(refreshes[g].job, attempts)
    BY DEF Abandon, Discard
  <2>6. Publish(g) => \/ AfterRefresh(refreshes[g].job, attempts)
                      \/ jobs' = IF refreshes[g].job = NoJob THEN jobs
                                 ELSE [jobs EXCEPT ![refreshes[g].job].since = attempts]
    BY DEF Publish
  <2> QED
    BY <1>3, <2>2, <2>3, <2>4, <2>5, <2>6 DEF RefreshStep
<1>4. ASSUME NEW g \in DOMAIN starters, StarterStep(g)
      PROVE  jobs'[j].since \in {jobs[j].since, attempts, 0}
  <2> DEFINE s == starters[g]
  <2>1. s \in StarterRecords
    BY JobTypes
  <2>2. \/ jobs' = jobs
        \/ \E scan \in {"none", "refused"} : StarterDone(g, [s EXCEPT !.scan = scan])
        \/ StarterDone(g, [s EXCEPT !.next = 0])
    BY <1>4 DEF StarterStep, StartScan, ScanRefused, StartRefresh, RefreshRefused
  <2>3. jobs' = jobs \/ \E r : r.job = starters[g].job /\ StarterDone(g, r)
    BY <2>1, <2>2 DEF StarterRecords
  <2> QED
    BY <2>3, JobsAfterStarter
<1>5. ASSUME NEW g \in DOMAIN scans, ScanStep(g) PROVE jobs' = jobs
  BY <1>5 DEF ScanStep, CheckScan, QuitScan, BeginScan, EndScan
<1>6. CASE Request \/ BeginShutdown \/ UNCHANGED vars
  BY <1>6 DEF Request, RequestRefresh, RequestFollowUp, BeginShutdown, vars
<1> QED
  BY <1>1, <1>3, <1>4, <1>5, <1>6 DEF Next, Stopped

(* What a step does to the scans and their numbers.                        *)
LEMMA CountStep ==
    ASSUME TypeOK, ScanToken, ScansAreCounted, [Next]_vars
    PROVE  /\ attempts' \in {attempts, attempts + 1}
           /\ finished <= finished' /\ finished' <= attempts'
           /\ \A g \in DOMAIN scans' : scans'[g].at = "scan" => scans'[g].attempt = attempts'
<1>t. /\ attempts \in Nat /\ finished \in Nat /\ finished <= attempts
      /\ scans \in [DOMAIN scans -> ScanRecords]
      /\ \A g \in DOMAIN scans : scans[g].at = "scan" => scans[g].attempt = attempts
      /\ \A g, h \in DOMAIN scans : g = h
  BY DEF TypeOK, ScansAreCounted, ScanToken
<1>1. CASE UNCHANGED <<attempts, finished, scans>>
  BY <1>t, <1>1
<1>2. ASSUME NEW g \in DOMAIN starters, StartScan(g), ~shuttingDown
      PROVE  /\ UNCHANGED <<attempts, finished>>
             /\ \A h \in DOMAIN scans' : scans'[h].at = "scan" => scans'[h].attempt = attempts'
  BY <1>t, <1>2 DEF StartScan, With, store
<1>3. ASSUME NEW g \in DOMAIN scans, CheckScan(g) \/ QuitScan(g)
      PROVE  /\ UNCHANGED <<attempts, finished>>
             /\ \A h \in DOMAIN scans' : scans'[h].at = "scan" => scans'[h].attempt = attempts'
  <2>1. UNCHANGED <<attempts, finished>>
    BY <1>3 DEF CheckScan, QuitScan, store
  <2>2. CASE CheckScan(g)
    <3>1. scans[g] \in ScanRecords
      BY <1>t
    <3>2. scans'[g].at \in {"quit", "begin"} /\ DOMAIN scans' = DOMAIN scans
      BY <2>2, <3>1 DEF CheckScan, ScanRecords
    <3> QED
      BY <1>t, <2>1, <3>2
  <2>3. CASE QuitScan(g)
    BY <1>t, <2>1, <2>3 DEF QuitScan, Without
  <2> QED
    BY <1>3, <2>1, <2>2, <2>3
<1>4. ASSUME NEW g \in DOMAIN scans, BeginScan(g)
      PROVE  /\ attempts' = attempts + 1 /\ finished' = finished
             /\ \A h \in DOMAIN scans' : scans'[h].at = "scan" => scans'[h].attempt = attempts'
  <2>1. /\ attempts' = attempts + 1 /\ finished' = finished
        /\ scans' = [scans EXCEPT ![g] = [at |-> "scan", attempt |-> attempts + 1]]
    BY <1>4 DEF BeginScan
  <2> QED
    BY <1>t, <2>1
<1>5. ASSUME NEW g \in DOMAIN scans, EndScan(g)
      PROVE  /\ attempts' = attempts /\ finished' \in {finished, attempts}
             /\ \A h \in DOMAIN scans' : scans'[h].at = "scan" => scans'[h].attempt = attempts'
  <2>1. /\ attempts' = attempts /\ scans[g].at = "scan"
        /\ finished' \in {finished, scans[g].attempt}
        /\ \/ scans' = [scans EXCEPT ![g].at = "check"]
           \/ scans' = Without(scans, g)
    BY <1>5 DEF EndScan
  <2>2. scans[g].attempt = attempts /\ DOMAIN scans = {g} /\ scans[g] \in ScanRecords
    BY <1>t, <2>1
  <2>3. scans' = [scans EXCEPT ![g].at = "check"] => scans'[g].at = "check"
    BY <2>2 DEF ScanRecords
  <2> QED
    BY <2>1, <2>2, <2>3 DEF Without
<1>6. ASSUME NEW g \in DOMAIN refreshes, RefreshStep(g) \/ Panic(g)
      PROVE  UNCHANGED <<attempts, finished, scans>>
  BY <1>6 DEF RefreshStep, Collected, Abandon, Discard, Publish, Panic, store
<1>7. ASSUME NEW g \in DOMAIN starters, StarterStep(g), ~(StartScan(g) /\ ~shuttingDown)
      PROVE  UNCHANGED <<attempts, finished, scans>>
  BY <1>7 DEF StarterStep, StartScan, ScanRefused, StartRefresh, RefreshRefused, store
<1>8. ASSUME NEW j \in Jobs,
             BeginJobRefresh(j) \/ WaitEnds(j) \/ WaitGivesUp(j) \/ CancelJob(j)
      PROVE  UNCHANGED <<attempts, finished, scans>>
  BY <1>8 DEF BeginJobRefresh, WaitEnds, WaitGivesUp, CancelJob, store
<1>9. CASE Request \/ BeginShutdown \/ UNCHANGED vars
  BY <1>1, <1>9 DEF Request, RequestRefresh, RequestFollowUp, BeginShutdown, vars, store
<1> QED
  BY <1>t, <1>1, <1>2, <1>3, <1>4, <1>5, <1>6, <1>7, <1>8, <1>9
  DEF Next, StarterStep, ScanStep, Stopped

LEMMA ScansAreCountedStep ==
    ASSUME TypeOK, ScanToken, ScansAreCounted, [Next]_vars
    PROVE  ScansAreCounted'
<1>1. \A j \in Jobs : jobs'[j].since <= attempts'
  <2> SUFFICES ASSUME NEW j \in Jobs PROVE jobs'[j].since <= attempts'
    OBVIOUS
  <2>1. jobs[j].since \in Nat /\ jobs[j].since <= attempts /\ attempts \in Nat
    BY JobTypes DEF ScansAreCounted
  <2> QED
    BY <2>1, SinceStep, CountStep
<1> QED
  BY <1>1, CountStep DEF ScansAreCounted

(* Until a shutdown, a scan that will come does come.                      *)
LEMMA FreshStays ==
    ASSUME TypeOK, ScanToken, RefusalIsShutdown, ScansAreCounted, [Next]_vars,
           finished' \in Nat, ~shuttingDown', NEW n \in Nat, n <= attempts, Fresh(n)
    PROVE  Fresh(n)'
<1>t. /\ attempts \in Nat /\ finished \in Nat /\ finished <= attempts
      /\ finished <= finished' /\ scans \in [DOMAIN scans -> ScanRecords]
      /\ \A g \in DOMAIN scans : scans[g].at = "scan" => scans[g].attempt = attempts
  BY CountStep DEF TypeOK, ScansAreCounted
<1>1. CASE finished > n
  BY <1>t, <1>1 DEF Fresh
<1> SUFFICES ASSUME ~(finished > n) PROVE Fresh(n)'
  BY <1>1
<1>2. /\ scanLoading
      /\ \A g \in DOMAIN scans : scans[g].at = "scan" /\ scans[g].attempt <= n => scanQueued
  BY DEF Fresh
<1>3. CASE UNCHANGED <<scanLoading, scanQueued, scans>>
  BY <1>2, <1>3 DEF Fresh
<1>4. ASSUME NEW g \in DOMAIN refreshes, Publish(g) PROVE Fresh(n)'
  <2>1. scans' = scans /\ scanLoading' /\ (scanQueued => scanQueued')
    BY <1>2, <1>4 DEF Publish, DecideScan
  <2> QED
    BY <1>2, <2>1 DEF Fresh
<1>5. ASSUME NEW g \in DOMAIN starters, StartScan(g) PROVE Fresh(n)'
  <2>1. scanLoading' /\ scans' = With(scans, g, [at |-> "check", attempt |-> 0])
    BY <1>2, <1>5 DEF StartScan, store
  <2>2. DOMAIN scans = {}
    BY <1>5 DEF StartScan, ScanToken, ScanStarters
  <2> QED
    BY <2>1, <2>2 DEF Fresh, With
<1>6. ASSUME NEW g \in DOMAIN starters, ScanRefused(g) PROVE FALSE
  BY <1>6 DEF ScanRefused, RefusalIsShutdown
<1>7. ASSUME NEW g \in DOMAIN scans, CheckScan(g) PROVE Fresh(n)'
  <2>1. /\ UNCHANGED <<scanLoading, scanQueued>> /\ DOMAIN scans' = DOMAIN scans
        /\ \A h \in DOMAIN scans : h # g => scans'[h] = scans[h]
    BY <1>7 DEF CheckScan, store
  <2>2. scans[g] \in ScanRecords
    BY <1>t
  <2>3. scans'[g].at # "scan"
    BY <1>7, <2>2 DEF CheckScan, ScanRecords
  <2> QED
    BY <1>2, <2>1, <2>3 DEF Fresh
<1>8. ASSUME NEW g \in DOMAIN scans, QuitScan(g) PROVE FALSE
  BY <1>8 DEF QuitScan, RefusalIsShutdown
<1>9. ASSUME NEW g \in DOMAIN scans PROVE DOMAIN scans = {g}
  BY DEF ScanToken
<1>10. ASSUME NEW g \in DOMAIN scans, BeginScan(g) PROVE Fresh(n)'
  <2>1. /\ UNCHANGED <<scanLoading, scanQueued>>
        /\ scans' = [scans EXCEPT ![g] = [at |-> "scan", attempt |-> attempts + 1]]
    BY <1>10 DEF BeginScan, store
  <2>2. ~(attempts + 1 <= n)
    BY <1>t
  <2>3. \A h \in DOMAIN scans' : scans'[h].attempt = attempts + 1
    BY <1>9, <2>1
  <2> QED
    BY <1>2, <2>1, <2>2, <2>3 DEF Fresh
<1>11. ASSUME NEW g \in DOMAIN scans, EndScan(g) PROVE Fresh(n)'
  <2>1. /\ scans[g].at = "scan" /\ scans[g].attempt = attempts /\ ~shuttingDown
    BY <1>t, <1>11 DEF EndScan
  <2>2. finished' = attempts
    BY <1>11, <2>1 DEF EndScan
  <2>3. CASE attempts > n
    BY <2>2, <2>3 DEF Fresh
  <2>4. CASE ~(attempts > n)
    <3>1. scans[g].attempt <= n
      BY <1>t, <2>1, <2>4
    <3>2. scanQueued
      BY <1>2, <2>1, <3>1
    <3>3. scanLoading' /\ scans' = [scans EXCEPT ![g].at = "check"]
      BY <1>11, <2>1, <3>2 DEF EndScan, StaysLoading
    <3>4. scans[g] \in ScanRecords
      BY <1>t
    <3>5. \A h \in DOMAIN scans' : scans'[h].at = "check"
      BY <1>9, <3>3, <3>4 DEF ScanRecords
    <3> QED
      BY <3>3, <3>5 DEF Fresh
  <2> QED
    BY <2>3, <2>4
<1>12. ASSUME NEW g \in DOMAIN refreshes, Collected(g) \/ Abandon(g) \/ Discard(g) \/ Panic(g)
       PROVE  UNCHANGED <<scanLoading, scanQueued, scans>>
  BY <1>12 DEF Collected, Abandon, Discard, Panic, store
<1>13. ASSUME NEW g \in DOMAIN starters, StartRefresh(g) \/ RefreshRefused(g)
       PROVE  UNCHANGED <<scanLoading, scanQueued, scans>>
  BY <1>13 DEF StartRefresh, RefreshRefused, store
<1>14. ASSUME NEW j \in Jobs,
              BeginJobRefresh(j) \/ WaitEnds(j) \/ WaitGivesUp(j) \/ CancelJob(j)
       PROVE  UNCHANGED <<scanLoading, scanQueued, scans>>
  BY <1>14 DEF BeginJobRefresh, WaitEnds, WaitGivesUp, CancelJob, store
<1>15. CASE Request \/ BeginShutdown \/ UNCHANGED vars
  BY <1>3, <1>15 DEF Request, RequestRefresh, RequestFollowUp, BeginShutdown, vars, store
<1> QED
  BY <1>3, <1>4, <1>5, <1>6, <1>7, <1>8, <1>10, <1>11, <1>12, <1>13, <1>14, <1>15
  DEF Next, RefreshStep, StarterStep, ScanStep, Stopped

LEMMA ShutdownStays == [Next]_vars /\ shuttingDown => shuttingDown'
BY DEF Next, Request, RequestRefresh, RequestFollowUp, RefreshStep, Collected, Abandon,
   Discard, Publish, Panic, StarterStep, StartScan, ScanRefused, StartRefresh,
   RefreshRefused, ScanStep, CheckScan, QuitScan, BeginScan, EndScan, BeginJobRefresh,
   WaitEnds, WaitGivesUp, CancelJob, BeginShutdown, Stopped, vars

(* The facts the steps of a waiting job share.                             *)
JobContext == /\ TypeOK /\ Ownership /\ ScanToken /\ RefusalIsShutdown
              /\ JobOwnsRefresh /\ ScansAreCounted /\ WaitsForFreshScan

LEMMA SeesStays ==
    ASSUME JobContext, TypeOK', [Next]_vars, NEW j \in Jobs, Sees(j),
           jobs'[j].since = jobs[j].since, jobs[j].cancelled => jobs'[j].cancelled
    PROVE  Sees(j)'
<1>1. CASE jobs[j].cancelled \/ shuttingDown'
  BY <1>1 DEF Sees
<1>2. CASE ~jobs[j].cancelled /\ ~shuttingDown'
  <2>1. PICK n \in Nat : n = jobs[j].since
    BY JobTypes DEF JobContext
  <2>2. n <= attempts /\ Fresh(n)
    BY <1>2, <2>1, ShutdownStays DEF JobContext, ScansAreCounted, Sees
  <2>3. finished' \in Nat
    BY DEF TypeOK
  <2>4. Fresh(n)'
    BY <1>2, <2>2, <2>3, FreshStays DEF JobContext
  <2> QED
    BY <2>1, <2>4 DEF Sees, Fresh
<1> QED
  BY <1>1, <1>2

(* A job that waits saw its scan coming already, or does so now.           *)
LEMMA WaitsFrame ==
    ASSUME JobContext, TypeOK', [Next]_vars,
           \A j \in Jobs :
              WillWait(j)' =>
                 \/ Sees(j)'
                 \/ /\ Sees(j) /\ jobs'[j].since = jobs[j].since
                    /\ jobs[j].cancelled => jobs'[j].cancelled,
           \A j \in Jobs :
              jobs'[j].at = "scanned" =>
                 \/ jobs'[j].cancelled \/ shuttingDown' \/ finished > jobs'[j].since
                 \/ jobs[j].at = "scanned" /\ jobs'[j] = jobs[j]
    PROVE  WaitsForFreshScan'
<1>1. \A j \in Jobs : WillWait(j)' => Sees(j)'
  BY SeesStays
<1>2. ASSUME NEW j \in Jobs, jobs'[j].at = "scanned"
      PROVE  jobs'[j].cancelled \/ shuttingDown' \/ finished' > jobs'[j].since
  <2>1. jobs'[j].since \in Nat /\ finished \in Nat /\ finished' \in Nat /\ finished <= finished'
    BY CountStep DEF JobContext, TypeOK, JobRecords
  <2>2. jobs'[j].cancelled \/ shuttingDown' \/ finished > jobs'[j].since
    BY <1>2, ShutdownStays DEF JobContext, WaitsForFreshScan, WaitSeesFreshScan
  <2> QED
    BY <2>1, <2>2
<1>3. \A j \in Jobs :
         jobs'[j].at = "scanned" =>
            jobs'[j].cancelled \/ shuttingDown' \/ finished' > jobs'[j].since
  BY <1>2
<1>4. WaitSeesFreshScan'
  BY <1>3 DEF WaitSeesFreshScan
<1> QED
  BY <1>1, <1>4 DEF WaitsForFreshScan

(* Steps after which a job waits only if it did or was about to.           *)
LEMMA WaitsOfOthers ==
    ASSUME JobContext, TypeOK', [Next]_vars,
           \A j \in Jobs :
              /\ WillWait(j)' => /\ WillWait(j) /\ jobs'[j].since = jobs[j].since
                                 /\ jobs[j].cancelled => jobs'[j].cancelled
              /\ jobs'[j].at = "scanned" => jobs'[j] = jobs[j]
    PROVE  WaitsForFreshScan'
<1>1. \A j \in Jobs : WillWait(j) => Sees(j)
  BY DEF JobContext, WaitsForFreshScan
<1> QED
  BY <1>1, WaitsFrame

LEMMA WaitsOfRefresh ==
    ASSUME JobContext, TypeOK', [Next]_vars, NEW g \in DOMAIN refreshes,
           RefreshStep(g) \/ Panic(g)
    PROVE  WaitsForFreshScan'
<1>t. /\ refreshes[g].job \in Jobs \cup {NoJob} /\ attempts \in Nat
      /\ jobs \in [Jobs -> JobRecords]
  BY JobTypes DEF JobContext, TypeOK
<1>1. CASE Collected(g) \/ Discard(g)
  <2>1. Discard(g) => refreshes[g].job = NoJob
    BY DEF Discard, IsCurrent, JobContext, JobOwnsRefresh
  <2>2. UNCHANGED <<starters, jobs>>
    BY <1>1, <2>1 DEF Collected, Discard, AfterRefresh
  <2> QED
    BY <2>2, WaitsOfOthers DEF WillWait
<1>2. CASE Panic(g)
  <2>1. /\ starters' = starters /\ jobs' = [jobs EXCEPT ![refreshes[g].job].at = "idle"]
        /\ refreshes[g].job \in Jobs
    BY <1>t, <1>2 DEF Panic
  <2>2. \A j \in Jobs : /\ jobs'[j].since = jobs[j].since /\ jobs'[j].cancelled = jobs[j].cancelled
                        /\ jobs'[j].at \in {jobs[j].at, "idle"}
                        /\ jobs'[j] = jobs[j] \/ jobs'[j].at = "idle"
    BY <1>t, <2>1 DEF JobRecords
  <2> QED
    BY <2>1, <2>2, WaitsOfOthers DEF WillWait
<1>3. CASE Abandon(g)
  <2>1. /\ starters' = starters /\ AfterRefresh(refreshes[g].job, attempts)
        /\ UNCHANGED shuttingDown /\ ContextDone(refreshes[g].job)
    BY <1>3 DEF Abandon, JobContext, JobOwnsRefresh
  <2>2. ASSUME NEW j \in Jobs
        PROVE  /\ j # refreshes[g].job => jobs'[j] = jobs[j]
               /\ j = refreshes[g].job => Sees(j)' /\ jobs'[j].at \in {"idle", "wait"}
    <3>1. /\ jobs'[j].cancelled = jobs[j].cancelled
          /\ j # refreshes[g].job => jobs'[j] = jobs[j]
          /\ j = refreshes[g].job => jobs'[j].at \in {"idle", "wait"}
      BY <1>t, <2>1, JobsAfterRefresh DEF JobContext
    <3>2. j = refreshes[g].job => jobs[j].cancelled \/ shuttingDown
      BY <2>1, JobsAssumption DEF ContextDone
    <3> QED
      BY <2>1, <3>1, <3>2 DEF Sees
  <2>3. \A j \in Jobs : WillWait(j) => Sees(j)
    BY DEF JobContext, WaitsForFreshScan
  <2> QED
    BY <2>1, <2>2, <2>3, WaitsFrame DEF WillWait
<1>4. CASE Publish(g)
  <2>1. PICK wantScan \in BOOLEAN :
          /\ ~wantScan => ~refreshes[g].force
          /\ DecideScan(wantScan, refreshes[g].force)
          /\ \/ starters' = starters
             \/ \E r : r.job = refreshes[g].job /\ starters' = With(starters, g, r)
          /\ \/ jobs' = IF refreshes[g].job = NoJob THEN jobs
                        ELSE [jobs EXCEPT ![refreshes[g].job].since = attempts]
             \/ AfterRefresh(refreshes[g].job, attempts)
    <3>1. PICK wantScan \in BOOLEAN :
            /\ ~wantScan => ~refreshes[g].force
            /\ DecideScan(wantScan, refreshes[g].force)
            /\ starters' =
                  IF queued \/ MustLaunch(wantScan)
                  THEN With(starters, g,
                         [job |-> refreshes[g].job,
                          scan |-> IF MustLaunch(wantScan) THEN "start" ELSE "none",
                          next |-> IF queued THEN NextGeneration ELSE 0,
                          force |-> TRUE, refused |-> FALSE])
                  ELSE starters
            /\ IF queued \/ MustLaunch(wantScan)
               THEN jobs' = IF refreshes[g].job = NoJob THEN jobs
                            ELSE [jobs EXCEPT ![refreshes[g].job].since = attempts]
               ELSE AfterRefresh(refreshes[g].job, attempts)
      BY <1>4 DEF Publish
    <3> DEFINE r == [job |-> refreshes[g].job,
                     scan |-> IF MustLaunch(wantScan) THEN "start" ELSE "none",
                     next |-> IF queued THEN NextGeneration ELSE 0,
                     force |-> TRUE, refused |-> FALSE]
    <3>2. starters' = starters \/ starters' = With(starters, g, r)
      BY <3>1
    <3>3. r.job = refreshes[g].job
      OBVIOUS
    <3> HIDE DEF r
    <3> QED
      BY <3>1, <3>2, <3>3
  <2>2. \A d \in DOMAIN starters' :
           \/ d \in DOMAIN starters /\ starters'[d].job = starters[d].job
           \/ starters'[d].job = refreshes[g].job
    BY <2>1 DEF With
  <2>3. ASSUME NEW j \in Jobs
        PROVE  /\ j # refreshes[g].job => jobs'[j] = jobs[j]
               /\ j = refreshes[g].job => jobs'[j].since = attempts /\ jobs'[j].at # "scanned"
    <3>1. CASE AfterRefresh(refreshes[g].job, attempts)
      BY <1>t, <3>1, JobsAfterRefresh DEF JobContext
    <3>2. CASE jobs' = IF refreshes[g].job = NoJob THEN jobs
                       ELSE [jobs EXCEPT ![refreshes[g].job].since = attempts]
      <4>1. jobs[j] \in JobRecords /\ j # NoJob
        BY <1>t, JobsAssumption
      <4>2. j = refreshes[g].job => jobs[j].at = "refresh"
        BY <4>1 DEF JobContext, JobOwnsRefresh
      <4> QED
        BY <1>t, <3>2, <4>1, <4>2 DEF JobRecords
    <3> QED
      BY <2>1, <3>1, <3>2
  <2>4. ASSUME refreshes[g].job # NoJob PROVE Fresh(attempts)'
    <3>1. refreshes[g].force /\ wantScan /\ scans' = scans /\ attempts' = attempts
      BY <1>4, <2>1, <2>4 DEF JobContext, JobOwnsRefresh, Publish
    <3>2. scanLoading' /\ (scanLoading => scanQueued')
      BY <2>1, <3>1 DEF DecideScan
    <3>3. DOMAIN scans # {} => scanLoading
      BY DEF JobContext, ScanToken
    <3> QED
      BY <3>1, <3>2, <3>3 DEF Fresh
  <2>5. attempts' = attempts
    BY <1>4 DEF Publish
  <2>6. ASSUME NEW j \in Jobs, j = refreshes[g].job PROVE Sees(j)'
    <3>1. refreshes[g].job # NoJob /\ jobs'[j].since = attempts
      BY <2>3, <2>6, JobsAssumption
    <3> QED
      BY <2>4, <2>5, <3>1 DEF Sees, Fresh
  <2>7. ASSUME NEW j \in Jobs, WillWait(j)'
        PROVE  \/ Sees(j)'
               \/ /\ Sees(j) /\ jobs'[j].since = jobs[j].since
                  /\ jobs[j].cancelled => jobs'[j].cancelled
    <3>1. CASE j = refreshes[g].job
      BY <2>6, <3>1
    <3>2. CASE j # refreshes[g].job
      <4>1. jobs'[j] = jobs[j] /\ WillWait(j)
        BY <2>2, <2>3, <2>7, <3>2 DEF WillWait
      <4> QED
        BY <4>1 DEF JobContext, WaitsForFreshScan
    <3> QED
      BY <3>1, <3>2
  <2>8. \A j \in Jobs : jobs'[j].at = "scanned" => jobs[j].at = "scanned" /\ jobs'[j] = jobs[j]
    BY <2>3
  <2> QED
    BY <2>7, <2>8, WaitsFrame
<1> QED
  BY <1>1, <1>2, <1>3, <1>4 DEF RefreshStep

LEMMA WaitsOfStarter ==
    ASSUME JobContext, TypeOK', [Next]_vars, NEW g \in DOMAIN starters, StarterStep(g)
    PROVE  WaitsForFreshScan'
<1> DEFINE s == starters[g]
<1>t. starters[g] \in StarterRecords /\ starters[g].job \in Jobs \cup {NoJob}
  BY JobTypes DEF JobContext
<1>1. CASE StartRefresh(g) /\ shuttingDown
  <2>1. jobs' = jobs /\ starters' = [starters EXCEPT ![g].refused = TRUE]
    BY <1>1 DEF StartRefresh
  <2>2. \A d \in DOMAIN starters' : d \in DOMAIN starters /\ starters'[d].job = starters[d].job
    BY <1>t, <2>1 DEF StarterRecords
  <2> QED
    BY <2>1, <2>2, WaitsOfOthers DEF WillWait
<1>2. CASE ~(StartRefresh(g) /\ shuttingDown)
  <2>1. \E scan \in {"none", "refused"} : StarterDone(g, [s EXCEPT !.scan = scan])
           \/ StarterDone(g, [s EXCEPT !.next = 0])
    BY <1>2 DEF StarterStep, StartScan, ScanRefused, StartRefresh, RefreshRefused
  <2>2. PICK r : r.job = starters[g].job /\ StarterDone(g, r)
    BY <1>t, <2>1 DEF StarterRecords
  <2>3. \A d \in DOMAIN starters' : d \in DOMAIN starters /\ starters'[d].job = starters[d].job
    BY <2>2, StarterDoneFacts
  <2>4. ASSUME NEW j \in Jobs
        PROVE  /\ WillWait(j)' => /\ WillWait(j) /\ jobs'[j].since = jobs[j].since
                                  /\ jobs[j].cancelled => jobs'[j].cancelled
               /\ jobs'[j].at = "scanned" => jobs'[j] = jobs[j]
    <3>1. /\ jobs'[j].cancelled = jobs[j].cancelled /\ jobs'[j].since = jobs[j].since
          /\ \/ jobs'[j].at = jobs[j].at
             \/ j = starters[g].job /\ jobs'[j].at \in {"idle", "wait"}
      BY <2>2, JobsAfterStarter DEF JobContext
    <3>2. WillWait(j)' => WillWait(j)
      BY <2>3, <3>1 DEF WillWait
    <3>3. jobs[j] \in JobRecords /\ jobs'[j] \in JobRecords
      BY DEF JobContext, TypeOK
    <3>4. jobs'[j].at = "scanned" => jobs'[j] = jobs[j]
      BY <3>1, <3>3 DEF JobRecords
    <3> QED
      BY <3>1, <3>2, <3>4
  <2> QED
    BY <2>4, WaitsOfOthers
<1> QED
  BY <1>1, <1>2

LEMMA WaitsOfJob ==
    ASSUME JobContext, TypeOK', [Next]_vars, NEW i \in Jobs,
           BeginJobRefresh(i) \/ WaitEnds(i) \/ WaitGivesUp(i) \/ CancelJob(i)
    PROVE  WaitsForFreshScan'
<1>t. jobs \in [Jobs -> JobRecords] /\ jobs[i] \in JobRecords
  BY DEF JobContext, TypeOK
<1>1. starters' = starters
  BY DEF BeginJobRefresh, WaitEnds, WaitGivesUp, CancelJob
<1>2. \A j \in Jobs : j # i => jobs'[j] = jobs[j]
  BY <1>t DEF BeginJobRefresh, WaitEnds, WaitGivesUp, CancelJob
<1>3. CASE BeginJobRefresh(i)
  <2>1. jobs'[i].at = "refresh" /\ jobs[i].at # "refresh"
    BY <1>t, <1>3 DEF BeginJobRefresh
  <2>2. \A d \in DOMAIN starters : starters[d].job # i
    BY <2>1, JobsAssumption DEF JobContext, JobOwnsRefresh
  <2> QED
    BY <1>1, <1>2, <2>1, <2>2, WaitsOfOthers DEF WillWait
<1>4. CASE WaitGivesUp(i)
  <2>1. /\ jobs'[i].at = "idle" /\ jobs'[i].since = jobs[i].since
        /\ jobs'[i].cancelled = jobs[i].cancelled
    BY <1>t, <1>4 DEF WaitGivesUp, JobRecords
  <2> QED
    BY <1>1, <1>2, <2>1, WaitsOfOthers DEF WillWait
<1>5. CASE CancelJob(i)
  <2>1. /\ jobs'[i].at = jobs[i].at /\ jobs'[i].since = jobs[i].since
        /\ jobs'[i].cancelled /\ jobs[i].at # "scanned"
    BY <1>t, <1>5 DEF CancelJob, JobRecords
  <2> QED
    BY <1>1, <1>2, <2>1, WaitsOfOthers DEF WillWait
<1>6. CASE WaitEnds(i)
  <2>1. /\ jobs'[i].at = "scanned" /\ jobs'[i].since = jobs[i].since
        /\ jobs'[i].cancelled = jobs[i].cancelled /\ jobs[i].at = "wait"
        /\ ~scanLoading /\ UNCHANGED shuttingDown
    BY <1>t, <1>6 DEF WaitEnds, JobRecords
  <2>2. \A j \in Jobs : WillWait(j) => Sees(j)
    BY DEF JobContext, WaitsForFreshScan
  <2>3. jobs'[i].cancelled \/ shuttingDown' \/ finished > jobs'[i].since
    BY <2>1, <2>2 DEF WillWait, Sees, Fresh
  <2>4. \A j \in Jobs :
           jobs'[j].at = "scanned" =>
              \/ jobs'[j].cancelled \/ shuttingDown' \/ finished > jobs'[j].since
              \/ jobs[j].at = "scanned" /\ jobs'[j] = jobs[j]
    BY <1>2, <2>3
  <2>5. \A j \in Jobs :
           WillWait(j)' => /\ Sees(j) /\ jobs'[j].since = jobs[j].since
                           /\ jobs[j].cancelled => jobs'[j].cancelled
    BY <1>1, <1>2, <2>1, <2>2 DEF WillWait
  <2> QED
    BY <2>4, <2>5, WaitsFrame
<1> QED
  BY <1>3, <1>4, <1>5, <1>6

LEMMA WaitsForFreshScanStep ==
    ASSUME JobContext, TypeOK', [Next]_vars
    PROVE  WaitsForFreshScan'
<1>1. CASE UNCHANGED <<starters, jobs>>
  BY <1>1, WaitsOfOthers DEF WillWait
<1>2. ASSUME NEW force \in BOOLEAN, RequestRefresh(force) PROVE WaitsForFreshScan'
  <2>1. jobs' = jobs /\ \A d \in DOMAIN starters' :
           \/ d \in DOMAIN starters /\ starters'[d] = starters[d]
           \/ starters'[d].job = NoJob
    BY <1>2 DEF RequestRefresh, With
  <2> QED
    BY <2>1, JobsAssumption, WaitsOfOthers DEF WillWait
<1>3. ASSUME NEW g \in DOMAIN scans, ScanStep(g) PROVE UNCHANGED <<starters, jobs>>
  BY <1>3 DEF ScanStep, CheckScan, QuitScan, BeginScan, EndScan
<1>4. CASE RequestFollowUp \/ BeginShutdown \/ UNCHANGED vars
  BY <1>1, <1>4 DEF RequestFollowUp, BeginShutdown, vars
<1> QED
  BY <1>1, <1>2, <1>3, <1>4, WaitsOfRefresh, WaitsOfStarter, WaitsOfJob
  DEF Next, Request, Stopped

-----------------------------------------------------------------------------
(* The theorems.                                                           *)

(* With one job at a time, what a job's refresh relies on always holds.    *)
THEOREM JobInvariant ==
    ASSUME OneJob
    PROVE  Safety => [](IInv /\ RefusalIsShutdown /\ JobInv)
<1> DEFINE Inv == IInv /\ RefusalIsShutdown /\ JobInv
<1>1. Init => Inv
  <2>1. Init => WaitsForFreshScan
    BY DEF Init, WaitsForFreshScan, WillWait, WaitSeesFreshScan, Nothing
  <2> QED
    BY <2>1, TypeInit, OwnershipInit, ScanTokenInit, RefusalInit, JobOwnsRefreshInit,
       ScansAreCountedInit DEF IInv, JobInv
<1>2. Inv /\ [Next]_vars => Inv'
  <2> SUFFICES ASSUME Inv, [Next]_vars PROVE Inv'
    OBVIOUS
  <2>1. TypeOK /\ Ownership /\ ScanToken /\ RefusalIsShutdown /\ Launches /\ JobContext
    BY DEF IInv, Ownership, JobInv, JobContext
  <2>2. IInv' /\ TypeOK' /\ RefusalIsShutdown'
    BY <2>1, TypeStep, OwnershipStep, ScanTokenStep, RefusalStep DEF IInv
  <2>3. JobInv'
    BY <2>1, <2>2, JobOwnsRefreshStep, ScansAreCountedStep, WaitsForFreshScanStep
    DEF JobInv, JobContext
  <2> QED
    BY <2>2, <2>3
<1> QED
  BY <1>1, <1>2, PTL DEF Safety

(* Nothing supersedes the refresh of the one job: no request, no follow-up *)
(* and no other refresh begins before it ends (refreshInventorySyncContext *)
(* in app_inventory.go).                                                   *)
THEOREM JobRefreshStaysAuthoritative ==
    ASSUME OneJob
    PROVE  Safety => []JobRefreshIsAuthoritative
<1>1. JobInv => JobRefreshIsAuthoritative
  BY DEF JobInv, JobOwnsRefresh, JobRefreshIsAuthoritative, IsCurrent
<1>2. Safety => [](IInv /\ RefusalIsShutdown /\ JobInv)
  BY JobInvariant
<1> QED
  BY <1>1, <1>2, PTL

(* An update job that has waited for the Store scan, and was not cancelled,*)
(* judges its packages by a scan that began after its own refresh          *)
(* (waitForStoreScanIdle and the follow-up of runStoreScan).               *)
THEOREM WaitsEndFresh ==
    ASSUME OneJob
    PROVE  Safety => []WaitSeesFreshScan
<1>1. JobInv => WaitSeesFreshScan
  BY DEF JobInv, WaitsForFreshScan
<1>2. Safety => [](IInv /\ RefusalIsShutdown /\ JobInv)
  BY JobInvariant
<1> QED
  BY <1>1, <1>2, PTL
=============================================================================
