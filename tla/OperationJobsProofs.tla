------------------------ MODULE OperationJobsProofs ------------------------
(***************************************************************************)
(* Proofs about OperationJobs, for every set of clients, packages and      *)
(* requests and for all limits: the safety properties of the job queue     *)
(* follow from the inductive invariant IInv below.                         *)
(***************************************************************************)
EXTENDS OperationJobs, FiniteSetTheorems, TLAPS

-----------------------------------------------------------------------------
(* The inductive invariant. RunningHasRunner, QueueIsSound,                *)
(* NoConflictingJobs and NoWorkAfterWait are part of it as they stand.     *)

(* The active flag is a token that at most one goroutine holds: a queue    *)
(* runner, or the submitter that has yet to launch it.                     *)
Token ==
    /\ \A v, w \in DOMAIN runners : v = w
    /\ \A c, d \in Launching : c = d
    /\ Launching # {} => DOMAIN runners = {}
    /\ active <=> (DOMAIN runners # {} \/ Launching # {})

(* A body that has not ended has published no outcome but a cancellation   *)
(* behind which it refreshes, one that has ended has published its outcome. *)
Working ==
    \A w \in DOMAIN runners :
       /\ runners[w].at = "end" => jobs[runners[w].job].state \in OutcomeStates
       /\ runners[w].at = "act" => jobs[runners[w].job].state \in ProgressStates
       /\ runners[w].at \in {"refresh", "panic"} =>
             jobs[runners[w].job].state \in {"refreshing", "cancelled"} \cup ProgressStates

(* A queued job is in the queue; only a shutdown refuses a launch, and     *)
(* only a shutdown leaves queued jobs without a runner.                    *)
Waiting ==
    /\ \A j \in DOMAIN jobs : jobs[j].state = "queued" => j \in queue
    /\ \A c \in Clients : clients[c].at = "refused" => ShuttingDown
    /\ ~ShuttingDown /\ ~active => \A j \in DOMAIN jobs : jobs[j].state # "queued"

IInv ==
    /\ TypeOK
    /\ Token
    /\ RunningHasRunner
    /\ Working
    /\ Waiting
    /\ QueueIsSound
    /\ NoConflictingJobs
    /\ NoWorkAfterWait

-----------------------------------------------------------------------------
(* Facts about the operators of the model.                                 *)

(* Conflicts are mutual.                                                   *)
LEMMA ConflictIsMutual ==
    ASSUME NEW r, NEW s, Conflict(r, s) PROVE Conflict(s, r)
  BY DEF Conflict

(* Publishing a job list keeps what is not complete, changes no job and    *)
(* leaves in the queue exactly the jobs that are still listed.             *)
LEMMA PublishFacts ==
    ASSUME NEW js, js = [j \in DOMAIN js |-> js[j]], queue \subseteq DOMAIN js,
           PublishAndPrune(js)
    PROVE  /\ DOMAIN jobs' \subseteq DOMAIN js
           /\ jobs' = [j \in DOMAIN jobs' |-> js[j]]
           /\ \A j \in DOMAIN js : ~Complete(js[j]) => j \in DOMAIN jobs'
           /\ queue' = queue \cap DOMAIN jobs'
<1> DEFINE Kept == [j \in Retained(js) |-> js[j]]
<1>1. Retained(js) \subseteq DOMAIN js
  BY DEF Retained, Done, LatestOfType, MostRecent
<1>2. \A j \in DOMAIN js : ~Complete(js[j]) => j \in Retained(js)
  BY DEF Retained, Done
<1>3. CASE Cardinality(DOMAIN js) <= HistoryLimit
  BY <1>3 DEF PublishAndPrune, Pruned
<1>4. CASE ~(Cardinality(DOMAIN js) <= HistoryLimit)
  <2>1. jobs' = Kept
    BY <1>4 DEF PublishAndPrune, Pruned
  <2>2. DOMAIN jobs' = Retained(js) /\ \A j \in Retained(js) : jobs'[j] = js[j]
    BY <2>1
  <2>3. queue' = queue \cap DOMAIN jobs'
    BY <1>4 DEF PublishAndPrune
  <2> QED
    BY <1>1, <1>2, <2>1, <2>2, <2>3
<1> QED
  BY <1>3, <1>4

(* A step that admits no job and completes some preserves the absence of   *)
(* conflicts.                                                              *)
LEMMA FewerConflicts ==
    ASSUME NoConflictingJobs,
           \A j \in Incomplete' : j \in Incomplete /\ jobs'[j].request = jobs[j].request
    PROVE  NoConflictingJobs'
  BY DEF NoConflictingJobs

(* A cancel of one job keeps its type and its request, completes it or     *)
(* leaves its state alone.                                                 *)
LEMMA CancelFacts ==
    ASSUME NEW job \in JobRecords
    PROVE  /\ WithCancel(job) \in JobRecords
           /\ WithCancel(job).request = job.request
           /\ WithCancel(job).cancelRequested
           /\ WithCancel(job).state =
                 IF job.state = "queued" THEN "cancelled" ELSE job.state
           /\ WithCancel(job).running <=> job.running /\ job.state # "queued"
           /\ CancelledInQueue(job) \in JobRecords
           /\ CancelledInQueue(job).request = job.request
           /\ CancelledInQueue(job).state = "cancelled"
           /\ ~CancelledInQueue(job).running
           /\ CancelledInQueue(job).cancelRequested
  BY DEF WithCancel, CancelledInQueue, JobRecords, JobStates, OutcomeStates

(* The status a body publishes is a status.                                *)
LEMMA StatusType ==
    ASSUME NEW job \in JobRecords, NEW s \in JobStates
    PROVE  /\ [job EXCEPT !.state = s] \in JobRecords
           /\ [job EXCEPT !.state = s].request = job.request
           /\ [job EXCEPT !.state = s].state = s
           /\ [job EXCEPT !.state = s].running = job.running
           /\ \A b \in BOOLEAN :
                 LET new == [job EXCEPT !.state = s, !.cancelRequested = b]
                 IN  /\ new \in JobRecords
                     /\ new.request = job.request
                     /\ new.state = s
                     /\ new.running = job.running
           /\ \A b \in BOOLEAN :
                 LET new == [job EXCEPT !.state = s, !.running = b]
                 IN  /\ new \in JobRecords
                     /\ new.request = job.request
                     /\ new.state = s
                     /\ new.running = b
                     /\ new.cancelRequested = job.cancelRequested
  BY DEF JobRecords

-----------------------------------------------------------------------------
(* Types.                                                                  *)

LEMMA TypeInit == Init => TypeOK
<1> SUFFICES ASSUME Init PROVE TypeOK
  OBVIOUS
<1>1. clients \in [Clients -> ClientRecords]
  BY DEF Init, ClientRecords
<1>2. DOMAIN jobs = {} /\ DOMAIN runners = {}
  BY DEF Init
<1>3. jobs = [j \in DOMAIN jobs |-> jobs[j]] /\ runners = [w \in DOMAIN runners |-> runners[w]]
  BY DEF Init
<1>4. jobs \in [DOMAIN jobs -> JobRecords] /\ runners \in [DOMAIN runners -> RunnerRecords]
  BY <1>2, <1>3
<1> QED
  BY <1>1, <1>2, <1>4 DEF Init, TypeOK

(* Publishing a well typed job list.                                       *)
LEMMA PublishType ==
    ASSUME NEW js, js \in [DOMAIN js -> JobRecords], DOMAIN js \subseteq 1..sequence,
           queue \subseteq 1..sequence, sequence' = sequence,
           PublishAndPrune(js)
    PROVE  /\ DOMAIN jobs' \subseteq 1..sequence'
           /\ jobs' \in [DOMAIN jobs' -> JobRecords]
           /\ queue' \subseteq 1..sequence'
<1>1. Retained(js) \subseteq DOMAIN js
  BY DEF Retained, Done, LatestOfType, MostRecent
<1> QED
  BY <1>1 DEF PublishAndPrune, Pruned

(* The job of a runner that is not waiting for one is listed and running.  *)
LEMMA RunnerJob ==
    ASSUME TypeOK, RunningHasRunner, NEW w \in DOMAIN runners, runners[w].at # "pop"
    PROVE  /\ runners[w].job \in DOMAIN jobs
           /\ runners[w].job \in Nat
           /\ BodyJob(w) \in JobRecords
           /\ BodyJob(w).running
           /\ runners[w] \in [at : {"act", "refresh", "panic", "end"}, job : Nat]
<1>1. runners[w].job \in DOMAIN jobs /\ jobs[runners[w].job].running
  BY DEF RunningHasRunner
<1>2. runners[w] \in [at : {"act", "refresh", "panic", "end"}, job : Nat]
  BY DEF TypeOK, RunnerRecords
<1> QED
  BY <1>1, <1>2 DEF TypeOK, BodyJob

LEMMA BodyType ==
    ASSUME TypeOK, RunningHasRunner, NEW w \in DOMAIN runners, runners[w].at # "pop",
           NEW job \in JobRecords, NEW next \in {"act", "refresh", "end"},
           BodyPublishes(w, job, next)
    PROVE  TypeOK'
<1>1. runners[w] \in [at : {"act", "refresh", "panic", "end"}, job : Nat]
  BY RunnerJob
<1>2. [runners[w] EXCEPT !.at = next] \in RunnerRecords
  BY <1>1 DEF RunnerRecords
<1>3. runners' \in [DOMAIN runners' -> RunnerRecords] /\ DOMAIN runners' = DOMAIN runners
  BY <1>2 DEF BodyPublishes, TypeOK
<1>4. jobs' \in [DOMAIN jobs' -> JobRecords] /\ DOMAIN jobs' = DOMAIN jobs
  BY DEF BodyPublishes, Mutate, TypeOK
<1> QED
  BY <1>3, <1>4 DEF BodyPublishes, Mutate, TypeOK

LEMMA TypeStep == TypeOK /\ RunningHasRunner /\ [Next]_vars => TypeOK'
<1> SUFFICES ASSUME TypeOK, RunningHasRunner, [Next]_vars PROVE TypeOK'
  OBVIOUS
<1> USE DEF JobStates, OutcomeStates, ProgressStates
<1>1. ASSUME NEW c \in Clients, NEW r \in Requests, CheckShutdown(c, r)
      PROVE  TypeOK'
  BY <1>1, RequestsAssumption DEF CheckShutdown, TypeOK, scheduler, ClientRecords
<1>2. ASSUME NEW c \in Clients, Reject(c) PROVE TypeOK'
  BY <1>2 DEF Reject, TypeOK, scheduler, ClientRecords
<1>3. ASSUME NEW c \in Clients, Enqueue(c) PROVE TypeOK'
  <2>1. clients[c].request \in RequestRecords
    BY <1>3 DEF Enqueue, TypeOK, ClientRecords
  <2>2. NewJob(clients[c].request) \in JobRecords
    BY <2>1 DEF NewJob, JobRecords
  <2>3. clients' \in [Clients -> ClientRecords]
    BY <1>3 DEF Enqueue, TypeOK, ClientRecords, NewNumber
  <2>4. /\ DOMAIN jobs' \subseteq 1..sequence'
        /\ jobs' \in [DOMAIN jobs' -> JobRecords]
    BY <1>3, <2>2 DEF Enqueue, TypeOK, NewNumber
  <2> QED
    BY <1>3, <2>3, <2>4 DEF Enqueue, TypeOK, NewNumber
<1>4. ASSUME NEW c \in Clients, LaunchRunner(c) PROVE TypeOK'
  BY <1>4 DEF LaunchRunner, TypeOK, scheduler, ClientRecords, RunnerRecords
<1>5. ASSUME NEW c \in Clients, LaunchRefused(c) PROVE TypeOK'
  BY <1>5 DEF LaunchRefused, TypeOK, scheduler, ClientRecords
<1>6. ASSUME NEW c \in Clients, CancelRefused(c) PROVE TypeOK'
  <2>1. jobs' \in [DOMAIN jobs' -> JobRecords] /\ DOMAIN jobs' = DOMAIN jobs
    BY <1>6, CancelFacts DEF CancelRefused, TypeOK
  <2> QED
    BY <1>6, <2>1 DEF CancelRefused, TypeOK, ClientRecords
<1>7. ASSUME NEW w \in DOMAIN runners, NEW j \in queue, RunnerTakes(w, j)
      PROVE  TypeOK'
  <2> DEFINE passed == {k \in queue : k < j}
             taken == [jobs[j] EXCEPT !.state = "running", !.running = TRUE]
  <2>1. j \in DOMAIN jobs /\ j \in Nat
    BY <1>7 DEF RunnerTakes, Runnable, TypeOK
  <2>2. taken \in JobRecords
    <3>1. jobs[j] \in JobRecords
      BY <2>1 DEF TypeOK
    <3> QED
      BY <3>1 DEF JobRecords
  <2>3. Drained(jobs, passed) \in [DOMAIN jobs -> JobRecords]
    BY CancelFacts DEF Drained, TypeOK
  <2>4. Drained(jobs, passed)[j] = jobs[j]
    BY <2>1 DEF Drained
  <2>5. jobs' = [Drained(jobs, passed) EXCEPT ![j] = taken]
    BY <1>7, <2>4 DEF RunnerTakes
  <2>6. jobs' \in [DOMAIN jobs' -> JobRecords] /\ DOMAIN jobs' = DOMAIN jobs
    BY <2>2, <2>3, <2>5
  <2>7. runners' \in [DOMAIN runners' -> RunnerRecords] /\ DOMAIN runners' = DOMAIN runners
    BY <1>7, <2>1 DEF RunnerTakes, TypeOK, RunnerRecords
  <2> QED
    BY <1>7, <2>6, <2>7 DEF RunnerTakes, TypeOK
<1>8. ASSUME NEW w \in DOMAIN runners, RunnerEnds(w) PROVE TypeOK'
  <2>1. jobs' \in [DOMAIN jobs' -> JobRecords] /\ DOMAIN jobs' = DOMAIN jobs
    BY <1>8, CancelFacts DEF RunnerEnds, Drained, TypeOK
  <2> QED
    BY <1>8, <2>1 DEF RunnerEnds, TypeOK
<1>9. ASSUME NEW w \in DOMAIN runners, RunnerFinishes(w) PROVE TypeOK'
  <2>1. PICK s \in FinalStates(BodyJob(w)) :
           PublishAndPrune([jobs EXCEPT ![runners[w].job] =
              [@ EXCEPT !.state = s, !.running = FALSE]])
    BY <1>9 DEF RunnerFinishes, BodyJob
  <2>2. BodyJob(w) \in JobRecords
    BY <1>9, RunnerJob DEF RunnerFinishes
  <2>3. s \in JobStates
    BY <2>1, <2>2 DEF FinalStates, JobRecords
  <2> DEFINE done == [BodyJob(w) EXCEPT !.state = s, !.running = FALSE]
             js == [jobs EXCEPT ![runners[w].job] = done]
  <2>4. done \in JobRecords
    BY <2>2, <2>3, StatusType
  <2>5. PublishAndPrune(js)
    BY <1>9, <2>1, RunnerJob DEF RunnerFinishes, BodyJob
  <2>6. js \in [DOMAIN js -> JobRecords] /\ DOMAIN js \subseteq 1..sequence
    BY <2>4 DEF TypeOK
  <2>7. /\ DOMAIN jobs' \subseteq 1..sequence'
        /\ jobs' \in [DOMAIN jobs' -> JobRecords]
        /\ queue' \subseteq 1..sequence'
    <3> HIDE DEF js
    <3> QED
      BY <1>9, <2>5, <2>6, PublishType DEF RunnerFinishes, TypeOK
  <2> QED
    BY <1>9, <2>7 DEF RunnerFinishes, TypeOK, RunnerRecords
<1>10. ASSUME NEW w \in DOMAIN runners, UpdateProgress(w) PROVE TypeOK'
  <2>1. runners[w].at = "act" /\ BodyJob(w) \in JobRecords
    BY <1>10, RunnerJob DEF UpdateProgress, InBody
  <2>2. NextProgress(BodyJob(w).state) \in JobStates
    BY DEF NextProgress
  <2> QED
    BY <1>10, <2>1, <2>2, BodyType, StatusType DEF UpdateProgress
<1>11. ASSUME NEW w \in DOMAIN runners, ActCancelled(w) PROVE TypeOK'
  <2>1. runners[w].at = "act" /\ BodyJob(w) \in JobRecords
    BY <1>11, RunnerJob DEF ActCancelled, InBody
  <2> DEFINE b == BodyJob(w).cancelRequested \/ BodyJob(w).request.type # "app-self-update"
             new == [BodyJob(w) EXCEPT !.state = "cancelled", !.cancelRequested = b]
  <2>2. new \in JobRecords
    BY <2>1, StatusType DEF JobRecords
  <2>3. BodyPublishes(w, new, "end")
    BY <1>11, <2>1 DEF ActCancelled, JobRecords
  <2> QED
    BY <2>1, <2>2, <2>3, BodyType
<1>a. ASSUME NEW w \in DOMAIN runners, ActAborted(w) PROVE TypeOK'
  <2>1. runners[w].at = "act" /\ BodyJob(w) \in JobRecords
    BY <1>a, RunnerJob DEF ActAborted, InBody
  <2>2. CancelledInBody(BodyJob(w)) \in JobRecords
    BY <2>1, StatusType DEF CancelledInBody
  <2> QED
    BY <1>a, <2>1, <2>2, BodyType DEF ActAborted
<1>12. ASSUME NEW w \in DOMAIN runners, ActDone(w) PROVE TypeOK'
  <2>1. runners[w].at = "act" /\ BodyJob(w) \in JobRecords
    BY <1>12, RunnerJob DEF ActDone, InBody
  <2> QED
    BY <1>12, <2>1, BodyType, StatusType DEF ActDone
<1>13. ASSUME NEW w \in DOMAIN runners, ActEnds(w) PROVE TypeOK'
  <2>1. runners[w].at = "act" /\ BodyJob(w) \in JobRecords
    BY <1>13, RunnerJob DEF ActEnds, InBody
  <2>2. PICK s \in {"failed", "succeeded"} :
           BodyPublishes(w, [BodyJob(w) EXCEPT !.state = s], "end")
    BY <1>13 DEF ActEnds
  <2> QED
    BY <2>1, <2>2, BodyType, StatusType
<1>14. ASSUME NEW w \in DOMAIN runners, RefreshDone(w) PROVE TypeOK'
  <2>1. runners[w].at = "refresh" /\ BodyJob(w) \in JobRecords
    BY <1>14, RunnerJob DEF RefreshDone, InBody
  <2>2. PICK job \in Outcomes(BodyJob(w)) : BodyPublishes(w, job, "end")
    BY <1>14 DEF RefreshDone
  <2>3. \A s \in RefreshStates(BodyJob(w)) : [BodyJob(w) EXCEPT !.state = s] \in JobRecords
    BY <2>1, StatusType DEF RefreshStates
  <2>4. CancelledInBody(BodyJob(w)) \in JobRecords
    BY <2>1, StatusType DEF CancelledInBody
  <2>5. job \in JobRecords
    BY <2>1, <2>3, <2>4 DEF Outcomes
  <2> QED
    BY <2>1, <2>2, <2>5, BodyType
<1>15. ASSUME NEW w \in DOMAIN runners, BodyPanics(w) PROVE TypeOK'
  <2>1. runners[w] \in [at : {"act", "refresh", "panic", "end"}, job : Nat]
    BY <1>15, RunnerJob DEF BodyPanics, InBody
  <2>2. [runners[w] EXCEPT !.at = "panic"] \in RunnerRecords
    BY <2>1 DEF RunnerRecords
  <2> QED
    BY <1>15, <2>2 DEF BodyPanics, TypeOK, scheduler
<1>16. ASSUME NEW w \in DOMAIN runners, RecordPanic(w) PROVE TypeOK'
  <2>1. runners[w].at = "panic" /\ BodyJob(w) \in JobRecords
    BY <1>16, RunnerJob DEF RecordPanic, InBody
  <2> QED
    BY <1>16, <2>1, BodyType, StatusType DEF RecordPanic
<1>17. ASSUME NEW j \in DOMAIN jobs, CancelOperationJob(j) PROVE TypeOK'
  <2> DEFINE js == [jobs EXCEPT ![j] = WithCancel(jobs[j])]
  <2>1. js \in [DOMAIN js -> JobRecords] /\ DOMAIN js \subseteq 1..sequence
    BY CancelFacts DEF TypeOK
  <2>2. PublishAndPrune(js) \/ PublishAndPrune(jobs)
    BY <1>17 DEF CancelOperationJob
  <2>3. /\ DOMAIN jobs' \subseteq 1..sequence'
        /\ jobs' \in [DOMAIN jobs' -> JobRecords]
        /\ queue' \subseteq 1..sequence'
    <3> HIDE DEF js
    <3> QED
      BY <1>17, <2>1, <2>2, PublishType DEF CancelOperationJob, TypeOK
  <2>4. unsent' \in BOOLEAN
    BY <1>17 DEF CancelOperationJob, TypeOK, PruneBumps
  <2> QED
    BY <1>17, <2>3, <2>4 DEF CancelOperationJob, TypeOK
<1>18. ASSUME EventStreamPoll PROVE TypeOK'
  <2>1. /\ DOMAIN jobs' \subseteq 1..sequence'
        /\ jobs' \in [DOMAIN jobs' -> JobRecords]
        /\ queue' \subseteq 1..sequence'
    BY <1>18, PublishType DEF EventStreamPoll, TypeOK
  <2> QED
    BY <1>18, <2>1 DEF EventStreamPoll, TypeOK
<1>b. ASSUME ReadJobs PROVE TypeOK'
  <2>1. /\ DOMAIN jobs' \subseteq 1..sequence'
        /\ jobs' \in [DOMAIN jobs' -> JobRecords]
        /\ queue' \subseteq 1..sequence'
    BY <1>b, PublishType DEF ReadJobs, TypeOK
  <2>2. unsent' \in BOOLEAN
    BY <1>b DEF ReadJobs, TypeOK, PruneBumps
  <2> QED
    BY <1>b, <2>1, <2>2 DEF ReadJobs, TypeOK
<1>19. ASSUME BeginShutdown PROVE TypeOK'
  BY <1>19 DEF BeginShutdown, TypeOK, scheduler
<1>20. ASSUME CancelJobsForShutdown PROVE TypeOK'
  <2> DEFINE js == [j \in DOMAIN jobs |->
                       IF j \in Incomplete THEN WithCancel(jobs[j]) ELSE jobs[j]]
  <2>1. js \in [DOMAIN js -> JobRecords] /\ DOMAIN js \subseteq 1..sequence
    BY CancelFacts DEF TypeOK
  <2>2. PublishAndPrune(js) /\ unsent' = (unsent \/ Incomplete # {} \/ PruneBumps(js))
    BY <1>20 DEF CancelJobsForShutdown, CancelAll
  <2> HIDE DEF js
  <2>3. /\ DOMAIN jobs' \subseteq 1..sequence'
        /\ jobs' \in [DOMAIN jobs' -> JobRecords]
        /\ queue' \subseteq 1..sequence'
    BY <1>20, <2>1, <2>2, PublishType DEF CancelJobsForShutdown, TypeOK
  <2>4. unsent' \in BOOLEAN
    BY <2>2 DEF TypeOK, PruneBumps
  <2> QED
    BY <1>20, <2>3, <2>4 DEF CancelJobsForShutdown, TypeOK
<1>21. ASSUME StopWaiting PROVE TypeOK'
  BY <1>21 DEF StopWaiting, TypeOK, scheduler
<1>22. CASE UNCHANGED vars
  BY <1>22 DEF vars, TypeOK
<1> QED
  BY <1>1, <1>2, <1>3, <1>4, <1>5, <1>6, <1>7, <1>8, <1>9, <1>10, <1>11, <1>12,
     <1>13, <1>14, <1>15, <1>16, <1>17, <1>18, <1>19, <1>20, <1>21, <1>22,
     <1>a, <1>b DEF Next, Step, ClientStep, RunnerStep, BodyStep, ShutdownStep

-----------------------------------------------------------------------------
(* The inductive invariant, one kind of step after the other.              *)

LEMMA IInvInit == Init => IInv
<1> SUFFICES ASSUME Init PROVE IInv
  OBVIOUS
<1>1. TypeOK
  BY TypeInit
<1>2. DOMAIN jobs = {} /\ DOMAIN runners = {} /\ Launching = {}
  BY DEF Init, Launching
<1>3. Token /\ Working /\ Waiting
  BY <1>2 DEF Init, Token, Working, Waiting
<1>4. RunningHasRunner
  BY <1>2 DEF RunningHasRunner
<1>5. QueueIsSound /\ NoConflictingJobs /\ NoWorkAfterWait
  BY <1>2 DEF Init, QueueIsSound, NoConflictingJobs, Incomplete, NoWorkAfterWait
<1> QED
  BY <1>1, <1>3, <1>4, <1>5 DEF IInv

(* A body publishes a status of its job: the job it works on is running,   *)
(* and so neither queued nor somebody else's.                              *)
LEMMA BodyKeepsIInv ==
    ASSUME IInv, NEW w \in DOMAIN runners, runners[w].at # "pop",
           NEW job \in JobRecords, job.request = BodyJob(w).request, job.running,
           NEW next \in {"act", "refresh", "end"},
           next = "end" => job.state \in OutcomeStates,
           next = "act" => job.state \in ProgressStates,
           next = "refresh" => job.state \in {"refreshing", "cancelled"},
           BodyPublishes(w, job, next)
    PROVE  IInv'
<1> DEFINE i == runners[w].job
<1>1. /\ i \in DOMAIN jobs
      /\ jobs[i].running
      /\ runners[w] \in [at : {"act", "refresh", "panic", "end"}, job : Nat]
  BY RunnerJob DEF IInv, BodyJob
<1>2. /\ jobs' = [jobs EXCEPT ![i] = job]
      /\ DOMAIN jobs' = DOMAIN jobs
      /\ jobs'[i] = job
      /\ \A j \in DOMAIN jobs : j # i => jobs'[j] = jobs[j]
  BY <1>1 DEF BodyPublishes, Mutate, IInv, TypeOK
<1>3. /\ DOMAIN runners' = DOMAIN runners
      /\ runners'[w].at = next /\ runners'[w].job = i
      /\ \A v \in DOMAIN runners : v = w
  BY <1>1 DEF BodyPublishes, IInv, Token, TypeOK
<1>4. UNCHANGED <<queue, sequence, active, clients, shutdown, timedOut>>
  BY DEF BodyPublishes
<1>5. i \notin queue /\ job.state # "queued"
  BY <1>1 DEF IInv, QueueIsSound, OutcomeStates, ProgressStates
<1>6. TypeOK'
  BY BodyType DEF IInv
<1>7. Token'
  BY <1>3, <1>4 DEF IInv, Token, Launching
<1>8. RunningHasRunner'
  BY <1>1, <1>2, <1>3 DEF IInv, RunningHasRunner
<1>9. Working'
  BY <1>2, <1>3 DEF Working
<1>10. Waiting'
  BY <1>2, <1>4, <1>5 DEF IInv, Waiting, ShuttingDown
<1>11. QueueIsSound'
  BY <1>2, <1>4, <1>5 DEF IInv, QueueIsSound
<1>12. NoConflictingJobs'
  <2>1. Incomplete' \subseteq Incomplete
    BY <1>1, <1>2 DEF Incomplete, Complete
  <2>2. \A j \in DOMAIN jobs : jobs'[j].request = jobs[j].request
    BY <1>1, <1>2 DEF BodyJob
  <2> QED
    BY <1>2, <2>1, <2>2, FewerConflicts DEF IInv, Incomplete
<1>13. NoWorkAfterWait'
  BY <1>3, <1>4 DEF IInv, NoWorkAfterWait
<1> QED
  BY <1>6, <1>7, <1>8, <1>9, <1>10, <1>11, <1>12, <1>13 DEF IInv

(* Some incomplete jobs are cancelled, and the result is published.        *)
LEMMA CancelKeepsIInv ==
    ASSUME IInv, TypeOK', NEW js, DOMAIN js = DOMAIN jobs,
           js = [j \in DOMAIN js |-> js[j]],
           \A j \in DOMAIN jobs : \/ js[j] = jobs[j]
                                  \/ j \in Incomplete /\ js[j] = WithCancel(jobs[j]),
           PublishAndPrune(js),
           UNCHANGED <<sequence, active, clients, runners>>,
           ShuttingDown => ShuttingDown',
           NoWorkAfterWait'
    PROVE  IInv'
<1>1. \A j \in DOMAIN jobs :
         /\ js[j].request = jobs[j].request
         /\ js[j].state = jobs[j].state
               \/ /\ jobs[j].state = "queued"
                  /\ js[j].state = "cancelled"
                  /\ js[j].cancelRequested
         /\ js[j].running => jobs[j].running
         /\ jobs[j].running => js[j].running
  <2> SUFFICES ASSUME NEW j \in DOMAIN jobs
               PROVE  /\ js[j].request = jobs[j].request
                      /\ js[j].state = jobs[j].state
                            \/ /\ jobs[j].state = "queued"
                               /\ js[j].state = "cancelled"
                               /\ js[j].cancelRequested
                      /\ js[j].running => jobs[j].running
                      /\ jobs[j].running => js[j].running
    OBVIOUS
  <2>1. jobs[j] \in JobRecords
    BY DEF IInv, TypeOK
  <2>2. jobs[j].state = "queued" => ~jobs[j].running
    BY DEF IInv, Waiting, QueueIsSound
  <2>3. CASE js[j] = jobs[j]
    BY <2>3
  <2>4. CASE js[j] = WithCancel(jobs[j])
    BY <2>1, <2>2, <2>4, CancelFacts
  <2> QED
    BY <2>3, <2>4
<1>2. queue \subseteq DOMAIN js
  BY DEF IInv, QueueIsSound
<1>3. /\ DOMAIN jobs' \subseteq DOMAIN jobs
      /\ jobs' = [j \in DOMAIN jobs' |-> js[j]]
      /\ \A j \in DOMAIN jobs : ~Complete(js[j]) => j \in DOMAIN jobs'
      /\ queue' = queue \cap DOMAIN jobs'
  BY <1>2, PublishFacts
<1>4. \A j \in DOMAIN jobs' : jobs'[j] = js[j]
  BY <1>3
<1>5. Token'
  BY DEF IInv, Token, Launching
<1>6. \A j : j \in DOMAIN jobs /\ jobs[j].running <=> j \in DOMAIN jobs' /\ jobs'[j].running
  BY <1>1, <1>3, <1>4 DEF Complete
<1>7. RunningHasRunner'
  BY <1>6 DEF IInv, RunningHasRunner
<1>8. Working'
  <2>1. \A v \in DOMAIN runners : runners[v].at # "pop" =>
           /\ runners[v].job \in DOMAIN jobs'
           /\ jobs'[runners[v].job].state = jobs[runners[v].job].state
    <3> SUFFICES ASSUME NEW v \in DOMAIN runners, runners[v].at # "pop"
                 PROVE  /\ runners[v].job \in DOMAIN jobs'
                        /\ jobs'[runners[v].job].state = jobs[runners[v].job].state
      OBVIOUS
    <3>1. runners[v].job \in DOMAIN jobs /\ jobs[runners[v].job].running
      BY RunnerJob DEF IInv, BodyJob
    <3>2. jobs[runners[v].job].state # "queued"
      BY <3>1 DEF IInv, Waiting, QueueIsSound
    <3> QED
      BY <1>1, <1>4, <1>6, <3>1, <3>2
  <2> QED
    BY <2>1 DEF IInv, Working
<1>9. Waiting'
  BY <1>1, <1>3, <1>4 DEF IInv, Waiting, ShuttingDown
<1>10. QueueIsSound'
  <2> SUFFICES ASSUME NEW j \in queue'
               PROVE  /\ j \in DOMAIN jobs'
                      /\ ~jobs'[j].running
                      /\ jobs'[j].state \in {"queued", "cancelled"}
                      /\ jobs'[j].state = "cancelled" <=> jobs'[j].cancelRequested
    BY DEF QueueIsSound
  <2>1. j \in queue /\ j \in DOMAIN jobs /\ j \in DOMAIN jobs' /\ jobs'[j] = js[j]
    BY <1>3, <1>4
  <2>2. /\ ~jobs[j].running
        /\ jobs[j].state \in {"queued", "cancelled"}
        /\ jobs[j].state = "cancelled" <=> jobs[j].cancelRequested
    BY <2>1 DEF IInv, QueueIsSound
  <2>3. CASE js[j] = jobs[j]
    BY <2>1, <2>2, <2>3
  <2>4. CASE j \in Incomplete /\ js[j] = WithCancel(jobs[j])
    <3>1. jobs[j].state = "queued"
      BY <2>2, <2>4 DEF Incomplete, Complete
    <3>2. jobs[j] \in JobRecords
      BY <2>1 DEF IInv, TypeOK
    <3> QED
      BY <2>1, <2>4, <3>1, <3>2, CancelFacts
  <2> QED
    BY <2>1, <2>3, <2>4
<1>11. NoConflictingJobs'
  <2>1. \A j \in Incomplete' : j \in Incomplete /\ jobs'[j].request = jobs[j].request
    BY <1>1, <1>3, <1>4 DEF Incomplete, Complete
  <2> QED
    BY <2>1, FewerConflicts DEF IInv
<1> QED
  BY <1>5, <1>7, <1>8, <1>9, <1>10, <1>11 DEF IInv

(* What a step leaves alone when it changes neither the job list, the      *)
(* queue nor a runner.                                                     *)
LEMMA ClientKeepsIInv ==
    ASSUME IInv, TypeOK', Token',
           UNCHANGED <<jobs, queue, runners, shutdown, timedOut>>,
           active' = active,
           \A c \in Clients : clients'[c].at = "refused" => ShuttingDown
    PROVE  IInv'
<1>1. Incomplete' = Incomplete /\ ShuttingDown' = ShuttingDown
  BY DEF Incomplete, ShuttingDown
<1>2. RunningHasRunner' /\ QueueIsSound' /\ NoWorkAfterWait'
  BY DEF IInv, RunningHasRunner, QueueIsSound, NoWorkAfterWait
<1>3. Working' /\ Waiting'
  BY <1>1 DEF IInv, Working, Waiting
<1>4. NoConflictingJobs'
  BY <1>1 DEF IInv, NoConflictingJobs
<1> QED
  BY <1>2, <1>3, <1>4 DEF IInv

(* Steps of the submitting clients.                                        *)
LEMMA ClientStepKeepsIInv ==
    ASSUME IInv, TypeOK', NEW c \in Clients,
           (\E r \in Requests : CheckShutdown(c, r)) \/ ClientStep(c)
    PROVE  IInv'
<1> USE DEF ClientStep
<1>1. ASSUME NEW r \in Requests, CheckShutdown(c, r) PROVE IInv'
  <2>1. \A d \in Clients : d # c => clients'[d] = clients[d]
    BY <1>1 DEF CheckShutdown, IInv, TypeOK
  <2>2. clients'[c].at = "admitted" /\ clients[c].at = "idle"
    BY <1>1 DEF CheckShutdown, IInv, TypeOK
  <2>3. Launching' = Launching
    BY <2>1, <2>2 DEF Launching
  <2>4. Token'
    BY <1>1, <2>3 DEF CheckShutdown, scheduler, IInv, Token
  <2> QED
    BY <1>1, <2>1, <2>2, <2>4, ClientKeepsIInv DEF CheckShutdown, scheduler, IInv, Waiting
<1>2. CASE Reject(c)
  <2>1. \A d \in Clients : d # c => clients'[d] = clients[d]
    BY <1>2 DEF Reject, IInv, TypeOK
  <2>2. clients'[c].at = "idle" /\ clients[c].at = "admitted"
    BY <1>2 DEF Reject, IInv, TypeOK
  <2>3. Launching' = Launching
    BY <2>1, <2>2 DEF Launching
  <2>4. Token'
    BY <1>2, <2>3 DEF Reject, scheduler, IInv, Token
  <2> QED
    BY <1>2, <2>1, <2>2, <2>4, ClientKeepsIInv DEF Reject, scheduler, IInv, Waiting
<1>3. CASE Enqueue(c)
  <2> DEFINE n == sequence + 1
             r == clients[c].request
  <2>1. n \notin DOMAIN jobs /\ n \notin queue /\ n \notin 1..sequence
    BY DEF IInv, TypeOK
  <2>2. /\ DOMAIN jobs' = DOMAIN jobs \cup {n}
        /\ jobs'[n] = NewJob(r)
        /\ \A k \in DOMAIN jobs : jobs'[k] = jobs[k]
    BY <1>3, <2>1 DEF Enqueue, NewNumber
  <2>3. \A d \in Clients : d # c => clients'[d] = clients[d]
    BY <1>3 DEF Enqueue, IInv, TypeOK
  <2>4. clients'[c].at = (IF active THEN "idle" ELSE "launch") /\ clients[c].at = "admitted"
    BY <1>3 DEF Enqueue, IInv, TypeOK, MustLaunch
  <2>5. Launching' = IF active THEN Launching ELSE Launching \cup {c}
    BY <2>3, <2>4 DEF Launching
  <2>6. queue' = queue \cup {n} /\ active' /\ UNCHANGED <<runners, shutdown, timedOut>>
    BY <1>3 DEF Enqueue, NewNumber
  <2>7. Token'
    BY <2>5, <2>6 DEF IInv, Token
  <2>8. RunningHasRunner'
    <3>1. {j \in DOMAIN jobs' : jobs'[j].running} = {j \in DOMAIN jobs : jobs[j].running}
      BY <2>1, <2>2 DEF NewJob
    <3> QED
      BY <2>6, <3>1 DEF IInv, RunningHasRunner
  <2>9. Working'
    <3>1. \A v \in DOMAIN runners : runners[v].at # "pop" =>
             jobs'[runners[v].job] = jobs[runners[v].job]
      BY <2>2, RunnerJob DEF IInv
    <3> QED
      BY <2>6, <3>1 DEF IInv, Working
  <2>10. Waiting'
    BY <2>2, <2>3, <2>4, <2>6 DEF IInv, Waiting, NewJob, ShuttingDown
  <2>11. QueueIsSound'
    BY <2>1, <2>2, <2>6 DEF IInv, QueueIsSound, NewJob
  <2>12. NoConflictingJobs'
    <3>1. Incomplete' \subseteq Incomplete \cup {n}
      BY <2>2 DEF Incomplete, Complete
    <3>2. \A j \in Incomplete : j \in DOMAIN jobs /\ jobs'[j] = jobs[j]
      BY <2>2 DEF Incomplete
    <3>3. \A j \in Incomplete : ~Conflict(r, jobs[j].request)
      BY <1>3 DEF Enqueue, Duplicate
    <3>4. \A j \in Incomplete : ~Conflict(jobs[j].request, r)
      BY <3>3, ConflictIsMutual
    <3>5. jobs'[n].request = r
      BY <2>2 DEF NewJob
    <3> HIDE DEF n, r
    <3> QED
      BY <3>1, <3>2, <3>3, <3>4, <3>5 DEF IInv, NoConflictingJobs
  <2>13. NoWorkAfterWait'
    BY <2>6 DEF IInv, NoWorkAfterWait
  <2> QED
    BY <2>7, <2>8, <2>9, <2>10, <2>11, <2>12, <2>13 DEF IInv
<1>4. CASE LaunchRunner(c)
  <2> DEFINE n == clients[c].job
  <2>1. /\ \A d \in Clients : d # c => clients'[d] = clients[d]
        /\ clients'[c].at = "idle"
    BY <1>4 DEF LaunchRunner, IInv, TypeOK
  <2>2. c \in Launching
    BY <1>4 DEF LaunchRunner, Launching
  <2>3. DOMAIN runners = {} /\ Launching = {c} /\ active
    BY <2>2 DEF IInv, Token
  <2>4. Launching' = {}
    BY <2>1, <2>3 DEF Launching
  <2>5. DOMAIN runners' = {n} /\ runners'[n].at = "pop"
    BY <1>4, <2>3 DEF LaunchRunner
  <2>6. UNCHANGED <<jobs, queue, sequence, active, shutdown, timedOut>> /\ ~ShuttingDown
    BY <1>4 DEF LaunchRunner, scheduler, MayStartWork
  <2>7. Token'
    BY <2>3, <2>4, <2>5, <2>6 DEF Token
  <2>8. RunningHasRunner' /\ Working'
    BY <2>3, <2>5, <2>6 DEF IInv, RunningHasRunner, Working
  <2>9. Waiting'
    BY <2>1, <2>3, <2>6 DEF IInv, Waiting, ShuttingDown
  <2>10. QueueIsSound' /\ NoWorkAfterWait'
    BY <2>6 DEF IInv, QueueIsSound, NoWorkAfterWait, ShuttingDown
  <2>11. NoConflictingJobs'
    BY <2>6, FewerConflicts DEF IInv, Incomplete
  <2> QED
    BY <2>7, <2>8, <2>9, <2>10, <2>11 DEF IInv
<1>5. CASE LaunchRefused(c)
  <2>1. /\ \A d \in Clients : d # c => clients'[d] = clients[d]
        /\ clients'[c].at = "refused"
        /\ clients[c].at = "launch"
    BY <1>5 DEF LaunchRefused, IInv, TypeOK, ClientRecords
  <2>2. Launching' = Launching
    BY <2>1 DEF Launching
  <2>3. Token'
    BY <1>5, <2>2 DEF LaunchRefused, scheduler, IInv, Token
  <2> QED
    BY <1>5, <2>1, <2>3, ClientKeepsIInv
       DEF LaunchRefused, scheduler, IInv, Waiting, MayStartWork
<1>6. CASE CancelRefused(c)
  <2> DEFINE n == clients[c].job
  <2>1. /\ \A d \in Clients : d # c => clients'[d] = clients[d]
        /\ clients'[c].at = "idle"
    BY <1>6 DEF CancelRefused, IInv, TypeOK
  <2>2. c \in Launching /\ ShuttingDown
    BY <1>6 DEF CancelRefused, Launching, IInv, Waiting
  <2>3. DOMAIN runners = {} /\ Launching = {c} /\ active
    BY <2>2 DEF IInv, Token
  <2>4. Launching' = {}
    BY <2>1, <2>3 DEF Launching
  <2>5. /\ DOMAIN jobs' = DOMAIN jobs
        /\ \A k \in DOMAIN jobs :
              jobs'[k] = IF k = n THEN CancelledInQueue(jobs[k]) ELSE jobs[k]
        /\ \A k \in DOMAIN jobs : jobs[k] \in JobRecords
    BY <1>6 DEF CancelRefused, IInv, TypeOK
  <2>6. UNCHANGED <<queue, sequence, runners, shutdown, timedOut>> /\ ~active'
    BY <1>6 DEF CancelRefused
  <2>7. \A k \in DOMAIN jobs : ~jobs[k].running
    BY <2>3 DEF IInv, RunningHasRunner
  <2>8. \A k \in DOMAIN jobs : \/ jobs'[k] = jobs[k]
                               \/ /\ jobs'[k].state = "cancelled"
                                  /\ ~jobs'[k].running
                                  /\ jobs'[k].cancelRequested
                                  /\ jobs'[k].request = jobs[k].request
    BY <2>5, CancelFacts
  <2>9. Token'
    BY <2>3, <2>4, <2>6 DEF Token
  <2>10. RunningHasRunner' /\ Working'
    BY <2>3, <2>5, <2>6, <2>7, <2>8 DEF RunningHasRunner, Working
  <2>11. Waiting'
    BY <2>1, <2>2, <2>5, <2>6, <2>8 DEF IInv, Waiting, ShuttingDown
  <2>12. QueueIsSound' /\ NoWorkAfterWait'
    BY <2>5, <2>6, <2>8 DEF IInv, QueueIsSound, NoWorkAfterWait
  <2>13. NoConflictingJobs'
    <3>1. \A k \in Incomplete' : k \in Incomplete /\ jobs'[k].request = jobs[k].request
      BY <2>5, <2>8 DEF Incomplete, Complete
    <3> QED
      BY <3>1, FewerConflicts DEF IInv
  <2> QED
    BY <2>9, <2>10, <2>11, <2>12, <2>13 DEF IInv
<1> QED
  BY <1>1, <1>2, <1>3, <1>4, <1>5, <1>6

(* Steps of the queue runner.                                              *)
LEMMA RunnerStepKeepsIInv ==
    ASSUME IInv, TypeOK', NEW w \in DOMAIN runners, RunnerStep(w)
    PROVE  IInv'
<1>1. \A k \in DOMAIN jobs : jobs[k] \in JobRecords
  BY DEF IInv, TypeOK
<1>2. \A v \in DOMAIN runners : v = w
  BY DEF IInv, Token
<1>3. active /\ Launching = {}
  BY DEF IInv, Token
<1>4. ASSUME NEW j \in queue, RunnerTakes(w, j) PROVE IInv'
  <2> DEFINE passed == {k \in queue : k < j}
  <2>1. /\ j \in DOMAIN jobs
        /\ jobs[j].state = "queued"
        /\ ~ShuttingDown
    BY <1>4 DEF RunnerTakes, Runnable, IInv, QueueIsSound
  <2>2. j \notin passed
    BY DEF IInv, TypeOK
  <2>3. \A k \in passed : k \in DOMAIN jobs /\ jobs[k].state = "cancelled"
    BY <1>4, <2>1 DEF RunnerTakes, Runnable, IInv, QueueIsSound
  <2>4. /\ DOMAIN jobs' = DOMAIN jobs
        /\ jobs'[j] = [jobs[j] EXCEPT !.state = "running", !.running = TRUE]
        /\ \A k \in DOMAIN jobs : k # j =>
              jobs'[k] = IF k \in passed THEN CancelledInQueue(jobs[k]) ELSE jobs[k]
    BY <1>4, <2>1, <2>2 DEF RunnerTakes, Drained
  <2>5. /\ jobs'[j].state = "running" /\ jobs'[j].running
        /\ jobs'[j].request = jobs[j].request
    BY <1>1, <2>1, <2>4 DEF JobRecords
  <2>6. \A k \in DOMAIN jobs : k # j =>
           \/ jobs'[k] = jobs[k]
           \/ /\ jobs[k].state = "cancelled"
              /\ jobs'[k].state = "cancelled"
              /\ jobs'[k].cancelRequested
              /\ ~jobs'[k].running
              /\ jobs'[k].request = jobs[k].request
    BY <1>1, <2>3, <2>4, CancelFacts
  <2>7. \A k \in DOMAIN jobs : ~jobs[k].running
    BY <1>2, <1>4 DEF RunnerTakes, IInv, RunningHasRunner
  <2>8. /\ DOMAIN runners' = DOMAIN runners
        /\ runners'[w] = [at |-> "act", job |-> j]
        /\ queue' = queue \ (passed \cup {j})
        /\ UNCHANGED <<sequence, active, clients, shutdown, timedOut>>
    BY <1>4 DEF RunnerTakes
  <2>9. Token'
    BY <2>8 DEF IInv, Token, Launching
  <2>10. RunningHasRunner'
    <3>1. \A k \in DOMAIN jobs' : jobs'[k].running <=> k = j
      BY <2>4, <2>5, <2>6, <2>7
    <3>2. \A v \in DOMAIN runners' : runners'[v].at # "pop" /\ runners'[v].job = j
      BY <1>2, <2>8
    <3>3. w \in DOMAIN runners' /\ j \in DOMAIN jobs'
      BY <2>1, <2>4, <2>8
    <3> HIDE DEF passed
    <3> QED
      BY <3>1, <3>2, <3>3 DEF RunningHasRunner
  <2>11. Working'
    BY <1>2, <2>5, <2>8 DEF Working, ProgressStates
  <2>12. Waiting'
    BY <1>3, <2>1, <2>3, <2>4, <2>5, <2>6, <2>8 DEF IInv, Waiting, ShuttingDown
  <2>13. QueueIsSound'
    BY <2>4, <2>6, <2>8 DEF IInv, QueueIsSound
  <2>14. NoConflictingJobs'
    <3>1. \A k \in Incomplete' : k \in Incomplete /\ jobs'[k].request = jobs[k].request
      BY <2>1, <2>4, <2>5, <2>6 DEF Incomplete, Complete
    <3> QED
      BY <3>1, FewerConflicts DEF IInv
  <2>15. NoWorkAfterWait'
    BY <2>8 DEF IInv, NoWorkAfterWait
  <2> QED
    BY <2>9, <2>10, <2>11, <2>12, <2>13, <2>14, <2>15 DEF IInv
<1>5. CASE RunnerEnds(w)
  <2>1. /\ DOMAIN jobs' = DOMAIN jobs
        /\ \A k \in DOMAIN jobs :
              jobs'[k] = IF k \in queue THEN CancelledInQueue(jobs[k]) ELSE jobs[k]
    BY <1>5 DEF RunnerEnds, Drained
  <2>2. DOMAIN runners' = {} /\ queue' = {} /\ ~active'
        /\ UNCHANGED <<clients, shutdown, timedOut>>
    BY <1>2, <1>5 DEF RunnerEnds
  <2>3. \A k \in DOMAIN jobs : ~jobs[k].running
    BY <1>2, <1>5 DEF RunnerEnds, IInv, RunningHasRunner
  <2>4. \A k \in DOMAIN jobs :
           \/ jobs'[k] = jobs[k] /\ jobs[k].state # "queued"
           \/ /\ jobs'[k].state = "cancelled"
              /\ ~jobs'[k].running
              /\ jobs'[k].request = jobs[k].request
    BY <1>1, <2>1, CancelFacts DEF IInv, Waiting
  <2>5. Token'
    BY <1>3, <2>2 DEF Token, Launching
  <2>6. RunningHasRunner' /\ Working'
    BY <2>1, <2>2, <2>3, <2>4 DEF RunningHasRunner, Working
  <2>7. Waiting'
    BY <2>1, <2>2, <2>4 DEF IInv, Waiting, ShuttingDown
  <2>8. QueueIsSound' /\ NoWorkAfterWait'
    BY <2>2 DEF QueueIsSound, NoWorkAfterWait
  <2>9. NoConflictingJobs'
    <3>1. \A k \in Incomplete' : k \in Incomplete /\ jobs'[k].request = jobs[k].request
      BY <2>1, <2>4 DEF Incomplete, Complete
    <3> QED
      BY <3>1, FewerConflicts DEF IInv
  <2> QED
    BY <2>5, <2>6, <2>7, <2>8, <2>9 DEF IInv
<1>6. CASE RunnerFinishes(w)
  <2> DEFINE i == runners[w].job
  <2>1. runners[w].at = "end" /\ i \in DOMAIN jobs /\ jobs[i].running
    BY <1>6, RunnerJob DEF RunnerFinishes, IInv, BodyJob
  <2>2. PICK s \in FinalStates(jobs[i]) :
           PublishAndPrune([jobs EXCEPT ![i] =
              [jobs[i] EXCEPT !.state = s, !.running = FALSE]])
    BY <1>6, <2>1 DEF RunnerFinishes
  <2> DEFINE done == [jobs[i] EXCEPT !.state = s, !.running = FALSE]
             js == [jobs EXCEPT ![i] = done]
  <2>3. /\ DOMAIN js = DOMAIN jobs
        /\ js = [j \in DOMAIN js |-> js[j]]
        /\ \A j \in DOMAIN jobs : j # i => js[j] = jobs[j]
        /\ ~js[i].running
        /\ js[i].request = jobs[i].request
        /\ js[i].state = s
    BY <1>1, <2>1 DEF IInv, TypeOK, JobRecords
  <2>4. PublishAndPrune(js)
    BY <2>2
  <2> HIDE DEF js
  <2>5. queue \subseteq DOMAIN js
    BY <2>3 DEF IInv, QueueIsSound
  <2>6. /\ DOMAIN jobs' \subseteq DOMAIN jobs
        /\ \A j \in DOMAIN jobs' : jobs'[j] = js[j]
        /\ queue' = queue \cap DOMAIN jobs'
    BY <2>3, <2>4, <2>5, PublishFacts
  <2>7. \A j \in DOMAIN jobs : jobs[j].running <=> j = i
    BY <1>2, <2>1 DEF IInv, RunningHasRunner
  <2>8. DOMAIN runners' = DOMAIN runners /\ runners'[w].at = "pop"
        /\ UNCHANGED <<sequence, active, clients, shutdown, timedOut>>
    BY <1>6 DEF RunnerFinishes
  <2>9. i \notin queue
    BY <2>1 DEF IInv, QueueIsSound
  <2>10. Token'
    BY <2>8 DEF IInv, Token, Launching
  <2>11. RunningHasRunner' /\ Working'
    BY <1>2, <2>3, <2>6, <2>7, <2>8 DEF RunningHasRunner, Working
  <2>12. Waiting'
    <3>1. jobs[i].state \in OutcomeStates
      BY <2>1 DEF IInv, Working
    <3>2. s # "queued"
      BY <2>2, <3>1 DEF FinalStates, OutcomeStates
    <3>3. \A j \in DOMAIN jobs' : jobs'[j].state = "queued" => j \in queue'
      BY <2>3, <2>6, <3>2 DEF IInv, Waiting
    <3> QED
      BY <1>3, <2>8, <3>3 DEF IInv, Waiting, ShuttingDown
  <2>13. QueueIsSound'
    BY <2>3, <2>6, <2>9 DEF IInv, QueueIsSound
  <2>14. NoConflictingJobs'
    <3>1. \A k \in Incomplete' : k \in Incomplete /\ jobs'[k].request = jobs[k].request
      BY <2>1, <2>3, <2>6 DEF Incomplete, Complete
    <3> QED
      BY <3>1, FewerConflicts DEF IInv
  <2>15. NoWorkAfterWait'
    BY <2>8 DEF IInv, NoWorkAfterWait
  <2> QED
    BY <2>10, <2>11, <2>12, <2>13, <2>14, <2>15 DEF IInv
<1> QED
  BY <1>4, <1>5, <1>6 DEF RunnerStep

(* Steps of a job's body.                                                  *)
LEMMA BodyStepKeepsIInv ==
    ASSUME IInv, NEW w \in DOMAIN runners, BodyStep(w)
    PROVE  IInv'
<1> USE DEF InBody, JobStates, OutcomeStates, ProgressStates
<1> DEFINE job == BodyJob(w)
<1>1. runners[w].at # "pop" =>
         /\ job \in JobRecords
         /\ job.running
         /\ runners[w] \in [at : {"act", "refresh", "panic", "end"}, job : Nat]
  BY RunnerJob DEF IInv
<1>2. ASSUME runners[w].at # "pop", NEW s \in JobStates,
             NEW next \in {"act", "refresh", "end"},
             next = "end" => s \in OutcomeStates,
             next = "act" => s \in ProgressStates,
             next = "refresh" => s = "refreshing",
             BodyPublishes(w, [job EXCEPT !.state = s], next)
      PROVE  IInv'
  <2> DEFINE new == [job EXCEPT !.state = s]
  <2>1. /\ new \in JobRecords /\ new.request = job.request
        /\ new.state = s /\ new.running
    BY <1>1, <1>2 DEF JobRecords
  <2> HIDE DEF new
  <2>2. BodyPublishes(w, new, next)
    BY <1>2 DEF new
  <2> QED
    BY <1>2, <2>1, <2>2, BodyKeepsIInv
<1>3. ASSUME runners[w].at # "pop", NEW b \in BOOLEAN, NEW next \in {"refresh", "end"},
             BodyPublishes(w, [job EXCEPT !.state = "cancelled",
                                          !.cancelRequested = b], next)
      PROVE  IInv'
  <2> DEFINE new == [job EXCEPT !.state = "cancelled", !.cancelRequested = b]
  <2>1. /\ new \in JobRecords /\ new.request = job.request
        /\ new.state = "cancelled" /\ new.running
    BY <1>1, <1>3 DEF JobRecords
  <2> HIDE DEF new
  <2>2. BodyPublishes(w, new, next)
    BY <1>3 DEF new
  <2> QED
    BY <1>3, <2>1, <2>2, BodyKeepsIInv
<1>4. CASE UpdateProgress(w)
  <2>1. NextProgress(job.state) \in ProgressStates
    BY DEF NextProgress
  <2> QED
    BY <1>2, <1>4, <2>1 DEF UpdateProgress
<1>5. CASE ActCancelled(w)
  <2> DEFINE b == job.cancelRequested \/ job.request.type # "app-self-update"
  <2>1. b \in BOOLEAN
    BY <1>1, <1>5 DEF ActCancelled, JobRecords
  <2> QED
    BY <1>3, <1>5, <2>1 DEF ActCancelled
<1>6. CASE ActDone(w)
  BY <1>2, <1>6 DEF ActDone
<1>7. CASE ActEnds(w)
  BY <1>2, <1>7 DEF ActEnds
<1>a. CASE ActAborted(w)
  BY <1>3, <1>a DEF ActAborted, CancelledInBody
<1>8. CASE RefreshDone(w)
  <2>1. RefreshStates(job) \subseteq OutcomeStates
    BY DEF RefreshStates
  <2>2. PICK new \in Outcomes(job) : BodyPublishes(w, new, "end")
    BY <1>8 DEF RefreshDone
  <2>3. runners[w].at # "pop"
    BY <1>8 DEF RefreshDone
  <2>4. CASE job.state = "cancelled" /\ new = job
    BY <1>1, <2>2, <2>3, <2>4, BodyKeepsIInv
  <2>5. CASE new = CancelledInBody(job)
    BY <1>3, <2>2, <2>3, <2>5 DEF CancelledInBody
  <2>6. CASE \E s \in RefreshStates(job) : new = [job EXCEPT !.state = s]
    BY <1>2, <2>1, <2>2, <2>3, <2>6
  <2> QED
    BY <2>2, <2>4, <2>5, <2>6 DEF Outcomes
<1>9. CASE BodyPanics(w)
  <2>1. /\ DOMAIN runners' = DOMAIN runners
        /\ runners'[w].at = "panic" /\ runners'[w].job = runners[w].job
        /\ runners[w].at \in {"act", "refresh"}
        /\ runners'[w] \in RunnerRecords
    BY <1>1, <1>9 DEF BodyPanics, RunnerRecords
  <2>2. UNCHANGED <<jobs, queue, sequence, active, unsent, clients, shutdown, timedOut>>
    BY <1>9 DEF BodyPanics, scheduler
  <2>3. \A v \in DOMAIN runners : v = w
    BY DEF IInv, Token
  <2>4. TypeOK'
    BY <1>9, <2>1, <2>2, <2>3 DEF BodyPanics, IInv, TypeOK
  <2>5. Token'
    BY <2>1, <2>2 DEF IInv, Token, Launching
  <2>6. RunningHasRunner'
    BY <2>1, <2>2, <2>3 DEF IInv, RunningHasRunner
  <2>7. Working'
    BY <2>1, <2>2, <2>3 DEF IInv, Working
  <2>8. Waiting' /\ QueueIsSound'
    BY <2>2 DEF IInv, Waiting, QueueIsSound, ShuttingDown
  <2>9. NoConflictingJobs'
    BY <2>2, FewerConflicts DEF IInv, Incomplete
  <2>10. NoWorkAfterWait'
    BY <2>1, <2>2 DEF IInv, NoWorkAfterWait
  <2> QED
    BY <2>4, <2>5, <2>6, <2>7, <2>8, <2>9, <2>10 DEF IInv
<1>10. CASE RecordPanic(w)
  BY <1>2, <1>10 DEF RecordPanic
<1> QED
  BY <1>4, <1>5, <1>a, <1>6, <1>7, <1>8, <1>9, <1>10 DEF BodyStep

(* The inductive step.                                                     *)
LEMMA IInvStep == IInv /\ [Next]_vars => IInv'
<1> SUFFICES ASSUME IInv, [Next]_vars PROVE IInv'
  OBVIOUS
<1>1. TypeOK'
  BY TypeStep DEF IInv
<1>2. jobs = [j \in DOMAIN jobs |-> jobs[j]]
  BY DEF IInv, TypeOK
<1>3. ASSUME NEW c \in Clients,
             (\E r \in Requests : CheckShutdown(c, r)) \/ ClientStep(c)
      PROVE  IInv'
  BY <1>1, <1>3, ClientStepKeepsIInv
<1>4. ASSUME NEW w \in DOMAIN runners, RunnerStep(w) PROVE IInv'
  BY <1>1, <1>4, RunnerStepKeepsIInv
<1>5. ASSUME NEW w \in DOMAIN runners, BodyStep(w) PROVE IInv'
  BY <1>5, BodyStepKeepsIInv
<1>6. ASSUME NEW i \in DOMAIN jobs, CancelOperationJob(i) PROVE IInv'
  <2>1. NoWorkAfterWait' /\ (ShuttingDown => ShuttingDown')
    BY <1>6 DEF CancelOperationJob, IInv, NoWorkAfterWait, ShuttingDown
  <2>2. CASE jobs[i].state = "queued" \/ jobs[i].running
    <3> DEFINE js == [jobs EXCEPT ![i] = WithCancel(jobs[i])]
    <3>1. PublishAndPrune(js)
      BY <1>6, <2>2 DEF CancelOperationJob
    <3>2. i \in Incomplete
      BY <2>2 DEF Incomplete, Complete
    <3>3. /\ DOMAIN js = DOMAIN jobs
          /\ js = [j \in DOMAIN js |-> js[j]]
          /\ \A j \in DOMAIN jobs : \/ js[j] = jobs[j]
                                    \/ j \in Incomplete /\ js[j] = WithCancel(jobs[j])
      BY <1>2, <3>2
    <3> HIDE DEF js
    <3> QED
      BY <1>1, <1>6, <2>1, <3>1, <3>3, CancelKeepsIInv DEF CancelOperationJob
  <2>3. CASE ~(jobs[i].state = "queued" \/ jobs[i].running)
    BY <1>1, <1>2, <1>6, <2>1, <2>3, CancelKeepsIInv DEF CancelOperationJob
  <2> QED
    BY <2>2, <2>3
<1>7. CASE EventStreamPoll
  <2>1. NoWorkAfterWait' /\ (ShuttingDown => ShuttingDown')
    BY <1>7 DEF EventStreamPoll, IInv, NoWorkAfterWait, ShuttingDown
  <2> QED
    BY <1>1, <1>2, <1>7, <2>1, CancelKeepsIInv DEF EventStreamPoll
<1>a. CASE ReadJobs
  <2>1. NoWorkAfterWait' /\ (ShuttingDown => ShuttingDown')
    BY <1>a DEF ReadJobs, IInv, NoWorkAfterWait, ShuttingDown
  <2> QED
    BY <1>1, <1>2, <1>a, <2>1, CancelKeepsIInv DEF ReadJobs
<1>8. CASE BeginShutdown
  <2>1. UNCHANGED <<jobs, queue, sequence, active, unsent, clients, runners, timedOut>>
        /\ shutdown' = "begun"
    BY <1>8 DEF BeginShutdown, scheduler
  <2>2. Token' /\ RunningHasRunner' /\ Working' /\ QueueIsSound' /\ NoWorkAfterWait'
    BY <2>1 DEF IInv, Token, Launching, RunningHasRunner, Working, QueueIsSound,
                NoWorkAfterWait
  <2>3. Waiting'
    BY <2>1 DEF IInv, Waiting, ShuttingDown
  <2>4. NoConflictingJobs'
    BY <2>1, FewerConflicts DEF IInv, Incomplete
  <2> QED
    BY <1>1, <2>2, <2>3, <2>4 DEF IInv
<1>9. CASE CancelJobsForShutdown
  <2> DEFINE js == [j \in DOMAIN jobs |->
                       IF j \in Incomplete THEN WithCancel(jobs[j]) ELSE jobs[j]]
  <2>1. PublishAndPrune(js)
    BY <1>9 DEF CancelJobsForShutdown, CancelAll
  <2>2. NoWorkAfterWait' /\ ShuttingDown'
    BY <1>9 DEF CancelJobsForShutdown, NoWorkAfterWait, ShuttingDown
  <2>3. /\ DOMAIN js = DOMAIN jobs
        /\ js = [j \in DOMAIN js |-> js[j]]
        /\ \A j \in DOMAIN jobs : \/ js[j] = jobs[j]
                                  \/ j \in Incomplete /\ js[j] = WithCancel(jobs[j])
    OBVIOUS
  <2> HIDE DEF js
  <2> QED
    BY <1>1, <1>9, <2>1, <2>2, <2>3, CancelKeepsIInv DEF CancelJobsForShutdown
<1>10. CASE StopWaiting
  <2>1. UNCHANGED <<jobs, queue, sequence, active, unsent, clients, runners>>
        /\ ShuttingDown /\ ShuttingDown'
    BY <1>10 DEF StopWaiting, scheduler, ShuttingDown
  <2>2. Token' /\ RunningHasRunner' /\ Working' /\ QueueIsSound'
    BY <2>1 DEF IInv, Token, Launching, RunningHasRunner, Working, QueueIsSound
  <2>3. Waiting'
    BY <2>1 DEF IInv, Waiting
  <2>4. NoConflictingJobs'
    BY <2>1, FewerConflicts DEF IInv, Incomplete
  <2>5. NoWorkAfterWait'
    BY <1>10, <2>1 DEF StopWaiting, NoWorkAfterWait
  <2> QED
    BY <1>1, <2>2, <2>3, <2>4, <2>5 DEF IInv
<1>11. CASE UNCHANGED vars
  <2>1. Incomplete' = Incomplete /\ ShuttingDown' = ShuttingDown /\ Launching' = Launching
    BY <1>11 DEF vars, Incomplete, ShuttingDown, Launching
  <2> QED
    BY <1>1, <1>11, <2>1 DEF vars, IInv, Token, RunningHasRunner, Working, Waiting,
                             QueueIsSound, NoConflictingJobs, NoWorkAfterWait
<1> QED
  BY <1>3, <1>4, <1>5, <1>6, <1>7, <1>8, <1>9, <1>10, <1>11, <1>a
     DEF Next, Step, ShutdownStep

-----------------------------------------------------------------------------
(* The theorems.                                                           *)

(* Every state the scheduler, its clients, its runners and the shutdown    *)
(* reach satisfies the inductive invariant.                                *)
THEOREM InductiveInvariant == Safety => []IInv
  BY IInvInit, IInvStep, PTL DEF Safety

(* Type correctness: job numbers stay within the sequence, every status    *)
(* is one that operation_job.go knows.                                     *)
THEOREM TypeCorrectness == Safety => []TypeOK
<1>1. IInv => TypeOK
  BY DEF IInv
<1> QED
  BY <1>1, InductiveInvariant, PTL

(* Admission under jobScheduler.mu is enough to keep conflicting jobs      *)
(* apart: no two queued or running jobs are duplicates.                    *)
THEOREM ConflictFreedom == Safety => []NoConflictingJobs
<1>1. IInv => NoConflictingJobs
  BY DEF IInv
<1> QED
  BY <1>1, InductiveInvariant, PTL

(* There is one queue runner, or one client about to launch it, exactly    *)
(* while jobScheduler.active is set.                                       *)
THEOREM UniqueRunner == Safety => []RunnerIsUnique
<1>1. IInv => RunnerIsUnique
  <2> SUFFICES ASSUME IInv PROVE RunnerIsUnique
    OBVIOUS
  <2>1. active \in BOOLEAN
    BY DEF IInv, TypeOK
  <2>2. Cardinality({}) = 0
    BY FS_EmptySet
  <2>3. \A x : Cardinality({x}) = 1
    BY FS_Singleton
  <2>4. CASE ~active
    <3>1. DOMAIN runners = {} /\ Launching = {}
      BY <2>4 DEF IInv, Token
    <3> QED
      BY <2>2, <2>4, <3>1 DEF RunnerIsUnique
  <2>5. CASE DOMAIN runners # {}
    <3>1. PICK w : w \in DOMAIN runners
      BY <2>5
    <3>2. DOMAIN runners = {w} /\ Launching = {} /\ active
      BY <3>1 DEF IInv, Token
    <3>3. Cardinality(DOMAIN runners) = 1 /\ Cardinality(Launching) = 0
      BY <2>2, <2>3, <3>2
    <3> QED
      BY <3>2, <3>3 DEF RunnerIsUnique
  <2>6. CASE Launching # {}
    <3>1. PICK c : c \in Launching
      BY <2>6
    <3>2. Launching = {c} /\ DOMAIN runners = {} /\ active
      BY <3>1 DEF IInv, Token
    <3>3. Cardinality(DOMAIN runners) = 0 /\ Cardinality(Launching) = 1
      BY <2>2, <2>3, <3>2
    <3> QED
      BY <3>2, <3>3 DEF RunnerIsUnique
  <2> QED
    BY <2>4, <2>5, <2>6 DEF IInv, Token
<1> QED
  BY <1>1, InductiveInvariant, PTL

(* A job is marked running exactly while a runner executes it, and is not  *)
(* pruned meanwhile.                                                       *)
THEOREM RunningJobsAreExecuted == Safety => []RunningHasRunner
<1>1. IInv => RunningHasRunner
  BY DEF IInv
<1> QED
  BY <1>1, InductiveInvariant, PTL

(* No lost wakeup: before a shutdown every queued job is in the queue and  *)
(* the queue has a runner, or one about to be launched.                    *)
THEOREM NoLostWakeup == Safety => []QueuedIsServed
<1>1. IInv => QueuedIsServed
  BY DEF IInv, TypeOK, Waiting, QueuedIsServed
<1> QED
  BY <1>1, InductiveInvariant, PTL

(* Pruning never leaves the queue with a job that is no longer listed, and *)
(* never lets it hold a running or finished one.                           *)
THEOREM QueueSoundness == Safety => []QueueIsSound
<1>1. IInv => QueueIsSound
  BY DEF IInv
<1> QED
  BY <1>1, InductiveInvariant, PTL

(* A shutdown whose waits did not time out leaves no runner behind.        *)
THEOREM ShutdownDrains == Safety => []NoWorkAfterWait
<1>1. IInv => NoWorkAfterWait
  BY DEF IInv
<1> QED
  BY <1>1, InductiveInvariant, PTL

=============================================================================
