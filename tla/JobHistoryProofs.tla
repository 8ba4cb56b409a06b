-------------------------- MODULE JobHistoryProofs --------------------------
(***************************************************************************)
(* What the job list and its event stream show over time: outcomes are     *)
(* final, cancelled updates do not succeed, changes are announced, and     *)
(* pruning bounds the list but keeps the latest job of each type.  Proved  *)
(* for all clients, requests and limits on top of the invariant IInv.      *)
(***************************************************************************)
EXTENDS OperationJobsProofs

-----------------------------------------------------------------------------
(* The additional invariants.                                              *)

(* Waits or was cancelled while it waited.                                 *)
Idle(job) == job.state \in {"queued", "cancelled"} /\ ~job.running

(* The job whose admission has yet to launch the runner was not started.   *)
Launched ==
    \A c \in Launching :
       /\ clients[c].job \in 1..sequence
       /\ clients[c].job \in DOMAIN jobs => Idle(jobs[clients[c].job])

(* Only a job that is being executed is shown as busy.                     *)
BusyIsRunning(job) == job.state \in {"running", "refreshing"} => job.running

TypesOf(js) == {js[j].request.type : j \in Done(js)}

FewDone(js) ==
    Done(js) # {} => Cardinality(Done(js)) < HistoryLimit + Cardinality(TypesOf(js))

HInv ==
    /\ Launched
    /\ \A j \in DOMAIN jobs : BusyIsRunning(jobs[j])
    /\ Cardinality(Pending) <= MaxPending
    /\ ~ShuttingDown => FewDone(jobs)

(* The step records a panic as the failure of its job.                     *)
Panicked == \E w \in DOMAIN runners : RecordPanic(w)

(* What a step other than an admission does to one job, to the list and to *)
(* the clients.                                                            *)
Keeps(old, new) ==
    /\ new.request = old.request
    /\ Complete(old) => Complete(new)
    /\ BusyIsRunning(old) => BusyIsRunning(new)
    /\ old.state \in OutcomeStates =>
          /\ new.running => old.running
          /\ \/ new.state = old.state
             \/ old.state = "cancelled" /\ new.state = "failed" /\ Panicked
    /\ (/\ old.request.type \in UpdateTypes \cup {"inventory-refresh"}
        /\ old.state \notin OutcomeStates
        /\ ContextDone(old))
       => new.state \notin {"succeeded", "accepted_not_verified"}

ListKeeps ==
    /\ sequence' = sequence
    /\ queue' \subseteq queue
    /\ DOMAIN jobs' \subseteq DOMAIN jobs
    /\ \A j \in DOMAIN jobs' : Keeps(jobs[j], jobs'[j])
    /\ DOMAIN runners = {} =>
          \A j \in DOMAIN jobs' : Idle(jobs[j]) => Idle(jobs'[j])
    /\ \A j \in DOMAIN jobs \ DOMAIN jobs' :
          \E k \in DOMAIN jobs' : /\ k > j
                                  /\ jobs'[k].request.type = jobs[j].request.type
                                  /\ Complete(jobs'[k])

HistoryStep ==
    /\ ListKeeps
    /\ jobs' # jobs => unsent' \/ EventStreamPoll
    /\ \A c \in Launching' : c \in Launching /\ clients'[c].job = clients[c].job
    /\ \/ ShuttingDown'
       \/ FewDone(jobs')
       \/ /\ DOMAIN jobs' = DOMAIN jobs
          /\ \A j \in DOMAIN jobs : Complete(jobs'[j]) => Complete(jobs[j])

-----------------------------------------------------------------------------
(* Numbers and pruning.                                                    *)

(* A set of job numbers that is not empty has a least and a greatest one.  *)
LEMMA Extremes ==
    ASSUME NEW n \in Nat, NEW S \in SUBSET (1..n), S # {}
    PROVE  /\ \E m \in S : \A k \in S : m <= k
           /\ \E m \in S : \A k \in S : k <= m
<1>1. \A F \in SUBSET SUBSET S : F # {} =>
         \E T \in F : \A U \in F : ~(U \subseteq T /\ U # T)
  <2> SUFFICES ASSUME NEW F \in SUBSET SUBSET S, F # {}
               PROVE  \E T \in F : \A U \in F : ~(U \subseteq T /\ U # T)
    OBVIOUS
  <2> DEFINE R == StrictSubsetOrdering(S)
  <2>1. IsFiniteSet(S)
    <3>1. IsFiniteSet(1..n)
      BY FS_Interval
    <3> QED
      BY <3>1, FS_Subset
  <2>2. IsWellFoundedOn(R, SUBSET S)
    BY <2>1, FS_FiniteSubsetsOfFinite, FS_StrictSubsetOrderingWellFounded
  <2>3. \E T \in F : \A U \in F : ~(<<U, T>> \in R)
    <3> HIDE DEF R
    <3> QED
      BY <2>2, WFMin
  <2> QED
    BY <2>3 DEF StrictSubsetOrdering
<1>0. \A i \in S : i \in Nat
  OBVIOUS
<1>2. \E m \in S : \A k \in S : m <= k
  <2> DEFINE UpTo(x) == {i \in S : i <= x}
             F == {UpTo(x) : x \in S}
  <2>1. F \in SUBSET SUBSET S /\ F # {}
    OBVIOUS
  <2>2. PICK T \in F : \A U \in F : ~(U \subseteq T /\ U # T)
    BY <1>1, <2>1
  <2>3. PICK m \in S : T = UpTo(m)
    OBVIOUS
  <2>4. ASSUME NEW k \in S, k < m PROVE FALSE
    <3>1. UpTo(k) \in F
      OBVIOUS
    <3>2. \A i \in S : i <= k => i <= m
      BY <1>0, <2>4
    <3>3. m <= m /\ ~(m <= k)
      BY <1>0, <2>4
    <3>4. UpTo(k) \subseteq T /\ m \in T /\ m \notin UpTo(k)
      BY <2>3, <3>2, <3>3
    <3> HIDE DEF UpTo, F
    <3> QED
      BY <2>2, <3>1, <3>4
  <2> QED
    BY <1>0, <2>4
<1>3. \E m \in S : \A k \in S : k <= m
  <2> DEFINE From(x) == {i \in S : i >= x}
             F == {From(x) : x \in S}
  <2>1. F \in SUBSET SUBSET S /\ F # {}
    OBVIOUS
  <2>2. PICK T \in F : \A U \in F : ~(U \subseteq T /\ U # T)
    BY <1>1, <2>1
  <2>3. PICK m \in S : T = From(m)
    OBVIOUS
  <2>4. ASSUME NEW k \in S, k > m PROVE FALSE
    <3>1. From(k) \in F
      OBVIOUS
    <3>2. \A i \in S : i >= k => i >= m
      BY <1>0, <2>4
    <3>3. m >= m /\ ~(m >= k)
      BY <1>0, <2>4
    <3>4. From(k) \subseteq T /\ m \in T /\ m \notin From(k)
      BY <2>3, <3>2, <3>3
    <3> HIDE DEF From, F
    <3> QED
      BY <2>2, <3>1, <3>4
  <2> QED
    BY <1>0, <2>4
<1> QED
  BY <1>2, <1>3

(* What pruning removes is complete and older than a complete job of its   *)
(* type that it keeps.                                                     *)
LEMMA PruneKeepsLatest ==
    ASSUME NEW js, NEW n \in Nat, DOMAIN js \subseteq 1..n,
           js = [j \in DOMAIN js |-> js[j]]
    PROVE  \A j \in DOMAIN js \ DOMAIN Pruned(js) :
              \E k \in DOMAIN Pruned(js) :
                 /\ k > j
                 /\ Pruned(js)[k] = js[k]
                 /\ js[k].request.type = js[j].request.type
                 /\ Complete(js[k])
<1> SUFFICES ASSUME NEW j \in DOMAIN js, j \notin DOMAIN Pruned(js)
             PROVE  \E k \in DOMAIN Pruned(js) :
                       /\ k > j
                       /\ Pruned(js)[k] = js[k]
                       /\ js[k].request.type = js[j].request.type
                       /\ Complete(js[k])
  OBVIOUS
<1>1. Pruned(js) = [k \in Retained(js) |-> js[k]]
  BY DEF Pruned
<1>2. j \in Done(js) /\ j \notin LatestOfType(js)
  BY <1>1 DEF Retained
<1> DEFINE S == {k \in Done(js) : k > j /\ js[k].request.type = js[j].request.type}
<1>3. S \in SUBSET (1..n) /\ S # {}
  BY <1>2 DEF LatestOfType, Done
<1>4. PICK m \in S : \A k \in S : k <= m
  BY <1>3, Extremes
<1>5. m \in Done(js) /\ m > j /\ js[m].request.type = js[j].request.type
  OBVIOUS
<1>6. \A k \in Done(js) : k \in 1..n
  BY DEF Done
<1>7. m \in LatestOfType(js)
  <2> SUFFICES ASSUME NEW k \in Done(js), k > m, js[k].request.type = js[m].request.type
               PROVE  FALSE
    BY <1>5 DEF LatestOfType
  <2>1. k > j
    BY <1>2, <1>5, <1>6
  <2>2. k \in S
    BY <1>5, <2>1
  <2> QED
    BY <1>4, <1>5, <1>6, <2>2
<1>8. m \in DOMAIN Pruned(js) /\ Pruned(js)[m] = js[m]
  BY <1>1, <1>7 DEF Retained
<1> QED
  BY <1>5, <1>8 DEF Done

(* The image of a finite set is finite and no larger.                      *)
LEMMA ImageIsSmall ==
    ASSUME NEW js, NEW S, IsFiniteSet(S)
    PROVE  LET T == {js[j].request.type : j \in S}
           IN  /\ IsFiniteSet(T)
               /\ Cardinality(T) \in Nat
               /\ S # {} => Cardinality(T) # 0
<1> DEFINE T == {js[j].request.type : j \in S}
           f == [j \in S |-> js[j].request.type]
<1>1. f \in Surjection(S, T)
  BY DEF Surjection
<1>2. IsFiniteSet(T)
  <2> HIDE DEF f, T
  <2> QED
    BY <1>1, FS_Surjection
<1>3. Cardinality(T) \in Nat /\ (Cardinality(T) = 0 <=> T = {})
  <2> HIDE DEF T
  <2> QED
    BY <1>2, FS_CardinalityType, FS_EmptySet
<1> QED
  BY <1>2, <1>3

(* After pruning the complete jobs are the latest ones and one of each of   *)
(* the other types: the latest job is both.                                *)
LEMMA PruneBounds ==
    ASSUME NEW js, NEW n \in Nat, DOMAIN js \subseteq 1..n,
           js = [j \in DOMAIN js |-> js[j]]
    PROVE  FewDone(Pruned(js))
<1> DEFINE D == Done(js)
<1>1. D \in SUBSET (1..n) /\ IsFiniteSet(D) /\ IsFiniteSet(DOMAIN js)
  <2>1. IsFiniteSet(1..n)
    BY FS_Interval
  <2>2. DOMAIN js \in SUBSET (1..n) /\ D \in SUBSET (1..n)
    BY DEF Done
  <2> HIDE DEF D
  <2> QED
    BY <2>1, <2>2, FS_Subset
<1>2. HistoryLimit \in Nat \ {0}
  BY LimitsAssumption
<1>3. \A S \in SUBSET D : IsFiniteSet(S) /\ Cardinality(S) \in Nat
  BY <1>1, FS_Subset, FS_CardinalityType
<1>4. CASE Cardinality(DOMAIN js) <= HistoryLimit
  <2> SUFFICES ASSUME D # {}
               PROVE  Cardinality(D) < HistoryLimit + Cardinality(TypesOf(js))
    BY <1>4 DEF Pruned, FewDone
  <2>1. Cardinality(D) <= HistoryLimit
    <3>1. Cardinality(D) <= Cardinality(DOMAIN js) /\ Cardinality(DOMAIN js) \in Nat
      BY <1>1, FS_Subset, FS_CardinalityType DEF Done
    <3> QED
      BY <1>2, <1>3, <1>4, <3>1
  <2>2. Cardinality(TypesOf(js)) \in Nat \ {0}
    BY <1>1, ImageIsSmall DEF TypesOf
  <2> QED
    BY <1>2, <1>3, <2>1, <2>2
<1>5. CASE ~(Cardinality(DOMAIN js) <= HistoryLimit)
  <2> DEFINE Kept == LatestOfType(js) \cup MostRecent(js)
             Old == LatestOfType(js) \ MostRecent(js)
  <2>1. Pruned(js) = [j \in Retained(js) |-> js[j]]
    BY <1>5 DEF Pruned
  <2>2. Kept \in SUBSET D
    BY DEF LatestOfType, MostRecent
  <2>3. Done(Pruned(js)) = Kept
    BY <2>1, <2>2 DEF Done, Retained
  <2> SUFFICES ASSUME Kept # {}
               PROVE  Cardinality(Kept) < HistoryLimit + Cardinality(TypesOf(Pruned(js)))
    BY <2>3 DEF FewDone
  <2>4. TypesOf(Pruned(js)) = {js[j].request.type : j \in Kept}
    BY <2>1, <2>2, <2>3 DEF TypesOf, Retained
  <2> DEFINE Types == {js[j].request.type : j \in Kept}
  <2>5. PICK m \in D : \A k \in D : k <= m
    BY <1>1, <2>2, Extremes
  <2>6. m \in MostRecent(js)
    <3>1. {k \in D : k > m} = {}
      BY <1>1, <2>5
    <3> QED
      BY <1>2, <3>1, FS_EmptySet DEF MostRecent
  <2>7. Cardinality(MostRecent(js)) <= HistoryLimit
    <3> DEFINE M == MostRecent(js)
    <3>1. M \in SUBSET D
      BY DEF MostRecent
    <3>2. PICK i \in M : \A k \in M : i <= k
      BY <1>1, <2>6, <3>1, Extremes
    <3> DEFINE After == {k \in D : k > i}
    <3>3. Cardinality(After) < HistoryLimit
      BY DEF MostRecent
    <3>4. M \ {i} \in SUBSET After
      BY <1>1, <3>1, <3>2
    <3>5. Cardinality(M \ {i}) <= Cardinality(After)
      BY <1>3, <3>4, FS_Subset
    <3>6. Cardinality(M \ {i}) = Cardinality(M) - 1
      BY <1>3, <3>1, FS_RemoveElement
    <3>7. Cardinality(M) \in Nat /\ Cardinality(After) \in Nat
      BY <1>3, <3>1
    <3> QED
      BY <1>2, <3>3, <3>5, <3>6, <3>7
  <2>8. IsFiniteSet(Types) /\ Cardinality(Types) \in Nat
    BY <1>3, <2>2, ImageIsSmall
  <2>9. Cardinality(Old) <= Cardinality(Types) - 1
    <3> DEFINE t == js[m].request.type
               f == [j \in Old |-> js[j].request.type]
    <3>1. t \in Types
      BY <2>6
    <3>2. \A j \in Old : j \in D /\ j # m /\ j \in 1..n
      BY <1>1, <2>6 DEF LatestOfType
    <3>3. \A j \in Old : js[j].request.type \in Types \ {t}
      <4>1. \A j \in Old : m > j
        BY <1>1, <2>5, <3>2
      <4> QED
        BY <4>1 DEF LatestOfType
    <3>4. f \in Injection(Old, Types \ {t})
      <4>1. ASSUME NEW j \in Old, NEW k \in Old, f[j] = f[k] PROVE j = k
        <5>1. ~(j > k) /\ ~(k > j)
          BY <3>2, <4>1 DEF LatestOfType
        <5>2. j \in 1..n /\ k \in 1..n
          BY <3>2
        <5> HIDE DEF Old
        <5> QED
          BY <5>1, <5>2
      <4>2. f \in [Old -> Types \ {t}] /\ DOMAIN f = Old
        BY <3>3
      <4> HIDE DEF f, Old, Types, t
      <4> QED
        BY <4>1, <4>2 DEF Injection, IsInjective
    <3>5. IsFiniteSet(Types \ {t}) /\ Cardinality(Types \ {t}) = Cardinality(Types) - 1
      <4> HIDE DEF Types, t
      <4> QED
        BY <2>8, <3>1, FS_RemoveElement
    <3>6. Cardinality(Old) <= Cardinality(Types \ {t})
      <4> HIDE DEF f, Types, Old, t
      <4> QED
        BY <3>4, <3>5, FS_Injection
    <3> QED
      BY <3>5, <3>6
  <2>10. Cardinality(Kept) = Cardinality(MostRecent(js)) + Cardinality(Old)
    <3>1. Kept = MostRecent(js) \cup Old /\ MostRecent(js) \cap Old = {}
      OBVIOUS
    <3>2. MostRecent(js) \in SUBSET D /\ Old \in SUBSET D
      BY <2>2
    <3>3. IsFiniteSet(MostRecent(js)) /\ IsFiniteSet(Old)
      BY <1>3, <3>2
    <3>4. /\ Cardinality(MostRecent(js) \cup Old)
                = Cardinality(MostRecent(js)) + Cardinality(Old)
                     - Cardinality(MostRecent(js) \cap Old)
          /\ Cardinality(MostRecent(js) \cap Old) = 0
          /\ Cardinality(MostRecent(js)) \in Nat
          /\ Cardinality(Old) \in Nat
      <4> HIDE DEF Old
      <4> QED
        BY <1>3, <3>1, <3>2, <3>3, FS_Union, FS_EmptySet
    <3> HIDE DEF Old, Kept
    <3> QED
      BY <3>1, <3>4
  <2>11. Cardinality(MostRecent(js)) \in Nat /\ Cardinality(Old) \in Nat
    BY <1>3, <2>2
  <2> QED
    BY <1>2, <2>4, <2>7, <2>8, <2>9, <2>10, <2>11
<1> QED
  BY <1>4, <1>5

-----------------------------------------------------------------------------
(* The steps.                                                              *)

(* A job that does not change is kept as it is.                            *)
LEMMA KeepsItself == ASSUME NEW job PROVE Keeps(job, job)
  BY DEF Keeps, OutcomeStates

(* A list whose jobs are kept is published.                                *)
LEMMA PublishKeeps ==
    ASSUME IInv, sequence' = sequence,
           NEW js, js = [j \in DOMAIN js |-> js[j]], DOMAIN js = DOMAIN jobs,
           \A j \in DOMAIN jobs : Keeps(jobs[j], js[j]),
           DOMAIN runners = {} => \A j \in DOMAIN jobs : Idle(jobs[j]) => Idle(js[j]),
           PublishAndPrune(js)
    PROVE  ListKeeps /\ FewDone(jobs')
<1>1. /\ DOMAIN jobs \subseteq 1..sequence
      /\ sequence \in Nat
      /\ queue \subseteq DOMAIN js
  BY DEF IInv, TypeOK, QueueIsSound
<1>2. /\ DOMAIN jobs' \subseteq DOMAIN js
      /\ jobs' = [j \in DOMAIN jobs' |-> js[j]]
      /\ queue' = queue \cap DOMAIN jobs'
  BY <1>1, PublishFacts
<1>3. \A j \in DOMAIN jobs' : jobs'[j] = js[j]
  BY <1>2
<1>4. jobs' = Pruned(js)
  BY DEF PublishAndPrune
<1>5. FewDone(jobs')
  BY <1>1, <1>4, PruneBounds
<1>6. \A j \in DOMAIN js \ DOMAIN jobs' :
         \E k \in DOMAIN jobs' : /\ k > j
                                 /\ jobs'[k] = js[k]
                                 /\ js[k].request.type = js[j].request.type
                                 /\ Complete(js[k])
  BY <1>1, <1>4, PruneKeepsLatest
<1>7. \A j \in DOMAIN jobs : js[j].request = jobs[j].request
  BY DEF Keeps
<1>8. \A j \in DOMAIN jobs \ DOMAIN jobs' :
         \E k \in DOMAIN jobs' : /\ k > j
                                 /\ jobs'[k].request.type = jobs[j].request.type
                                 /\ Complete(jobs'[k])
  BY <1>6, <1>7
<1>9. \A j \in DOMAIN jobs' : Keeps(jobs[j], jobs'[j])
  BY <1>2, <1>3
<1>10. DOMAIN runners = {} => \A j \in DOMAIN jobs' : Idle(jobs[j]) => Idle(jobs'[j])
  BY <1>2, <1>3
<1> QED
  BY <1>2, <1>5, <1>8, <1>9, <1>10 DEF ListKeeps

(* A cancel keeps a job.                                                   *)
LEMMA CancelKeeps ==
    ASSUME NEW job \in JobRecords
    PROVE  /\ Keeps(job, WithCancel(job))
           /\ Idle(job) => Idle(WithCancel(job))
           /\ Idle(job) =>
                 Keeps(job, CancelledInQueue(job)) /\ Idle(CancelledInQueue(job))
<1>1. CASE job.state = "queued"
  BY <1>1, CancelFacts DEF Keeps, Idle, Complete, BusyIsRunning, OutcomeStates
<1>2. CASE job.state # "queued"
  BY <1>2, CancelFacts DEF Keeps, Idle, Complete, BusyIsRunning, OutcomeStates
<1> QED
  BY <1>1, <1>2

(* Cancelling some jobs, as a handler or the shutdown does.                *)
LEMMA CancelIsHistoryStep ==
    ASSUME IInv, NEW js, js = [j \in DOMAIN js |-> js[j]], DOMAIN js = DOMAIN jobs,
           \A j \in DOMAIN jobs : js[j] = jobs[j] \/ js[j] = WithCancel(jobs[j]),
           PublishAndPrune(js),
           jobs' # jobs => unsent' \/ EventStreamPoll,
           UNCHANGED <<sequence, clients>>
    PROVE  HistoryStep
<1>1. \A j \in DOMAIN jobs : /\ Keeps(jobs[j], js[j])
                             /\ Idle(jobs[j]) => Idle(js[j])
  BY CancelKeeps, KeepsItself DEF IInv, TypeOK
<1>2. ListKeeps /\ FewDone(jobs')
  BY <1>1, PublishKeeps
<1> QED
  BY <1>2 DEF HistoryStep, Launching

(* A step that leaves the job list alone and launches nobody.              *)
LEMMA QuietStep ==
    ASSUME IInv, UNCHANGED jobs, UNCHANGED sequence, queue' \subseteq queue,
           \A c \in Launching' : c \in Launching /\ clients'[c].job = clients[c].job
    PROVE  HistoryStep
  BY KeepsItself DEF HistoryStep, ListKeeps

(* A step that changes the job list without pruning it, completes no job   *)
(* before a shutdown, and announces the change.                            *)
LEMMA ChangeStep ==
    ASSUME IInv, DOMAIN jobs' = DOMAIN jobs, UNCHANGED sequence, queue' \subseteq queue,
           \A j \in DOMAIN jobs : Keeps(jobs[j], jobs'[j]),
           DOMAIN runners = {} => \A j \in DOMAIN jobs : Idle(jobs[j]) => Idle(jobs'[j]),
           \A c \in Launching' : c \in Launching /\ clients'[c].job = clients[c].job,
           ShuttingDown' \/ \A j \in DOMAIN jobs : Complete(jobs'[j]) => Complete(jobs[j]),
           jobs' # jobs => unsent'
    PROVE  HistoryStep
  BY DEF HistoryStep, ListKeeps

(* The submitting clients, apart from an admission.                        *)
LEMMA ClientHistory ==
    ASSUME IInv, Launched, NEW c \in Clients,
           \/ \E r \in Requests : CheckShutdown(c, r)
           \/ ClientStep(c) /\ ~Enqueue(c)
    PROVE  HistoryStep
<1>1. clients \in [Clients -> ClientRecords]
  BY DEF IInv, TypeOK
<1>2. ASSUME c \in Launching
      PROVE  clients[c] \in [at : {"launch", "refused"}, job : Nat]
  BY <1>1, <1>2 DEF Launching, ClientRecords
<1>3. CASE (\E r \in Requests : CheckShutdown(c, r)) \/ Reject(c) \/ LaunchRunner(c)
  <2>1. /\ UNCHANGED <<jobs, queue, sequence>>
        /\ \E v : clients' = [clients EXCEPT ![c] = v] /\ v.at \notin {"launch", "refused"}
    BY <1>3 DEF CheckShutdown, Reject, LaunchRunner, scheduler
  <2>2. \A d \in Launching' : d \in Launching /\ clients'[d].job = clients[d].job
    BY <1>1, <2>1 DEF Launching
  <2> QED
    BY <2>1, <2>2, QuietStep
<1>4. CASE LaunchRefused(c)
  <2>1. /\ UNCHANGED <<jobs, queue, sequence>>
        /\ clients' = [clients EXCEPT ![c].at = "refused"]
        /\ c \in Launching
    BY <1>4 DEF LaunchRefused, scheduler, Launching
  <2>2. \A d \in Launching' : d \in Launching /\ clients'[d].job = clients[d].job
    BY <1>1, <1>2, <2>1 DEF Launching
  <2> QED
    BY <2>1, <2>2, QuietStep
<1>5. CASE CancelRefused(c)
  <2> DEFINE i == clients[c].job
  <2>1. /\ c \in Launching
        /\ UNCHANGED <<queue, sequence, shutdown>>
        /\ unsent'
        /\ DOMAIN jobs' = DOMAIN jobs
        /\ \A j \in DOMAIN jobs :
              jobs'[j] = IF j = i THEN CancelledInQueue(jobs[j]) ELSE jobs[j]
    BY <1>5 DEF CancelRefused, Launching
  <2>2. \A d \in Launching' : d \in Launching /\ clients'[d].job = clients[d].job
    BY <1>1, <1>5 DEF CancelRefused, Launching
  <2>3. ShuttingDown'
    BY <1>5, <2>1 DEF CancelRefused, IInv, Waiting, ShuttingDown
  <2>4. \A j \in DOMAIN jobs : j = i => Idle(jobs[j])
    BY <2>1 DEF Launched
  <2>5. \A j \in DOMAIN jobs : jobs[j] \in JobRecords
    BY DEF IInv, TypeOK
  <2>6. \A j \in DOMAIN jobs : /\ Keeps(jobs[j], jobs'[j])
                               /\ Idle(jobs[j]) => Idle(jobs'[j])
    BY <2>1, <2>4, <2>5, CancelKeeps, KeepsItself
  <2> QED
    BY <2>1, <2>2, <2>3, <2>6, ChangeStep
<1> QED
  BY <1>3, <1>4, <1>5 DEF ClientStep

(* The queue runner.                                                       *)
LEMMA RunnerHistory ==
    ASSUME IInv, NEW w \in DOMAIN runners, RunnerStep(w)
    PROVE  HistoryStep
<1>1. \A j \in DOMAIN jobs : jobs[j] \in JobRecords
  BY DEF IInv, TypeOK
<1>2. ASSUME NEW j \in queue, RunnerTakes(w, j) PROVE HistoryStep
  <2> DEFINE passed == {k \in queue : k < j}
  <2>1. j \in DOMAIN jobs /\ jobs[j].state = "queued" /\ ~jobs[j].running /\ ~ContextDone(jobs[j])
    BY <1>2 DEF RunnerTakes, Runnable, IInv, QueueIsSound, ContextDone
  <2>2. j \notin passed
    BY DEF IInv, TypeOK
  <2>3. \A k \in passed : k \in DOMAIN jobs /\ jobs[k].state = "cancelled" /\ ~jobs[k].running
    BY <1>2, <2>1 DEF RunnerTakes, Runnable, IInv, QueueIsSound
  <2>4. /\ DOMAIN jobs' = DOMAIN jobs
        /\ jobs'[j] = [jobs[j] EXCEPT !.state = "running", !.running = TRUE]
        /\ \A k \in DOMAIN jobs : k # j =>
              jobs'[k] = IF k \in passed THEN CancelledInQueue(jobs[k]) ELSE jobs[k]
        /\ UNCHANGED <<sequence, clients, shutdown>>
        /\ unsent'
        /\ queue' \subseteq queue
    BY <1>2, <2>1, <2>2 DEF RunnerTakes, Drained
  <2>5. \A k \in passed : /\ Keeps(jobs[k], CancelledInQueue(jobs[k]))
                          /\ Complete(jobs[k])
    BY <1>1, <2>3, CancelKeeps DEF Idle, Complete
  <2>6. /\ jobs'[j].state = "running" /\ jobs'[j].running
        /\ jobs'[j].request = jobs[j].request
    BY <1>1, <2>1, <2>4 DEF JobRecords
  <2>7. Keeps(jobs[j], jobs'[j]) /\ ~Complete(jobs'[j])
    BY <2>1, <2>6 DEF Keeps, Complete, BusyIsRunning, OutcomeStates
  <2>8. \A k \in DOMAIN jobs : /\ Keeps(jobs[k], jobs'[k])
                               /\ Complete(jobs'[k]) => Complete(jobs[k])
    BY <2>4, <2>5, <2>7, KeepsItself
  <2>9. \A d \in Launching' : d \in Launching /\ clients'[d].job = clients[d].job
    BY <2>4 DEF Launching
  <2> QED
    BY <2>4, <2>8, <2>9, ChangeStep
<1>3. CASE RunnerEnds(w)
  <2>1. /\ DOMAIN jobs' = DOMAIN jobs
        /\ \A k \in DOMAIN jobs :
              jobs'[k] = IF k \in queue THEN CancelledInQueue(jobs[k]) ELSE jobs[k]
        /\ jobs' = Drained(jobs, queue)
        /\ UNCHANGED <<sequence, clients, shutdown>>
        /\ queue' \subseteq queue
    BY <1>3 DEF RunnerEnds, Drained
  <2>2. \A k \in queue : k \in DOMAIN jobs /\ Idle(jobs[k])
    BY DEF IInv, QueueIsSound, Idle
  <2>3. \A k \in DOMAIN jobs : Keeps(jobs[k], jobs'[k])
    BY <1>1, <2>1, <2>2, CancelKeeps, KeepsItself
  <2>4. ShuttingDown' \/ \A k \in DOMAIN jobs : Complete(jobs'[k]) => Complete(jobs[k])
    <3>1. \A k \in queue : ~ShuttingDown => Complete(jobs[k])
      BY <1>3, <2>2 DEF RunnerEnds, Runnable, IInv, QueueIsSound, Idle, Complete
    <3> QED
      BY <2>1, <3>1 DEF ShuttingDown
  <2>5. jobs' # jobs => unsent'
    <3>1. queue \cap DOMAIN jobs = {} => jobs' = jobs
      BY <2>1 DEF Drained, IInv, TypeOK
    <3> QED
      BY <1>3, <3>1 DEF RunnerEnds
  <2>6. \A d \in Launching' : d \in Launching /\ clients'[d].job = clients[d].job
    BY <2>1 DEF Launching
  <2> QED
    BY <2>1, <2>3, <2>4, <2>5, <2>6, ChangeStep
<1>4. CASE RunnerFinishes(w)
  <2> DEFINE i == runners[w].job
  <2>1. /\ i \in DOMAIN jobs
        /\ jobs[i].running
        /\ jobs[i].state \in OutcomeStates
    BY <1>4, RunnerJob DEF RunnerFinishes, IInv, Working, BodyJob
  <2>2. FinalStates(jobs[i]) = {jobs[i].state}
    BY <2>1 DEF FinalStates, OutcomeStates
  <2> DEFINE js == [jobs EXCEPT ![i] =
                      [jobs[i] EXCEPT !.state = jobs[i].state, !.running = FALSE]]
  <2>3. PublishAndPrune(js) /\ unsent' /\ UNCHANGED <<sequence, clients>>
    BY <1>4, <2>2 DEF RunnerFinishes
  <2>4. /\ DOMAIN js = DOMAIN jobs
        /\ js = [j \in DOMAIN js |-> js[j]]
        /\ \A j \in DOMAIN jobs : j # i => js[j] = jobs[j]
        /\ js[i].state = jobs[i].state
        /\ js[i].request = jobs[i].request
        /\ ~js[i].running
    BY <1>1, <2>1 DEF JobRecords
  <2> HIDE DEF js
  <2>5. Keeps(jobs[i], js[i])
    BY <2>1, <2>4 DEF Keeps, Complete, BusyIsRunning, OutcomeStates
  <2>6. \A j \in DOMAIN jobs : Keeps(jobs[j], js[j])
    BY <2>4, <2>5, KeepsItself
  <2>7. ListKeeps /\ FewDone(jobs')
    BY <2>3, <2>4, <2>6, PublishKeeps
  <2> QED
    BY <2>3, <2>7 DEF HistoryStep, Launching
<1> QED
  BY <1>2, <1>3, <1>4 DEF RunnerStep

(* A body publishes a status of the job that is being executed.            *)
LEMMA BodyKeeps ==
    ASSUME IInv, NEW w \in DOMAIN runners, runners[w].at \in {"act", "refresh", "panic"},
           NEW job \in JobRecords, job.request = BodyJob(w).request, job.running,
           (/\ job.request.type \in UpdateTypes \cup {"inventory-refresh"}
            /\ ContextDone(BodyJob(w)))
              => job.state \notin {"succeeded", "accepted_not_verified"},
           BodyJob(w).state = "cancelled" =>
              job.state = "cancelled" \/ (job.state = "failed" /\ Panicked),
           NEW next, BodyPublishes(w, job, next)
    PROVE  HistoryStep
<1> DEFINE i == runners[w].job
<1>1. /\ i \in DOMAIN jobs
      /\ jobs[i] = BodyJob(w)
      /\ jobs[i].running
      /\ jobs[i].state \in {"refreshing", "cancelled"} \cup ProgressStates
  BY RunnerJob DEF IInv, BodyJob, Working
<1>2. /\ DOMAIN jobs' = DOMAIN jobs
      /\ jobs'[i] = job
      /\ \A j \in DOMAIN jobs : j # i => jobs'[j] = jobs[j]
      /\ unsent'
      /\ UNCHANGED <<queue, sequence, clients, shutdown>>
  BY <1>1 DEF BodyPublishes, Mutate, IInv, TypeOK
<1>3. Keeps(jobs[i], job) /\ ~Complete(job)
  BY <1>1 DEF Keeps, Complete, BusyIsRunning, OutcomeStates, ProgressStates
<1>4. \A j \in DOMAIN jobs : /\ Keeps(jobs[j], jobs'[j])
                             /\ Complete(jobs'[j]) => Complete(jobs[j])
  BY <1>2, <1>3, KeepsItself
<1>5. \A d \in Launching' : d \in Launching /\ clients'[d].job = clients[d].job
  BY <1>2 DEF Launching
<1> QED
  BY <1>2, <1>4, <1>5, ChangeStep

LEMMA BodyHistory ==
    ASSUME IInv, NEW w \in DOMAIN runners, BodyStep(w)
    PROVE  HistoryStep
<1> DEFINE old == BodyJob(w)
<1>1. ASSUME runners[w].at # "pop"
      PROVE  old \in JobRecords /\ old.running
  BY <1>1, RunnerJob DEF IInv
<1>c. ASSUME runners[w].at = "act"
      PROVE  old.state # "cancelled"
  BY <1>c DEF IInv, Working, BodyJob, ProgressStates
<1>2. CASE UpdateProgress(w)
  <2> DEFINE s == NextProgress(old.state)
  <2>1. runners[w].at = "act"
    BY <1>2 DEF UpdateProgress, InBody
  <2>2. s \in ProgressStates
    BY DEF NextProgress, ProgressStates
  <2>3. s \in JobStates /\ s \notin {"succeeded", "accepted_not_verified"}
    BY <2>2 DEF JobStates, ProgressStates
  <2>4. BodyPublishes(w, [old EXCEPT !.state = s], "act")
    BY <1>2 DEF UpdateProgress
  <2> HIDE DEF s, old
  <2>5. /\ [old EXCEPT !.state = s] \in JobRecords
        /\ [old EXCEPT !.state = s].request = old.request
        /\ [old EXCEPT !.state = s].state = s
        /\ [old EXCEPT !.state = s].running
    <3>1. old \in JobRecords /\ old.running
      BY <1>1, <2>1
    <3> QED
      BY <2>3, <3>1 DEF JobRecords
  <2> USE DEF old
  <2> QED
    BY <1>c, <2>1, <2>3, <2>4, <2>5, BodyKeeps
<1>b. ASSUME runners[w].at # "pop"
      PROVE  /\ CancelledInBody(old) \in JobRecords
             /\ CancelledInBody(old).request = old.request
             /\ CancelledInBody(old).state = "cancelled"
             /\ CancelledInBody(old).running
  <2>1. "cancelled" \in JobStates
    BY DEF JobStates, OutcomeStates
  <2> HIDE DEF old
  <2> QED
    BY <1>1, <1>b, <2>1 DEF CancelledInBody, JobRecords
<1>3. CASE ActCancelled(w)
  <2> DEFINE b == old.cancelRequested \/ old.request.type # "app-self-update"
             new == [old EXCEPT !.state = "cancelled", !.cancelRequested = b]
  <2>1. runners[w].at = "act" /\ BodyPublishes(w, new, "end")
    BY <1>3 DEF ActCancelled, InBody
  <2>2. b \in BOOLEAN
    BY <1>1, <2>1 DEF JobRecords
  <2>3. "cancelled" \in JobStates
    BY DEF JobStates, OutcomeStates
  <2>4. /\ new \in JobRecords
        /\ new.request = old.request
        /\ new.state = "cancelled"
        /\ new.running
    <3>1. old \in JobRecords /\ old.running
      BY <1>1, <2>1
    <3> HIDE DEF b, old
    <3> QED
      BY <2>2, <2>3, <3>1 DEF JobRecords
  <2> HIDE DEF new
  <2> QED
    BY <2>1, <2>4, BodyKeeps
<1>a. CASE ActAborted(w)
  <2> DEFINE new == CancelledInBody(old)
  <2>1. runners[w].at = "act" /\ BodyPublishes(w, new, "refresh")
    BY <1>a DEF ActAborted, InBody
  <2>2. /\ new \in JobRecords
        /\ new.request = old.request
        /\ new.state = "cancelled"
        /\ new.running
    BY <1>1, <1>b, <2>1
  <2> HIDE DEF new
  <2> QED
    BY <2>1, <2>2, BodyKeeps
<1>4. ASSUME NEW s \in JobStates, NEW next,
             runners[w].at \in {"act", "refresh", "panic"},
             old.state = "cancelled" => s = "failed" /\ Panicked,
             (/\ old.request.type \in UpdateTypes \cup {"inventory-refresh"}
              /\ ContextDone(old))
                => s \notin {"succeeded", "accepted_not_verified"},
             BodyPublishes(w, [old EXCEPT !.state = s], next)
      PROVE  HistoryStep
  <2> DEFINE new == [old EXCEPT !.state = s]
  <2>1. /\ new \in JobRecords
        /\ new.request = old.request
        /\ new.state = s
        /\ new.running
    <3>1. old \in JobRecords /\ old.running
      BY <1>1, <1>4
    <3> HIDE DEF old
    <3> QED
      BY <1>4, <3>1 DEF JobRecords
  <2>2. BodyPublishes(w, new, next)
    BY <1>4
  <2> HIDE DEF new
  <2> QED
    BY <1>4, <2>1, <2>2, BodyKeeps
<1>5. CASE ActDone(w)
  <2>1. runners[w].at = "act" /\ BodyPublishes(w, [old EXCEPT !.state = "refreshing"], "refresh")
    BY <1>5 DEF ActDone, InBody
  <2>2. "refreshing" \in JobStates
    BY DEF JobStates
  <2> QED
    BY <1>4, <1>c, <2>1, <2>2
<1>6. CASE ActEnds(w)
  <2>1. PICK s \in {"failed", "succeeded"} :
           /\ s = "failed" \/ old.request.type = "app-self-update"
           /\ BodyPublishes(w, [old EXCEPT !.state = s], "end")
    BY <1>6 DEF ActEnds
  <2>2. runners[w].at = "act"
    BY <1>6 DEF ActEnds, InBody
  <2>3. s \in JobStates
    BY DEF JobStates, OutcomeStates
  <2> QED
    BY <1>4, <1>c, <2>1, <2>2, <2>3 DEF UpdateTypes
<1>7. CASE RefreshDone(w)
  <2>1. runners[w].at = "refresh"
    BY <1>7 DEF RefreshDone, InBody
  <2>2. CASE old.state = "cancelled"
    <3>1. BodyPublishes(w, old, "end")
      BY <1>7, <2>2 DEF RefreshDone, Outcomes
    <3>2. old \in JobRecords /\ old.running
      BY <1>1, <2>1
    <3> QED
      BY <2>1, <2>2, <3>1, <3>2, BodyKeeps
  <2>3. CASE /\ old.state # "cancelled"
             /\ old.request.type \in UpdateTypes \cup {"inventory-refresh"}
             /\ ContextDone(old)
    <3> DEFINE new == CancelledInBody(old)
    <3>1. BodyPublishes(w, new, "end")
      BY <1>7, <2>3 DEF RefreshDone, Outcomes
    <3>2. /\ new \in JobRecords
          /\ new.request = old.request
          /\ new.state = "cancelled"
          /\ new.running
      BY <1>b, <2>1
    <3> HIDE DEF new
    <3> QED
      BY <2>1, <3>1, <3>2, BodyKeeps
  <2>4. CASE /\ old.state # "cancelled"
             /\ ~(/\ old.request.type \in UpdateTypes \cup {"inventory-refresh"}
                  /\ ContextDone(old))
    <3>1. PICK s \in RefreshStates(old) : BodyPublishes(w, [old EXCEPT !.state = s], "end")
      BY <1>7, <2>4 DEF RefreshDone, Outcomes
    <3>2. s \in JobStates
      BY DEF RefreshStates, JobStates, OutcomeStates
    <3> QED
      BY <1>4, <2>1, <2>4, <3>1, <3>2
  <2> QED
    BY <2>2, <2>3, <2>4
<1>8. CASE BodyPanics(w)
  <2>1. UNCHANGED <<jobs, queue, sequence, clients>>
    BY <1>8 DEF BodyPanics, scheduler
  <2> QED
    BY <2>1, QuietStep DEF Launching
<1>9. CASE RecordPanic(w)
  <2>1. runners[w].at = "panic" /\ BodyPublishes(w, [old EXCEPT !.state = "failed"], "end")
    BY <1>9 DEF RecordPanic, InBody
  <2>2. "failed" \in JobStates
    BY DEF JobStates, OutcomeStates
  <2>3. Panicked
    BY <1>9 DEF Panicked
  <2> QED
    BY <1>4, <2>1, <2>2, <2>3
<1> QED
  BY <1>2, <1>3, <1>a, <1>5, <1>6, <1>7, <1>8, <1>9 DEF BodyStep

(* Cancels, reads and the shutdown.                                        *)
LEMMA CancelHistory ==
    ASSUME IInv,
           \/ \E j \in DOMAIN jobs : CancelOperationJob(j)
           \/ ReadJobs
           \/ EventStreamPoll
           \/ BeginShutdown
           \/ ShutdownStep
    PROVE  HistoryStep
<1>1. jobs = [j \in DOMAIN jobs |-> jobs[j]]
  BY DEF IInv, TypeOK
<1>2. \A js : /\ DOMAIN js = DOMAIN jobs
             /\ js = [j \in DOMAIN js |-> js[j]]
             /\ PublishAndPrune(js)
             /\ ~PruneBumps(js)
             => jobs' = js
  <2> SUFFICES ASSUME NEW js,
                      DOMAIN js = DOMAIN jobs, js = [j \in DOMAIN js |-> js[j]],
                      PublishAndPrune(js), ~PruneBumps(js)
               PROVE  jobs' = js
    OBVIOUS
  <2>1. queue \subseteq DOMAIN js
    BY DEF IInv, QueueIsSound
  <2>2. jobs' = [j \in DOMAIN jobs' |-> js[j]]
    BY <2>1, PublishFacts
  <2>3. DOMAIN jobs' = DOMAIN js
    BY DEF PruneBumps
  <2> QED
    BY <2>2, <2>3
<1>3. ASSUME NEW i \in DOMAIN jobs, CancelOperationJob(i) PROVE HistoryStep
  <2>1. UNCHANGED <<sequence, clients>>
    BY <1>3 DEF CancelOperationJob
  <2>2. CASE jobs[i].state = "queued" \/ jobs[i].running
    <3> DEFINE js == [jobs EXCEPT ![i] = WithCancel(jobs[i])]
    <3>1. PublishAndPrune(js) /\ unsent'
      BY <1>3, <2>2 DEF CancelOperationJob
    <3>2. /\ DOMAIN js = DOMAIN jobs
          /\ js = [j \in DOMAIN js |-> js[j]]
          /\ \A j \in DOMAIN jobs : js[j] = jobs[j] \/ js[j] = WithCancel(jobs[j])
      OBVIOUS
    <3> HIDE DEF js
    <3> QED
      BY <2>1, <3>1, <3>2, CancelIsHistoryStep
  <2>3. CASE ~(jobs[i].state = "queued" \/ jobs[i].running)
    <3>1. PublishAndPrune(jobs) /\ unsent' = (unsent \/ PruneBumps(jobs))
      BY <1>3, <2>3 DEF CancelOperationJob
    <3>2. jobs' # jobs => unsent'
      BY <1>1, <1>2, <3>1
    <3> QED
      BY <1>1, <2>1, <3>1, <3>2, CancelIsHistoryStep
  <2> QED
    BY <2>2, <2>3
<1>4. CASE EventStreamPoll
  <2>1. PublishAndPrune(jobs) /\ UNCHANGED <<sequence, clients>>
    BY <1>4 DEF EventStreamPoll
  <2> QED
    BY <1>1, <1>4, <2>1, CancelIsHistoryStep
<1>a. CASE ReadJobs
  <2>1. /\ PublishAndPrune(jobs)
        /\ unsent' = (unsent \/ PruneBumps(jobs))
        /\ UNCHANGED <<sequence, clients>>
    BY <1>a DEF ReadJobs
  <2>2. jobs' # jobs => unsent'
    BY <1>1, <1>2, <2>1
  <2> QED
    BY <1>1, <2>1, <2>2, CancelIsHistoryStep
<1>5. CASE CancelJobsForShutdown
  <2> DEFINE js == [j \in DOMAIN jobs |->
                      IF j \in Incomplete THEN WithCancel(jobs[j]) ELSE jobs[j]]
  <2>1. /\ PublishAndPrune(js)
        /\ unsent' = (unsent \/ Incomplete # {} \/ PruneBumps(js))
        /\ UNCHANGED <<sequence, clients>>
    BY <1>5 DEF CancelJobsForShutdown, CancelAll
  <2>2. /\ DOMAIN js = DOMAIN jobs
        /\ js = [j \in DOMAIN js |-> js[j]]
        /\ \A j \in DOMAIN jobs : js[j] = jobs[j] \/ js[j] = WithCancel(jobs[j])
    OBVIOUS
  <2>3. Incomplete = {} => js = jobs
    BY <1>1
  <2> HIDE DEF js
  <2>4. jobs' # jobs => unsent'
    BY <1>2, <2>1, <2>2, <2>3
  <2> QED
    BY <2>1, <2>2, <2>4, CancelIsHistoryStep
<1>6. CASE BeginShutdown \/ StopWaiting
  <2>1. UNCHANGED <<jobs, queue, sequence, clients>>
    BY <1>6 DEF BeginShutdown, StopWaiting, scheduler
  <2> QED
    BY <2>1, QuietStep DEF Launching
<1> QED
  BY <1>3, <1>4, <1>a, <1>5, <1>6 DEF ShutdownStep

(* Every step is an admission or one of the steps above.                   *)
LEMMA HistoryStepHolds ==
    ASSUME IInv, Launched, [Next]_vars
    PROVE  (\E c \in Clients : Enqueue(c)) \/ HistoryStep
<1>1. CASE UNCHANGED vars
  <2>1. UNCHANGED <<jobs, queue, sequence, clients>>
    BY <1>1 DEF vars
  <2> QED
    BY <2>1, QuietStep DEF Launching
<1>2. CASE Step
  BY <1>2, ClientHistory, RunnerHistory, BodyHistory, CancelHistory DEF Step
<1> QED
  BY <1>1, <1>2 DEF Next

-----------------------------------------------------------------------------
(* The invariant and the theorems.                                         *)

LEMMA PendingIsFinite ==
    ASSUME TypeOK
    PROVE  IsFiniteSet(Pending) /\ Cardinality(Pending) \in Nat
<1>0. sequence \in Nat
  BY DEF TypeOK
<1>1. IsFiniteSet(1..sequence)
  BY <1>0, FS_Interval
<1>2. Pending \in SUBSET (1..sequence)
  BY DEF Pending, TypeOK
<1> QED
  BY <1>1, <1>2, FS_Subset, FS_CardinalityType

LEMMA HInvInit == Init => HInv
<1> SUFFICES ASSUME Init PROVE HInv
  OBVIOUS
<1>1. DOMAIN jobs = {} /\ queue = {} /\ Launching = {}
  BY DEF Init, Launching
<1>2. Pending = {} /\ Done(jobs) = {}
  BY <1>1 DEF Pending, Done
<1>3. Cardinality(Pending) <= MaxPending
  BY <1>2, FS_EmptySet, LimitsAssumption
<1> QED
  BY <1>1, <1>2, <1>3 DEF HInv, Launched, FewDone

(* A shutdown is never taken back.                                         *)
LEMMA ShutdownStays ==
    ASSUME TypeOK, [Next]_vars, ShuttingDown PROVE ShuttingDown'
<1>1. CASE UNCHANGED vars
  BY <1>1 DEF vars, ShuttingDown
<1>2. CASE Step
  <2>1. UNCHANGED shutdown \/ BeginShutdown \/ ShutdownStep
    BY <1>2 DEF Step, ClientStep, CheckShutdown, Reject, Enqueue, LaunchRunner,
          LaunchRefused, CancelRefused, RunnerStep, RunnerTakes, RunnerEnds,
          RunnerFinishes, BodyStep, UpdateProgress, ActCancelled, ActAborted, ActDone,
          ActEnds, RefreshDone, BodyPanics, RecordPanic, BodyPublishes,
          CancelOperationJob, ReadJobs, EventStreamPoll
  <2> QED
    BY <2>1 DEF BeginShutdown, ShutdownStep, CancelJobsForShutdown, StopWaiting,
          ShuttingDown
<1> QED
  BY <1>1, <1>2 DEF Next

LEMMA EnqueueKeepsHInv ==
    ASSUME IInv, HInv, NEW c \in Clients, Enqueue(c)
    PROVE  HInv'
<1> DEFINE i == sequence + 1
           r == clients[c].request
<1>1. /\ DOMAIN jobs' = DOMAIN jobs \cup {i}
      /\ jobs'[i] = NewJob(r)
      /\ \A j \in DOMAIN jobs : j # i => jobs'[j] = jobs[j]
      /\ queue' = queue \cup {i}
      /\ sequence' = i
      /\ Cardinality(Pending) < MaxPending
      /\ UNCHANGED shutdown
  BY DEF Enqueue, NewNumber
<1>2. /\ sequence \in Nat
      /\ i \notin DOMAIN jobs /\ i \notin queue
      /\ clients \in [Clients -> ClientRecords]
      /\ DOMAIN jobs \subseteq 1..sequence
  BY DEF IInv, TypeOK
<1>3. jobs'[i].state = "queued" /\ ~jobs'[i].running
  BY <1>1 DEF NewJob
<1>4. Launched'
  <2> SUFFICES ASSUME NEW d \in Launching'
               PROVE  /\ clients'[d].job \in 1..sequence'
                      /\ clients'[d].job \in DOMAIN jobs' => Idle(jobs'[clients'[d].job])
    BY DEF Launched
  <2>1. CASE d = c
    <3>1. clients'[c] = [at |-> "launch", job |-> i] \/ clients'[c] = [at |-> "idle"]
      BY <1>2 DEF Enqueue, NewNumber
    <3>2. clients'[c].at \in {"launch", "refused"}
      BY <2>1 DEF Launching
    <3>3. clients'[c].job = i
      BY <3>1, <3>2
    <3> QED
      BY <1>1, <1>2, <1>3, <2>1, <3>3 DEF Idle
  <2>2. CASE d # c
    <3>1. clients'[d] = clients[d] /\ d \in Launching
      BY <1>2, <2>2 DEF Enqueue, Launching
    <3>2. clients[d].job \in 1..sequence
      BY <3>1 DEF HInv, Launched
    <3>3. clients[d].job \in DOMAIN jobs => Idle(jobs[clients[d].job])
      BY <3>1 DEF HInv, Launched
    <3> QED
      BY <1>1, <1>2, <3>1, <3>2, <3>3
  <2> QED
    BY <2>1, <2>2
<1>5. \A j \in DOMAIN jobs' : BusyIsRunning(jobs'[j])
  BY <1>1, <1>2, <1>3 DEF HInv, BusyIsRunning
<1>6. Cardinality(Pending') <= MaxPending
  <2>1. Pending' = Pending \cup {i}
    <3>1. ~Complete(jobs'[i])
      BY <1>3 DEF Complete
    <3>2. \A j \in DOMAIN jobs : jobs'[j] = jobs[j]
      BY <1>1, <1>2
    <3>3. Incomplete' = Incomplete \cup {i}
      BY <1>1, <1>2, <3>1, <3>2 DEF Incomplete
    <3> QED
      BY <1>1, <1>2, <3>3 DEF Pending, Incomplete
  <2>2. i \notin Pending
    BY <1>2 DEF Pending
  <2>3. IsFiniteSet(Pending) /\ Cardinality(Pending) \in Nat
    BY PendingIsFinite DEF IInv
  <2>4. Cardinality(Pending \cup {i}) = Cardinality(Pending) + 1
    BY <2>2, <2>3, FS_AddElement
  <2> QED
    BY <1>1, <2>1, <2>3, <2>4, LimitsAssumption
<1>7. ~ShuttingDown' => FewDone(jobs')
  <2>1. Done(jobs') = Done(jobs)
    BY <1>1, <1>2, <1>3 DEF Done, Complete
  <2>2. \A j \in Done(jobs) : jobs'[j] = jobs[j]
    BY <1>1, <1>2 DEF Done
  <2>3. TypesOf(jobs') = TypesOf(jobs)
    BY <2>1, <2>2 DEF TypesOf
  <2> QED
    BY <1>1, <2>1, <2>3 DEF HInv, FewDone, ShuttingDown
<1> QED
  BY <1>4, <1>5, <1>6, <1>7 DEF HInv

LEMMA HistoryStepKeepsHInv ==
    ASSUME IInv, HInv, HistoryStep, ShuttingDown => ShuttingDown'
    PROVE  HInv'
<1>1. /\ sequence' = sequence
      /\ queue' \subseteq queue
      /\ DOMAIN jobs' \subseteq DOMAIN jobs
      /\ \A j \in DOMAIN jobs' : Keeps(jobs[j], jobs'[j])
  BY DEF HistoryStep, ListKeeps
<1>2. Launched'
  <2> SUFFICES ASSUME NEW d \in Launching'
               PROVE  /\ clients'[d].job \in 1..sequence'
                      /\ clients'[d].job \in DOMAIN jobs' => Idle(jobs'[clients'[d].job])
    BY DEF Launched
  <2>1. d \in Launching /\ clients'[d].job = clients[d].job
    BY DEF HistoryStep
  <2>2. DOMAIN runners = {}
    BY <2>1 DEF IInv, Token
  <2>3. \A j \in DOMAIN jobs' : Idle(jobs[j]) => Idle(jobs'[j])
    BY <2>2 DEF HistoryStep, ListKeeps
  <2>4. /\ clients[d].job \in 1..sequence
        /\ clients[d].job \in DOMAIN jobs => Idle(jobs[clients[d].job])
    BY <2>1 DEF HInv, Launched
  <2> QED
    BY <1>1, <2>1, <2>3, <2>4
<1>3. \A j \in DOMAIN jobs' : BusyIsRunning(jobs'[j])
  BY <1>1 DEF HInv, Keeps
<1>4. Cardinality(Pending') <= MaxPending
  <2>1. Pending' \in SUBSET Pending
    BY <1>1 DEF Pending, Incomplete, Keeps
  <2>2. IsFiniteSet(Pending) /\ Cardinality(Pending) \in Nat
    BY PendingIsFinite DEF IInv
  <2>3. Cardinality(Pending') <= Cardinality(Pending) /\ Cardinality(Pending') \in Nat
    BY <2>1, <2>2, FS_Subset, FS_CardinalityType
  <2> QED
    BY <2>2, <2>3, LimitsAssumption DEF HInv
<1>5. ~ShuttingDown' => FewDone(jobs')
  <2>1. CASE /\ DOMAIN jobs' = DOMAIN jobs
             /\ \A j \in DOMAIN jobs : Complete(jobs'[j]) => Complete(jobs[j])
    <3>1. Done(jobs') = Done(jobs)
      BY <1>1, <2>1 DEF Done, Keeps
    <3>2. \A j \in Done(jobs) : jobs'[j].request = jobs[j].request
      BY <1>1, <2>1 DEF Done, Keeps
    <3>3. TypesOf(jobs') = TypesOf(jobs)
      BY <3>1, <3>2 DEF TypesOf
    <3> QED
      BY <3>1, <3>3 DEF HInv, FewDone
  <2> QED
    BY <2>1 DEF HistoryStep
<1> QED
  BY <1>2, <1>3, <1>4, <1>5 DEF HInv

LEMMA HInvStep == IInv /\ HInv /\ [Next]_vars => HInv'
<1> SUFFICES ASSUME IInv, HInv, [Next]_vars PROVE HInv'
  OBVIOUS
<1>1. ShuttingDown => ShuttingDown'
  BY ShutdownStays DEF IInv
<1>2. Launched
  BY DEF HInv
<1> QED
  BY <1>1, <1>2, HistoryStepHolds, HistoryStepKeepsHInv, EnqueueKeepsHInv

(* Beside IInv the scheduler keeps HInv: nobody starts the job whose        *)
(* admission has yet to launch the runner, busy jobs run, and the queue     *)
(* and the history are bounded.                                            *)
THEOREM HistoryInvariant == Safety => [](IInv /\ HInv)
  BY IInvInit, IInvStep, HInvInit, HInvStep, PTL DEF Safety

(* The scheduler is bounded: at most MaxPending jobs wait, one more runs,   *)
(* and pruning leaves the latest complete jobs and one of each other type.  *)
THEOREM BoundedScheduler == Safety => []SchedulerIsBounded
<1>1. IInv /\ HInv => SchedulerIsBounded
  <2> SUFFICES ASSUME IInv, HInv PROVE SchedulerIsBounded
    OBVIOUS
  <2> DEFINE Executed == {j \in DOMAIN jobs : jobs[j].running}
  <2>1. IsFiniteSet(Pending) /\ Cardinality(Pending) \in Nat
    BY PendingIsFinite DEF IInv
  <2>2. \E x : Executed \in SUBSET {x}
    <3>1. \A i, j \in Executed : i = j
      <4>1. Executed = {runners[w].job : w \in {v \in DOMAIN runners : runners[v].at # "pop"}}
        BY DEF IInv, RunningHasRunner
      <4> HIDE DEF Executed
      <4> QED
        BY <4>1 DEF IInv, Token
    <3> HIDE DEF Executed
    <3>2. CASE Executed = {}
      BY <3>2
    <3>3. CASE Executed # {}
      BY <3>1, <3>3
    <3> QED
      BY <3>2, <3>3
  <2>3. Incomplete \subseteq Pending \cup Executed
    <3> SUFFICES ASSUME NEW j \in Incomplete, ~jobs[j].running PROVE j \in queue
      BY DEF Pending, Incomplete
    <3>1. j \in DOMAIN jobs /\ jobs[j].state = "queued"
      BY DEF Incomplete, Complete, HInv, BusyIsRunning
    <3> QED
      BY <3>1 DEF IInv, Waiting
  <2> HIDE DEF Executed
  <2>4. PICK x : Incomplete \in SUBSET (Pending \cup {x})
    BY <2>2, <2>3
  <2>5. /\ IsFiniteSet(Pending \cup {x})
        /\ Cardinality(Pending \cup {x}) \in Nat
        /\ Cardinality(Pending \cup {x}) <= Cardinality(Pending) + 1
    BY <2>1, FS_AddElement, FS_CardinalityType
  <2>6. Cardinality(Incomplete) <= Cardinality(Pending \cup {x}) /\ Cardinality(Incomplete) \in Nat
    BY <2>4, <2>5, FS_Subset, FS_CardinalityType
  <2>7. Cardinality(Incomplete) <= MaxPending + 1
    BY <2>1, <2>5, <2>6, LimitsAssumption DEF HInv
  <2>8. DOMAIN jobs \ Incomplete = Done(jobs)
    BY DEF Incomplete, Done
  <2> QED
    BY <2>7, <2>8 DEF SchedulerIsBounded, HInv, FewDone, TypesOf
<1> QED
  BY <1>1, HistoryInvariant, PTL

(* The action properties hold of an admission, which changes no earlier    *)
(* job, and of every other step.                                           *)
LEMMA StepsKeepJobs ==
    ASSUME IInv, HInv, [Next]_vars
    PROVE  /\ \A j \in DOMAIN jobs \cap DOMAIN jobs' : Keeps(jobs[j], jobs'[j])
           /\ \A j \in DOMAIN jobs \ DOMAIN jobs' :
                 \E k \in DOMAIN jobs' : /\ k > j
                                         /\ jobs'[k].request.type = jobs[j].request.type
                                         /\ Complete(jobs'[k])
           /\ jobs' # jobs => unsent' \/ EventStreamPoll
<1>1. ASSUME NEW c \in Clients, Enqueue(c)
      PROVE  /\ \A j \in DOMAIN jobs \cap DOMAIN jobs' : jobs'[j] = jobs[j]
             /\ DOMAIN jobs \ DOMAIN jobs' = {}
             /\ unsent'
  <2>1. sequence + 1 \notin DOMAIN jobs
    BY DEF IInv, TypeOK
  <2> QED
    BY <1>1, <2>1 DEF Enqueue, NewNumber
<1>2. CASE \E c \in Clients : Enqueue(c)
  BY <1>1, <1>2, KeepsItself
<1>3. CASE HistoryStep
  BY <1>3 DEF HistoryStep, ListKeeps
<1> QED
  BY <1>2, <1>3, HistoryStepHolds DEF HInv

(* Only the job whose body has panicked is touched by the record of it.    *)
LEMMA PanicIsItsOwn ==
    ASSUME IInv, NEW w \in DOMAIN runners, RecordPanic(w),
           NEW j \in DOMAIN jobs, jobs'[j] # jobs[j]
    PROVE  runners[w] = [at |-> "panic", job |-> j]
<1>1. runners[w].at = "panic"
  BY DEF RecordPanic, InBody
<1>2. runners[w] \in [at : {"act", "refresh", "panic", "end"}, job : Nat]
  BY <1>1, RunnerJob DEF IInv
<1>3. runners[w].job = j
  BY DEF RecordPanic, BodyPublishes, Mutate
<1> QED
  BY <1>1, <1>2, <1>3

(* An outcome is final from the moment it is published: neither a late     *)
(* cancel nor the queue runner nor a refused launch rewrites it, and the   *)
(* one exception is a panic in the inventory refresh of a job that is      *)
(* shown as cancelled.                                                     *)
THEOREM FinalOutcomes == Safety => OutcomeIsFinal
<1>1. ASSUME IInv, HInv, [Next]_vars,
             NEW j \in DOMAIN jobs \cap DOMAIN jobs', jobs[j].state \in OutcomeStates
      PROVE  /\ jobs'[j].running => jobs[j].running
             /\ \/ jobs'[j].state = jobs[j].state
                \/ /\ jobs[j].state = "cancelled" /\ jobs'[j].state = "failed"
                   /\ \E w \in DOMAIN runners : runners[w] = [at |-> "panic", job |-> j]
  <2>1. Keeps(jobs[j], jobs'[j])
    BY <1>1, StepsKeepJobs
  <2>2. CASE jobs'[j].state = jobs[j].state
    BY <1>1, <2>1, <2>2 DEF Keeps
  <2>3. CASE jobs'[j].state # jobs[j].state
    <3>1. /\ jobs'[j].running => jobs[j].running
          /\ jobs[j].state = "cancelled" /\ jobs'[j].state = "failed"
          /\ Panicked
      BY <1>1, <2>1, <2>3 DEF Keeps
    <3>2. PICK w \in DOMAIN runners : RecordPanic(w)
      BY <3>1 DEF Panicked
    <3> QED
      BY <1>1, <2>3, <3>1, <3>2, PanicIsItsOwn
  <2> QED
    BY <2>2, <2>3
<1>2. IInv /\ HInv /\ [Next]_vars =>
         [\A j \in DOMAIN jobs \cap DOMAIN jobs' :
             jobs[j].state \in OutcomeStates =>
                /\ jobs'[j].running => jobs[j].running
                /\ \/ jobs'[j].state = jobs[j].state
                   \/ /\ jobs[j].state = "cancelled" /\ jobs'[j].state = "failed"
                      /\ \E w \in DOMAIN runners :
                            runners[w] = [at |-> "panic", job |-> j]]_vars
  BY <1>1
<1> QED
  BY <1>2, HistoryInvariant, PTL DEF Safety, OutcomeIsFinal

(* An update that was cancelled, or caught by a shutdown, while it was      *)
(* still working never goes on to report success.                          *)
THEOREM CancelledUpdatesFail == Safety => CancelledUpdateNeverSucceeds
<1>1. IInv /\ HInv /\ [Next]_vars =>
         [\A j \in DOMAIN jobs \cap DOMAIN jobs' :
             /\ jobs[j].request.type \in UpdateTypes \cup {"inventory-refresh"}
             /\ jobs[j].state \notin OutcomeStates
             /\ ContextDone(jobs[j])
             => jobs'[j].state \notin {"succeeded", "accepted_not_verified"}]_vars
  BY StepsKeepJobs DEF Keeps
<1> QED
  BY <1>1, HistoryInvariant, PTL DEF Safety, CancelledUpdateNeverSucceeds

(* Pruning removes a job only when a later, complete job of its type stays. *)
THEOREM LatestJobsStay == Safety => PruningKeepsLatest
<1>1. IInv /\ HInv /\ [Next]_vars =>
         [\A j \in DOMAIN jobs \ DOMAIN jobs' :
             \E k \in DOMAIN jobs' :
                /\ k > j
                /\ jobs'[k].request.type = jobs[j].request.type
                /\ Complete(jobs'[k])]_vars
  BY StepsKeepJobs
<1> QED
  BY <1>1, HistoryInvariant, PTL DEF Safety, PruningKeepsLatest

(* Every change of the job list moves the revision, so that the event       *)
(* stream sends it.                                                        *)
THEOREM ChangesAreAnnounced == Safety => StreamSeesEveryChange
<1>1. IInv /\ HInv /\ [Next]_vars =>
         [jobs' # jobs => unsent' \/ EventStreamPoll]_vars
  BY StepsKeepJobs
<1> QED
  BY <1>1, HistoryInvariant, PTL DEF Safety, StreamSeesEveryChange

=============================================================================
