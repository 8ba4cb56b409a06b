------------------------- MODULE PackageUpdatesProofs -------------------------
(***************************************************************************)
(* Mutual exclusion of package commands for every number of processes and  *)
(* goroutines; the job body, its elevated worker and the scheduled task    *)
(* use the locks that way; and what they tell of their packages is true    *)
(* and complete, for every list of packages, every kind of them, and any   *)
(* deaths, cancels and command outputs.                                    *)
(***************************************************************************)
EXTENDS PackageUpdates, FunctionTheorems, FiniteSetTheorems, SequenceTheorems, TLAPS

(***************************************************************************)
(* The locks.                                                              *)
(***************************************************************************)

LEMMA HomeIsAProcess == \A t \in Threads : Home[t] \in Processes
    BY DEF Processes

LEMMA InitOwnership == LockInit => LockOwnership
    BY LockAssumption, HomeIsAProcess
       DEF LockInit, LockOwnership, LockTypes, Owns, Places, InMutex, Inside

\* One case for each operation of the lock.
LEMMA ThreadKeepsOwnership ==
    ASSUME LockOwnership, NEW t \in Threads, LockStep(t)
    PROVE  LockOwnership'
<1> USE LockAssumption, HomeIsAProcess DEF Places, InMutex, Inside, Moves, LockTypes
<1>0. SUFFICES LockTypes' /\ \A u \in Threads : Owns(u)'
    BY DEF LockOwnership
<1>t. LockTypes /\ Owns(t)
    BY DEF LockOwnership
<1>1. CASE Ask(t)
  <2>1. LockTypes'
    BY <1>1, <1>t DEF Ask
  <2>2. ASSUME NEW u \in Threads PROVE Owns(u)'
    <3>1. Owns(u)
      BY DEF LockOwnership
    <3> QED
      BY <1>1, <1>t, <3>1 DEF Ask, Owns
  <2> QED
    BY <2>1, <2>2
<1>2. CASE TakeMutex(t)
  <2>1. LockTypes'
    BY <1>2, <1>t DEF TakeMutex
  <2>2. ASSUME NEW u \in Threads PROVE Owns(u)'
    <3>1. Owns(u)
      BY DEF LockOwnership
    <3> QED
      BY <1>2, <1>t, <3>1 DEF TakeMutex, Owns
  <2> QED
    BY <2>1, <2>2
<1>3. CASE TakeNamed(t, TRUE)
  <2>1. LockTypes'
    BY <1>3, <1>t DEF TakeNamed
  <2>2. ASSUME NEW u \in Threads PROVE Owns(u)'
    <3>1. Owns(u)
      BY DEF LockOwnership
    <3> QED
      BY <1>3, <1>t, <3>1 DEF TakeNamed, Owns
  <2> QED
    BY <2>1, <2>2
<1>4. CASE TakeNamed(t, FALSE)
  <2>1. LockTypes'
    BY <1>4, <1>t DEF TakeNamed
  <2>2. ASSUME NEW u \in Threads PROVE Owns(u)'
    <3>1. Owns(u)
      BY DEF LockOwnership
    <3> QED
      BY <1>4, <1>t, <3>1 DEF TakeNamed, Owns
  <2> QED
    BY <2>1, <2>2
<1>5. CASE TakeWinget(t)
  <2>1. LockTypes'
    BY <1>5, <1>t DEF TakeWinget
  <2>2. ASSUME NEW u \in Threads PROVE Owns(u)'
    <3>1. Owns(u)
      BY DEF LockOwnership
    <3> QED
      BY <1>5, <1>t, <3>1 DEF TakeWinget, Owns
  <2> QED
    BY <2>1, <2>2
<1>6. CASE GiveUp(t)
  <2>0. UNCHANGED <<alive, mutex, winget, named, tree>>
    BY <1>6 DEF GiveUp
  <2>1. PICK from \in {"mutex", "named", "winget"}, to \in {"out", "unlock mutex", "unlock named"} :
          /\ Moves(t, from, to)
          /\ from = "mutex" => to = "out"
          /\ from = "named" => to = "unlock mutex"
          /\ from = "winget" => to = "unlock named"
    BY <1>6 DEF GiveUp
  <2>2. LockTypes'
    BY <2>0, <2>1, <1>t
  <2>3. ASSUME NEW u \in Threads PROVE Owns(u)'
    <3>1. Owns(u)
      BY DEF LockOwnership
    <3> QED
      BY <2>0, <2>1, <1>t, <3>1 DEF Owns
  <2> QED
    BY <2>2, <2>3
<1>7. CASE Launch(t)
  <2>1. LockTypes'
    BY <1>7, <1>t DEF Launch
  <2>2. ASSUME NEW u \in Threads PROVE Owns(u)'
    <3>1. Owns(u)
      BY DEF LockOwnership
    <3> QED
      BY <1>7, <1>t, <3>1 DEF Launch, Owns
  <2> QED
    BY <2>1, <2>2
<1>8. CASE LaunchFails(t)
  <2>1. LockTypes'
    BY <1>8, <1>t DEF LaunchFails
  <2>2. ASSUME NEW u \in Threads PROVE Owns(u)'
    <3>1. Owns(u)
      BY DEF LockOwnership
    <3> QED
      BY <1>8, <1>t, <3>1 DEF LaunchFails, Owns
  <2> QED
    BY <2>1, <2>2
<1>9. CASE CommandReturns(t)
  <2>1. LockTypes'
    BY <1>9, <1>t DEF CommandReturns
  <2>2. ASSUME NEW u \in Threads PROVE Owns(u)'
    <3>1. Owns(u)
      BY DEF LockOwnership
    <3> QED
      BY <1>9, <1>t, <3>1 DEF CommandReturns, Owns
  <2> QED
    BY <2>1, <2>2
<1>10. CASE CloseJob(t)
  <2>1. LockTypes'
    BY <1>10, <1>t DEF CloseJob
  <2>2. ASSUME NEW u \in Threads PROVE Owns(u)'
    <3>1. Owns(u)
      BY DEF LockOwnership
    <3> QED
      BY <1>10, <1>t, <3>1 DEF CloseJob, Owns
  <2> QED
    BY <2>1, <2>2
<1>11. CASE UnlockWinget(t)
  <2>1. LockTypes'
    BY <1>11, <1>t DEF UnlockWinget
  <2>2. ASSUME NEW u \in Threads PROVE Owns(u)'
    <3>1. Owns(u)
      BY DEF LockOwnership
    <3> QED
      BY <1>11, <1>t, <3>1 DEF UnlockWinget, Owns
  <2> QED
    BY <2>1, <2>2
<1>12. CASE UnlockNamed(t)
  <2>1. LockTypes'
    BY <1>12, <1>t DEF UnlockNamed
  <2>2. ASSUME NEW u \in Threads PROVE Owns(u)'
    <3>1. Owns(u)
      BY DEF LockOwnership
    <3> QED
      BY <1>12, <1>t, <3>1 DEF UnlockNamed, Owns
  <2> QED
    BY <2>1, <2>2
<1>13. CASE UnlockMutex(t)
  <2>1. LockTypes'
    BY <1>13, <1>t DEF UnlockMutex
  <2>2. ASSUME NEW u \in Threads PROVE Owns(u)'
    <3>1. Owns(u)
      BY DEF LockOwnership
    <3> QED
      BY <1>13, <1>t, <3>1 DEF UnlockMutex, Owns
  <2> QED
    BY <2>1, <2>2
<1>14. CASE AbandonMutex(t)
  <2>1. LockTypes'
    BY <1>14, <1>t DEF AbandonMutex
  <2>2. ASSUME NEW u \in Threads PROVE Owns(u)'
    <3>1. Owns(u)
      BY DEF LockOwnership
    <3> QED
      BY <1>14, <1>t, <3>1 DEF AbandonMutex, Owns
  <2> QED
    BY <2>1, <2>2
<1>15. CASE KillTree(t)
  <2>1. LockTypes'
    BY <1>15, <1>t DEF KillTree
  <2>2. ASSUME NEW u \in Threads PROVE Owns(u)'
    <3>1. Owns(u)
      BY DEF LockOwnership
    <3> QED
      BY <1>15, <1>t, <3>1 DEF KillTree, Owns
  <2> QED
    BY <2>1, <2>2
<1> QED
    BY <1>1, <1>2, <1>3, <1>4, <1>5, <1>6, <1>7, <1>8,
       <1>9, <1>10, <1>11, <1>12, <1>13, <1>14, <1>15 DEF LockStep

LEMMA ProcessKeepsOwnership ==
    ASSUME LockOwnership, NEW p \in Processes, ProcessDies(p) \/ JobTerminated(p) \/ ProcessStarts(p)
    PROVE  LockOwnership'
<1> USE LockAssumption, HomeIsAProcess DEF Places, InMutex, Inside, LockTypes
<1>0. SUFFICES LockTypes' /\ \A u \in Threads : Owns(u)'
    BY DEF LockOwnership
<1>t. LockTypes
    BY DEF LockOwnership
<1>1. CASE ProcessDies(p)
  <2>1. LockTypes'
    BY <1>1, <1>t DEF ProcessDies
  <2>2. ASSUME NEW u \in Threads PROVE Owns(u)'
    <3>1. Owns(u)
      BY DEF LockOwnership
    <3> QED
      BY <1>1, <1>t, <3>1 DEF ProcessDies, Owns
  <2> QED
    BY <2>1, <2>2
<1>2. CASE ProcessStarts(p)
  <2>1. LockTypes'
    BY <1>2, <1>t DEF ProcessStarts
  <2>2. ASSUME NEW u \in Threads PROVE Owns(u)'
    <3>1. Owns(u)
      BY DEF LockOwnership
    <3> QED
      BY <1>2, <1>t, <3>1 DEF ProcessStarts, Owns
  <2> QED
    BY <2>1, <2>2
<1>3. CASE JobTerminated(p)
  <2>1. LockTypes'
    BY <1>3, <1>t DEF JobTerminated
  <2>2. ASSUME NEW u \in Threads PROVE Owns(u)'
    <3>1. Owns(u)
      BY DEF LockOwnership
    <3> QED
      BY <1>3, <1>t, <3>1 DEF JobTerminated, Owns
  <2> QED
    BY <2>1, <2>2
<1> QED
    BY <1>1, <1>2, <1>3

LEMMA LocksKeepOwnership == LockOwnership /\ [LockNext]_lockVars => LockOwnership'
<1> SUFFICES ASSUME LockOwnership, [LockNext]_lockVars PROVE LockOwnership'
    OBVIOUS
<1>1. CASE UNCHANGED lockVars
    BY <1>1 DEF lockVars, LockOwnership, LockTypes, Owns
<1>2. CASE LockNext
    BY <1>2, ThreadKeepsOwnership, ProcessKeepsOwnership DEF LockNext
<1> QED
    BY <1>1, <1>2

\* Whoever owns the machine-wide mutex is the only one in a living process
\* whose command may have processes.
LEMMA OwnershipExcludes == LockOwnership => OneMutation
    BY DEF LockOwnership, LockTypes, Owns, OneMutation, Inside

\* The places of the commands and the owners of the locks always agree
\* (the structure that runCommandSpec and Acquire keep with their defers).
THEOREM OwnershipAlways == LockSpec => []LockOwnership
    BY InitOwnership, LocksKeepOwnership, PTL DEF LockSpec

\* No two package commands of PatchBoard change packages at the same time,
\* the elevated worker and the scheduled task included.
THEOREM MutationsAreExclusive == LockSpec => []OneMutation
    BY OwnershipAlways, OwnershipExcludes, PTL

-----------------------------------------------------------------------------
(***************************************************************************)
(* Jobs, worker and scheduled task use the locks as MutationLock says.     *)
(***************************************************************************)

LEMMA NamedThreads == Body \in Threads /\ Task \in Threads /\ Worker \in Threads
    BY UpdatesAssumption

\* What one thread does with a package changes the locks by a step of its own
\* command, or not at all.
LEMMA StepUsesLocks ==
    ASSUME NEW t \in Threads, Step(t)
    PROVE  [LockNext]_lockVars
<1>1. CASE BeginCommand(t)
    BY <1>1 DEF BeginCommand, LockNext, LockStep, lockVars
<1>2. CASE Acquire(t)
  <2>1. LockStep(t)
    BY <1>2 DEF Acquire, LockStep, NeedsWinget, TakeNamed, Moves
  <2> QED
    BY <2>1 DEF LockNext
<1>3. CASE CommandFails(t)
    BY <1>3 DEF CommandFails, LockNext, LockStep
<1>4. CASE CommandEnds(t)
    BY <1>4 DEF CommandEnds, LockNext, LockStep
<1>5. CASE Release(t)
    BY <1>5 DEF Release, LockNext, LockStep
<1>6. CASE Decide(t)
    BY <1>6 DEF Decide
<1>7. CASE NextPackage(t)
    BY <1>7 DEF NextPackage
<1> QED
    BY <1>1, <1>2, <1>3, <1>4, <1>5, <1>6, <1>7 DEF Step

\* The job body, its worker's start and its worker's end.
LEMMA BodyUsesLocks == ASSUME BodyStep PROVE [LockNext]_lockVars
<1> USE NamedThreads, HomeIsAProcess
<1>1. CASE Step(Body)
    BY <1>1, StepUsesLocks
<1>2. CASE LaunchWorker
    BY <1>2 DEF LaunchWorker, LockNext
<1>3. ASSUME NEW r, NEW results, EndCall(r, results) PROVE LockNext
    BY <1>3 DEF EndCall, LockNext
<1>4. CASE LaunchRefused \/ ConnectFails \/ TakeReply \/ WorkerLost \/ AckTimesOut
    BY <1>4, <1>3 DEF LaunchRefused, ConnectFails, TakeReply, WorkerLost, AckTimesOut, Failure
<1>5. CASE Preflight \/ Conclude \/ LookAgain \/ Returned \/ SignalCancel
    BY <1>5 DEF Preflight, Conclude, LookAgain, Returned, SignalCancel
<1> QED
    BY <1>1, <1>2, <1>4, <1>5 DEF BodyStep

\* Every step of the updates is a step of the locks or leaves them alone.
LEMMA NextUsesLocks == ASSUME [Next]_vars PROVE [LockNext]_lockVars
<1> USE NamedThreads, HomeIsAProcess
<1>1. CASE BodyStep
    BY <1>1, BodyUsesLocks
<1>2. CASE WorkerStep
  <2>1. CASE Step(Worker)
    BY <2>1, StepUsesLocks
  <2>2. CASE WorkerReceives \/ WorkerAnswers \/ SeeCancel
    BY <2>2 DEF WorkerReceives, WorkerAnswers, SeeCancel
  <2> QED
    BY <1>2, <2>1, <2>2 DEF WorkerStep
<1>3. CASE Step(Task)
    BY <1>3, StepUsesLocks
<1>4. CASE OwnerGone
    BY <1>4 DEF OwnerGone, LockNext
<1>5. ASSUME NEW t \in Threads, Cancel(t) \/ System(t) PROVE [LockNext]_lockVars
    BY <1>5 DEF Cancel, System, LockNext, LockStep
<1>6. ASSUME NEW p \in Processes, Die(p) PROVE [LockNext]_lockVars
    BY <1>6 DEF Die, LockNext
<1>7. CASE UNCHANGED vars
    BY <1>7 DEF vars
<1> QED
    BY <1>1, <1>2, <1>3, <1>4, <1>5, <1>6, <1>7 DEF Next

\* The updates implement the locks: only the waits and releases that
\* Acquire and runCommandSpec have ever move them.
THEOREM UpdatesUseLocks == Spec => LockSpec
<1>1. Init => LockInit
    BY DEF Init
<1>2. [Next]_vars => [LockNext]_lockVars
    BY NextUsesLocks
<1> QED
    BY <1>1, <1>2, PTL DEF Spec, LockSpec

\* A job, its elevated worker and the scheduled task never change packages at
\* the same time, however their processes die and whatever is cancelled.
THEOREM UpdatesAreExclusive == Spec => []OneMutation
    BY UpdatesUseLocks, MutationsAreExclusive, PTL

-----------------------------------------------------------------------------
(***************************************************************************)
(* The invariant.                                                          *)
(***************************************************************************)

Results == [ok : BOOLEAN, code : Codes, says : SUBSET Signs]
Entries == [package : Packages, ok : BOOLEAN, code : Codes, says : SUBSET Signs]
Attempts ==
    [package : Packages, target : Nat,
     step : {"plain", "unknown", "pinned", "force", "install", "bare", "msstore"},
     options : SUBSET {"unknown", "pinned", "force"},
     phase : {"first", "source update", "source reset", "again", "retry"},
     try : Nat, command : SUBSET Signs, plan : SUBSET Signs, earlier : SUBSET Signs]
BodyPlaces ==
    {"preflight", "loop", "command", "look again", "worker", "returned", "refresh", "ended"}
WorkerPlaces == {"absent", "connecting", "loop", "command", "answer", "answered"}
TaskPlaces == {"loop", "command", "ended"}
PlacesOf(t) == IF t = Body THEN BodyPlaces ELSE IF t = Worker THEN WorkerPlaces ELSE TaskPlaces
Runs ==
    [pc : BodyPlaces \cup WorkerPlaces, live : BOOLEAN, todo : Seq(Packages),
     results : Seq(Entries), doing : Attempts \cup {NoResult}, got : Results \cup {NoResult},
     again : BOOLEAN, before : SUBSET Signs]
Replies == [result : Results, results : Seq(Entries)]
Calls ==
    [at : {"none", "launching", "accepting", "exchanging", "acking"},
     packages : Seq(Packages), batch : BOOLEAN, cancelled : BOOLEAN,
     reply : Replies \cup {NoResult}]
Jobs ==
    [rest : Seq(Packages),
     state : {"running", "cancelled", "not verified", "failed", "succeeded"},
     found : [Packages -> Packages]]

\* What the place of thread t's run r says about its other fields.
KnowsItsPackage(r, t) ==
    /\ r.pc \in PlacesOf(t)
    /\ r.pc = "command" =>
         r.doing \in Attempts /\ r.todo # << >> /\ Head(r.todo) = r.doing.package
    /\ r.pc \in {"look again", "returned"} => r.todo # << >> /\ r.got \in Results
    /\ r.pc \in {"refresh", "ended", "answer", "answered"} => r.todo = << >>

\* The text of a refusal is never taken along.
RefusalEnds(r) ==
    /\ "consent" \notin r.before
    /\ r.pc = "command" =>
         /\ "consent" \notin r.doing.plan \cup r.doing.earlier \cup r.doing.command
         /\ r.got # NoResult => "consent" \notin r.got.says
    /\ r.pc = "look again" => "consent" \notin r.got.says

\* Every success that has been noted is one of the packages in `done`.
Earned(results, done) == \A i \in 1 .. Len(results) : results[i].ok => results[i].package \in done
RunIsEarned(r, done) ==
    /\ r.live => Earned(r.results, done)
    /\ r.pc = "command" =>
         (r.got # NoResult /\ Succeeds(r.doing, r.got) => r.doing.package \in done)
    /\ r.pc = "look again" => ~r.got.ok
    /\ r.pc = "returned" /\ r.live /\ r.got.ok => Head(r.todo) \in done

RunIsSound(r, t, done) ==
    r \in Runs /\ KnowsItsPackage(r, t) /\ RefusalEnds(r) /\ RunIsEarned(r, done)
RunsAreSound == \A t \in Threads : RunIsSound(run[t], t, earned)

UpdatesTypes ==
    /\ machine \in Machines
    /\ deaths \in Nat
    /\ run \in [Threads -> Runs]
    /\ call \in Calls
    /\ job \in Jobs
    /\ earned \subseteq Packages

\* Whoever owns a lock or has processes is at a command.
CommandsAreInRuns ==
    \A t \in Threads : at[t] # "out" \/ tree[t] => run[t].pc = "command"

\* `results` and then `todo` go through `packages` in their order.
Follows(results, todo, packages) ==
    /\ Len(results) + Len(todo) = Len(packages)
    /\ \A i \in 1 .. Len(results) : results[i].package = packages[i]
    /\ \A i \in 1 .. Len(todo) : todo[i] = packages[Len(results) + i]
Begins(results, packages) ==
    /\ Len(results) <= Len(packages)
    /\ \A i \in 1 .. Len(results) : results[i].package = packages[i]
Interrupted(results) == \E i \in 1 .. Len(results) : results[i].code = "cancelled"

\* How far the worker has come with the call, and what it has told.
CallKnowsWorker ==
    /\ call.at = "none" => call = NoCall
    /\ call.at # "none" => run[Body].pc = "worker"
    /\ call.at \in {"none", "launching"} => run[Worker].pc = "absent"
    /\ call.at = "accepting" => run[Worker].pc = "connecting"
    /\ call.at \in {"exchanging", "acking"} =>
         run[Worker].pc \in {"loop", "command", "answer", "answered"}
    /\ call.reply # NoResult => run[Worker].pc = "answered"
    /\ call.cancelled => ~run[Body].live
    /\ ~run[Worker].live => call.cancelled
    /\ call.at # "none" =>
         /\ call.packages # << >> /\ run[Body].todo # << >>
         /\ call.batch => call.packages = run[Body].todo
         /\ ~call.batch => call.packages = <<Head(run[Body].todo)>>

WorkerFollowsCall ==
    LET w == run[Worker]
    IN /\ w.pc \in {"loop", "command"} =>
            Follows(w.results, w.todo, call.packages)
       /\ w.pc = "answer" =>
            /\ Begins(w.results, call.packages)
            /\ w.results = << >> => ~w.live /\ call.batch
            /\ call.batch => \/ Len(w.results) = Len(call.packages)
                             \/ ~w.live \/ Interrupted(w.results)
       /\ call.reply # NoResult =>
            /\ Begins(call.reply.results, call.packages)
            /\ call.reply.results = << >> => ~call.reply.result.ok
            /\ call.batch => \/ Len(call.reply.results) = Len(call.packages)
                             \/ StopReason(call.reply.result)
                             \/ Interrupted(call.reply.results)

\* So are the successes the worker tells.
ReplyIsEarned ==
    call.reply # NoResult /\ run[Body].live =>
        /\ Earned(call.reply.results, earned)
        /\ ~call.batch /\ call.reply.result.ok => Head(run[Body].todo) \in earned

\* Every package asked for, once, in some order.
IsListing(order, asked) ==
    /\ order \in Seq(Packages)
    /\ \A i, j \in 1 .. Len(order) : order[i] = order[j] => i = j
    /\ {order[i] : i \in 1 .. Len(order)} = {asked[i] : i \in 1 .. Len(asked)}

\* The packages told and those left: as long as nothing is cancelled they
\* are the job's.
PackagesOf(results) == [i \in 1 .. Len(results) |-> results[i].package]
Remaining == IF run[Body].pc = "worker" /\ call.batch THEN run[Body].todo \o job.rest
                                                      ELSE run[Body].todo
Order == PackagesOf(run[Body].results) \o Remaining
Undisturbed ==
    /\ job.state # "cancelled" /\ ~Interrupted(run[Body].results)
    /\ run[Body].live \/ run[Body].pc = "ended"
    /\ run[Body].pc = "worker" => call.at # "none"
EveryPackageIsTold ==
    /\ run[Body].pc = "preflight" => run[Body].results = << >> /\ run[Body].todo = machine.job
    /\ Undisturbed => IsListing(Order, machine.job)

\* What relates the runs to the call and to the job.
Related ==
    /\ CallKnowsWorker /\ WorkerFollowsCall /\ ReplyIsEarned
    /\ EveryPackageIsTold

UpdatesInvariant ==
    LockOwnership /\ UpdatesTypes /\ RunsAreSound /\ CommandsAreInRuns /\ Related

-----------------------------------------------------------------------------
(***************************************************************************)
(* The lists the model builds.                                             *)
(***************************************************************************)

\* Counting the members of a set of places up to each of them numbers them.
LEMMA PlacesAreRanked ==
    ASSUME NEW m \in Nat, NEW places \in SUBSET (1 .. m)
    PROVE  /\ IsFiniteSet(places) /\ Cardinality(places) \in Nat
           /\ \A i \in places :
                Cardinality({j \in places : j <= i}) \in 1 .. Cardinality(places)
           /\ \A i, k \in places :
                Cardinality({j \in places : j <= i}) = Cardinality({j \in places : j <= k}) => i = k
           /\ \A k \in 1 .. Cardinality(places) :
                \E i \in places : Cardinality({j \in places : j <= i}) = k
<1> DEFINE UpTo(i) == {j \in places : j <= i}
           Rank(i) == Cardinality(UpTo(i))
           n == Cardinality(places)
           f == [i \in places |-> Rank(i)]
<1>2. places \subseteq 1 .. m /\ IsFiniteSet(places) /\ n \in Nat
  <2>1. IsFiniteSet(1 .. m)
    BY FS_Interval
  <2> QED
    BY <2>1, FS_Subset, FS_CardinalityType
<1>a. \A x, y \in Nat : x <= y /\ x # 0 => x \in 1 .. y
    OBVIOUS
<1>3. ASSUME NEW i \in places
      PROVE  /\ IsFiniteSet(UpTo(i))
             /\ Rank(i) \in Nat /\ Rank(i) <= n /\ Rank(i) # 0 /\ Rank(i) \in 1 .. n
  <2>1. UpTo(i) \in SUBSET places /\ i \in UpTo(i)
    BY <1>2
  <2>2. IsFiniteSet(UpTo(i)) /\ Rank(i) \in Nat /\ Rank(i) <= n
    BY <2>1, <1>2, FS_Subset, FS_CardinalityType
  <2>3. Rank(i) # 0
    BY <2>1, <2>2, FS_EmptySet
  <2> HIDE DEF Rank, n
  <2>4. Rank(i) \in 1 .. n
    BY <2>2, <2>3, <1>2, <1>a
  <2> QED
    BY <2>2, <2>3, <2>4
<1>4. ASSUME NEW i \in places, NEW j \in places, i < j
      PROVE  Rank(i) # Rank(j)
  <2>0. i \in Int /\ j \in Int /\ \A k \in places : k \in Int
    BY <1>2
  <2>a. (\A k \in places : k <= i => k <= j) /\ j <= j /\ ~(j <= i)
    BY <2>0, <1>4
  <2>1. UpTo(i) \in SUBSET UpTo(j) /\ j \in UpTo(j) /\ j \notin UpTo(i)
    BY <2>a
  <2>2. UpTo(i) # UpTo(j)
    BY <2>1
  <2> QED
    BY <2>1, <2>2, <1>3, FS_Subset
<1>5. \A i, j \in places : Rank(i) = Rank(j) => i = j
  <2> SUFFICES ASSUME NEW i \in places, NEW j \in places, i # j PROVE Rank(i) # Rank(j)
    OBVIOUS
  <2>1. i \in Int /\ j \in Int
    BY <1>2
  <2>2. i < j \/ j < i
    BY <2>1
  <2> QED
    BY <2>2, <1>4
<1>6. \A k \in 1 .. n : \E i \in places : Rank(i) = k
  <2>1. \A i \in places : Rank(i) \in 1 .. n
    BY <1>3
  <2>2. f \in [places -> 1 .. n]
    BY <2>1
  <2>3. f \in Injection(places, 1 .. n)
    BY <2>2, <1>5 DEF Injection, IsInjective
  <2>4. IsFiniteSet(1 .. n) /\ Cardinality(1 .. n) = n
    BY <1>2, FS_Interval
  <2>5. f \in Surjection(places, 1 .. n)
    BY <2>3, <2>4, FS_Injection
  <2> QED
    BY <2>5 DEF Surjection
<1> QED
    BY <1>2, <1>3, <1>5, <1>6

LEMMA LeastPlace ==
    ASSUME NEW m \in Nat, NEW places \in SUBSET (1 .. m), places # {}
    PROVE  \E i \in places : \A j \in places : i <= j
<1>1. IsFiniteSet(places) /\ Cardinality(places) \in Nat
    BY PlacesAreRanked
<1>2. Cardinality(places) # 0
    BY <1>1, FS_EmptySet
<1>3. 1 \in 1 .. Cardinality(places)
    BY <1>1, <1>2
<1>a. \A k \in 1 .. Cardinality(places) :
        \E i \in places : Cardinality({j \in places : j <= i}) = k
    BY PlacesAreRanked
<1>4. PICK i \in places : Cardinality({j \in places : j <= i}) = 1
    BY <1>3, <1>a
<1> DEFINE upTo == {j \in places : j <= i}
<1>5. IsFiniteSet(upTo) /\ i \in upTo
  <2>1. upTo \in SUBSET places
    OBVIOUS
  <2> QED
    BY <1>1, <2>1, FS_Subset
<1>6. \A j \in upTo : j = i
  <2>1. Cardinality(upTo) = 1
    BY <1>4
  <2> HIDE DEF upTo
  <2> QED
    BY <2>1, <1>5, FS_Singleton
<1>7. ASSUME NEW j \in places PROVE i <= j
  <2>1. i \in Int /\ j \in Int
    OBVIOUS
  <2>2. j <= i => j = i
    BY <1>6
  <2> QED
    BY <2>1, <2>2
<1> QED
    BY <1>7

\* The place of a chosen member among the chosen ones counts up from 1 to
\* their number, so Only takes each of them once.
LEMMA OnlyTakes ==
    ASSUME NEW s \in Seq(Packages), NEW S
    PROVE  /\ Only(s, S) \in Seq(Packages)
           /\ \A k \in 1 .. Len(Only(s, S)) :
                \E i \in 1 .. Len(s) : s[i] \in S /\ Only(s, S)[k] = s[i]
           /\ \A i \in 1 .. Len(s) :
                s[i] \in S => \E k \in 1 .. Len(Only(s, S)) : Only(s, S)[k] = s[i]
           /\ (\A i, j \in 1 .. Len(s) : s[i] = s[j] => i = j)
                => \A j, k \in 1 .. Len(Only(s, S)) : Only(s, S)[j] = Only(s, S)[k] => j = k
<1> DEFINE places == {i \in DOMAIN s : s[i] \in S}
           UpTo(i) == {j \in places : j <= i}
           Rank(i) == Cardinality(UpTo(i))
           n == Cardinality(places)
           Place(k) == CHOOSE i \in places : Rank(i) = k
<1>1. Len(s) \in Nat /\ DOMAIN s = 1 .. Len(s) /\ \A i \in 1 .. Len(s) : s[i] \in Packages
    BY LenProperties, ElementOfSeq
<1>2. places \in SUBSET (1 .. Len(s))
    BY <1>1
<1>3. /\ n \in Nat
      /\ \A i \in places : Rank(i) \in 1 .. n
      /\ \A i, j \in places : Rank(i) = Rank(j) => i = j
      /\ \A k \in 1 .. n : \E i \in places : Rank(i) = k
  <2> HIDE DEF places
  <2> QED
    BY <1>1, <1>2, PlacesAreRanked
<1>7. \A k \in 1 .. n : Place(k) \in places /\ Rank(Place(k)) = k
    BY <1>3
<1>8. \A i \in places : Place(Rank(i)) = i
  <2> SUFFICES ASSUME NEW i \in places PROVE Place(Rank(i)) = i
    OBVIOUS
  <2>1. Rank(i) \in 1 .. n
    BY <1>3
  <2>2. Place(Rank(i)) \in places /\ Rank(Place(Rank(i))) = Rank(i)
    BY <2>1, <1>7
  <2> QED
    BY <2>2, <1>3
<1>9. Only(s, S) = [k \in 1 .. n |-> s[Place(k)]]
    BY DEF Only
<1>10. \A i \in places : Rank(i) \in 1 .. n
    BY <1>3
<1> HIDE DEF Rank, Place, n
<1>11. Only(s, S) \in Seq(Packages) /\ Len(Only(s, S)) = n
  <2>1. \A k \in 1 .. n : s[Place(k)] \in Packages
    BY <1>1, <1>2, <1>7
  <2> QED
    BY <2>1, <1>3, <1>9
<1>12. \A k \in 1 .. n : Only(s, S)[k] = s[Place(k)]
    BY <1>9
<1>13. \A k \in 1 .. n : Place(k) \in 1 .. Len(s) /\ s[Place(k)] \in S
    BY <1>1, <1>7
<1>14. \A i \in 1 .. Len(s) : s[i] \in S => Rank(i) \in 1 .. n /\ Only(s, S)[Rank(i)] = s[i]
  <2> SUFFICES ASSUME NEW i \in 1 .. Len(s), s[i] \in S
               PROVE  Rank(i) \in 1 .. n /\ Only(s, S)[Rank(i)] = s[i]
    OBVIOUS
  <2>1. i \in places
    BY <1>1
  <2>2. Rank(i) \in 1 .. n /\ Place(Rank(i)) = i
    BY <2>1, <1>8, <1>10
  <2> QED
    BY <2>2, <1>12
<1>15. ASSUME \A i, j \in 1 .. Len(s) : s[i] = s[j] => i = j
       PROVE  \A j, k \in 1 .. n : Only(s, S)[j] = Only(s, S)[k] => j = k
  <2> SUFFICES ASSUME NEW j \in 1 .. n, NEW k \in 1 .. n, Only(s, S)[j] = Only(s, S)[k]
               PROVE  j = k
    OBVIOUS
  <2>1. Place(j) = Place(k)
    BY <1>12, <1>13, <1>15
  <2> QED
    BY <2>1, <1>7
<1> QED
    BY <1>11, <1>12, <1>13, <1>14, <1>15

\* The results for packages that all get the same one.
LEMMA EachGetsOne ==
    ASSUME NEW packages \in Seq(Packages), NEW r \in Results
    PROVE  /\ EachGets(packages, r) \in Seq(Entries)
           /\ Len(EachGets(packages, r)) = Len(packages)
           /\ \A i \in 1 .. Len(packages) :
                /\ EachGets(packages, r)[i].package = packages[i]
                /\ EachGets(packages, r)[i].ok = r.ok
                /\ EachGets(packages, r)[i].code = r.code
<1>1. Len(packages) \in Nat /\ DOMAIN packages = 1 .. Len(packages)
      /\ \A i \in 1 .. Len(packages) : packages[i] \in Packages
    BY LenProperties, ElementOfSeq
<1>2. \A i \in 1 .. Len(packages) :
        /\ Entry(packages[i], r) \in Entries
        /\ Entry(packages[i], r).package = packages[i]
        /\ Entry(packages[i], r).ok = r.ok
        /\ Entry(packages[i], r).code = r.code
    BY <1>1 DEF Entry, Entries, Results
<1>3. EachGets(packages, r) = [i \in 1 .. Len(packages) |-> Entry(packages[i], r)]
    BY <1>1 DEF EachGets
<1> HIDE DEF Entry
<1> QED
    BY <1>1, <1>2, <1>3

LEMMA ResultIsTyped ==
    ASSUME NEW code \in Codes, NEW text \in SUBSET Signs
    PROVE  /\ Result(code, text) \in Results
           /\ Result(code, text).ok = (code = "ok")
           /\ Result(code, text).code = code
           /\ Result(code, text).says = text
    BY DEF Result, Results

LEMMA SkippedIs ==
    ASSUME NEW packages \in Seq(Packages)
    PROVE  /\ Skipped(packages) \in Seq(Entries)
           /\ Len(Skipped(packages)) = Len(packages)
           /\ \A i \in 1 .. Len(packages) :
                /\ Skipped(packages)[i].package = packages[i]
                /\ ~Skipped(packages)[i].ok
                /\ Skipped(packages)[i].code = "skipped"
<1>1. Result("skipped", {}) \in Results /\ ~Result("skipped", {}).ok
      /\ Result("skipped", {}).code = "skipped"
    BY DEF Result, Results, Codes
<1> DEFINE r == Result("skipped", {})
<1>2. r \in Results /\ ~r.ok /\ r.code = "skipped"
    BY <1>1
<1>3. Skipped(packages) = EachGets(packages, r)
    BY DEF Skipped
<1> HIDE DEF r
<1> QED
    BY <1>2, <1>3, EachGetsOne

LEMMA PackagesOfIs ==
    ASSUME NEW results \in Seq(Entries)
    PROVE  /\ PackagesOf(results) \in Seq(Packages)
           /\ Len(PackagesOf(results)) = Len(results)
           /\ \A i \in 1 .. Len(results) : PackagesOf(results)[i] = results[i].package
<1>1. Len(results) \in Nat /\ \A i \in 1 .. Len(results) : results[i] \in Entries
    BY LenProperties, ElementOfSeq
<1>2. \A i \in 1 .. Len(results) : results[i].package \in Packages
    BY <1>1 DEF Entries
<1> QED
    BY <1>1, <1>2 DEF PackagesOf

\* Two ways to say that results and the packages left list these packages.
LEMMA FollowsIsListing ==
    ASSUME NEW results \in Seq(Entries), NEW todo \in Seq(Packages), NEW packages \in Seq(Packages)
    PROVE  Follows(results, todo, packages) <=> PackagesOf(results) \o todo = packages
<1> DEFINE told == PackagesOf(results)
<1>1. /\ told \in Seq(Packages) /\ Len(told) = Len(results)
      /\ \A i \in 1 .. Len(results) : told[i] = results[i].package
    BY PackagesOfIs
<1> HIDE DEF told
<1>2. Len(results) \in Nat /\ Len(todo) \in Nat /\ Len(packages) \in Nat
    BY LenProperties
<1> DEFINE all == told \o todo
<1>3. /\ all \in Seq(Packages) /\ Len(all) = Len(results) + Len(todo)
      /\ \A i \in 1 .. Len(results) + Len(todo) :
           all[i] = IF i <= Len(results) THEN told[i] ELSE todo[i - Len(results)]
  <2>1. /\ told \o todo \in Seq(Packages) /\ Len(told \o todo) = Len(told) + Len(todo)
        /\ \A i \in 1 .. Len(told) + Len(todo) :
             (told \o todo)[i] = IF i <= Len(told) THEN told[i] ELSE todo[i - Len(told)]
    BY <1>1, ConcatProperties
  <2> QED
    BY <2>1, <1>1
<1> HIDE DEF all
<1>4. ASSUME Follows(results, todo, packages) PROVE all = packages
  <2>1. Len(all) = Len(packages)
    BY <1>3, <1>4 DEF Follows
  <2>a. all \in Seq(Packages)
    BY <1>3
  <2>2. ASSUME NEW i \in 1 .. Len(all) PROVE all[i] = packages[i]
    <3>1. CASE i <= Len(results)
      <4>1. i \in 1 .. Len(results) /\ i \in 1 .. Len(results) + Len(todo)
        BY <3>1, <1>2, <1>3, <2>2
      <4> QED
        BY <4>1, <3>1, <1>1, <1>3, <1>4 DEF Follows
    <3>2. CASE ~(i <= Len(results))
      <4>1. i - Len(results) \in 1 .. Len(todo) /\ Len(results) + (i - Len(results)) = i
        BY <3>2, <1>2, <1>3, <2>2
      <4> QED
        BY <4>1, <3>2, <1>2, <1>3, <1>4, <2>2 DEF Follows
    <3> QED
      BY <3>1, <3>2
  <2> QED
    BY <2>1, <2>2, <2>a, SeqEqual
<1>5. ASSUME all = packages PROVE Follows(results, todo, packages)
  <2>1. \A i \in 1 .. Len(results) : results[i].package = packages[i]
    BY <1>1, <1>2, <1>3, <1>5
  <2>2. ASSUME NEW i \in 1 .. Len(todo) PROVE todo[i] = packages[Len(results) + i]
    <3>1. Len(results) + i \in 1 .. Len(results) + Len(todo) /\ ~(Len(results) + i <= Len(results))
          /\ Len(results) + i - Len(results) = i
      BY <1>2
    <3> QED
      BY <3>1, <1>3, <1>5
  <2> QED
    BY <2>1, <2>2, <1>3, <1>5 DEF Follows
<1> QED
    BY <1>4, <1>5 DEF all, told

LEMMA BeginsWhileFollowing ==
    ASSUME NEW results \in Seq(Entries), NEW todo \in Seq(Packages), NEW packages \in Seq(Packages),
           Follows(results, todo, packages)
    PROVE  Begins(results, packages)
<1>1. Len(results) \in Nat /\ Len(todo) \in Nat
    BY LenProperties
<1> QED
    BY <1>1 DEF Follows, Begins

\* The next package's result is appended.
LEMMA OneIsTold ==
    ASSUME NEW results \in Seq(Entries), NEW todo \in Seq(Packages), NEW packages \in Seq(Packages),
           NEW e \in Entries, todo # << >>, e.package = Head(todo)
    PROVE  /\ Follows(results, todo, packages) => Follows(Append(results, e), Tail(todo), packages)
           /\ Begins(results, packages) /\ Len(results) < Len(packages)
                /\ Head(todo) = packages[Len(results) + 1]
              => Begins(Append(results, e), packages)
<1> DEFINE more == Append(results, e)
           rest == Tail(todo)
<1>1. /\ more \in Seq(Entries) /\ Len(more) = Len(results) + 1
      /\ \A i \in 1 .. Len(results) : more[i] = results[i]
      /\ more[Len(results) + 1] = e
    BY AppendProperties
<1>2. /\ rest \in Seq(Packages) /\ Len(rest) = Len(todo) - 1
      /\ \A i \in 1 .. Len(rest) : rest[i] = todo[i + 1]
    BY HeadTailProperties
<1>3. Len(results) \in Nat /\ Len(todo) \in Nat /\ Len(todo) # 0 /\ Head(todo) = todo[1]
    BY LenProperties, EmptySeq
<1> HIDE DEF more, rest
<1>a. \A i \in 1 .. Len(results) + 1 : i \in 1 .. Len(results) \/ i = Len(results) + 1
    BY <1>3
<1>4. ASSUME Follows(results, todo, packages) PROVE Follows(more, rest, packages)
  <2>1. Len(more) + Len(rest) = Len(packages)
    BY <1>1, <1>2, <1>3, <1>4 DEF Follows
  <2>2. packages[Len(results) + 1] = todo[1]
    BY <1>3, <1>4 DEF Follows
  <2>3. \A i \in 1 .. Len(more) : more[i].package = packages[i]
    BY <1>a, <1>1, <1>3, <1>4, <2>2 DEF Follows
  <2>4. ASSUME NEW i \in 1 .. Len(rest) PROVE rest[i] = packages[Len(more) + i]
    <3>1. i + 1 \in 1 .. Len(todo) /\ Len(more) + i = Len(results) + (i + 1)
      BY <1>1, <1>2, <1>3
    <3> QED
      BY <3>1, <1>2, <1>4 DEF Follows
  <2> QED
    BY <2>1, <2>3, <2>4 DEF Follows
<1>5. ASSUME Begins(results, packages), Len(results) < Len(packages),
             Head(todo) = packages[Len(results) + 1]
      PROVE  Begins(more, packages)
  <2>1. Len(packages) \in Nat
    BY LenProperties
  <2>2. Len(more) <= Len(packages)
    BY <2>1, <1>1, <1>3, <1>5
  <2>3. \A i \in 1 .. Len(more) : more[i].package = packages[i]
    BY <1>a, <1>1, <1>5 DEF Begins
  <2> QED
    BY <2>2, <2>3 DEF Begins
<1> QED
    BY <1>4, <1>5 DEF more, rest

\* Results for the packages at the front of those left.
LEMMA SomeAreTold ==
    ASSUME NEW results \in Seq(Entries), NEW front \in Seq(Packages), NEW back \in Seq(Packages),
           NEW packages \in Seq(Packages), NEW more \in Seq(Entries),
           Len(more) = Len(front), \A i \in 1 .. Len(front) : more[i].package = front[i],
           Follows(results, front \o back, packages)
    PROVE  Follows(results \o more, back, packages)
<1> DEFINE all == results \o more
           todo == front \o back
<1>1. /\ Len(results) \in Nat /\ Len(more) \in Nat /\ Len(back) \in Nat
    BY LenProperties
<1>2. /\ Len(all) = Len(results) + Len(more)
      /\ \A i \in 1 .. Len(results) + Len(more) :
           all[i] = IF i <= Len(results) THEN results[i] ELSE more[i - Len(results)]
    BY ConcatProperties
<1>3. /\ Len(todo) = Len(more) + Len(back)
      /\ \A i \in 1 .. Len(more) + Len(back) :
           todo[i] = IF i <= Len(more) THEN front[i] ELSE back[i - Len(more)]
  <2>1. /\ Len(front \o back) = Len(front) + Len(back)
        /\ \A i \in 1 .. Len(front) + Len(back) :
             (front \o back)[i] = IF i <= Len(front) THEN front[i] ELSE back[i - Len(front)]
    BY ConcatProperties
  <2> QED
    BY <2>1
<1>4. Follows(results, todo, packages)
    OBVIOUS
<1> HIDE DEF all, todo
<1>5. Len(all) + Len(back) = Len(packages)
    BY <1>1, <1>2, <1>3, <1>4 DEF Follows
<1>6. ASSUME NEW i \in 1 .. Len(all) PROVE all[i].package = packages[i]
  <2>1. CASE i <= Len(results)
    <3>1. i \in 1 .. Len(results) /\ i \in 1 .. Len(results) + Len(more)
      BY <2>1, <1>1, <1>2
    <3> QED
      BY <3>1, <2>1, <1>2, <1>4 DEF Follows
  <2>2. CASE ~(i <= Len(results))
    <3> DEFINE j == i - Len(results)
    <3>1. j \in 1 .. Len(more) /\ j \in 1 .. Len(more) + Len(back) /\ Len(results) + j = i /\ j <= Len(more)
      BY <2>2, <1>1, <1>2
    <3>2. all[i] = more[j]
      BY <2>2, <1>1, <1>2
    <3> HIDE DEF j
    <3>3. todo[j] = front[j] /\ todo[j] = packages[Len(results) + j]
      BY <3>1, <1>3, <1>4 DEF Follows
    <3> QED
      BY <3>1, <3>2, <3>3
  <2> QED
    BY <2>1, <2>2
<1>7. ASSUME NEW i \in 1 .. Len(back) PROVE back[i] = packages[Len(all) + i]
  <2> DEFINE j == Len(more) + i
  <2>1. j \in 1 .. Len(more) + Len(back) /\ ~(j <= Len(more)) /\ j - Len(more) = i
        /\ Len(results) + j = Len(all) + i
    BY <1>1, <1>2
  <2> HIDE DEF j
  <2>2. todo[j] = back[i] /\ todo[j] = packages[Len(results) + j]
    BY <2>1, <1>3, <1>4 DEF Follows
  <2> QED
    BY <2>1, <2>2
<1> QED
    BY <1>5, <1>6, <1>7 DEF Follows, all

-----------------------------------------------------------------------------
(***************************************************************************)
(* How an attempt goes on.                                                 *)
(***************************************************************************)

Silent(text) == "consent" \notin text
SilentAttempt(a) == Silent(a.plan) /\ Silent(a.earlier) /\ Silent(a.command)

\* The end with a result that succeeded only if the last command did, or
\* another attempt for the same package.
Outcome(x, p, ok, silent) ==
    \/ \E r \in Results : x = Over(r) /\ (r.ok => ok)
    \/ \E b \in Attempts : x = Goes(b) /\ b.package = p /\ (silent => SilentAttempt(b))

LEMMA AttemptIsTyped ==
    ASSUME NEW p \in Packages, NEW target \in Nat, NEW text \in SUBSET Signs
    PROVE  /\ Attempt(p, target, text) \in Attempts
           /\ Attempt(p, target, text).package = p
           /\ Silent(text) => SilentAttempt(Attempt(p, target, text))
           /\ OnPackage(Attempt(p, target, text))
    BY DEF Attempt, Attempts, SilentAttempt, Silent, OnPackage

LEMMA FirstIsTyped ==
    ASSUME NEW p \in Packages, NEW a \in FirstAttempts(p)
    PROVE  a \in Attempts /\ a.package = p /\ SilentAttempt(a)
<1>1. /\ Attempt(p, 1, {}) \in Attempts /\ Attempt(p, 1, {}).package = p
      /\ SilentAttempt(Attempt(p, 1, {}))
    BY AttemptIsTyped DEF Silent
<1> DEFINE b == [Attempt(p, 1, {}) EXCEPT !.step = "msstore"]
<1>2. b \in Attempts /\ b.package = p /\ SilentAttempt(b)
    BY <1>1 DEF Attempts, SilentAttempt
<1> QED
    BY <1>1, <1>2 DEF FirstAttempts, Exact

LEMMA CheckedIs ==
    ASSUME NEW a \in Attempts, NEW r \in Results
    PROVE  /\ Checked(a, r) \in Results
           /\ Checked(a, r).ok => r.ok
           /\ Checked(a, r).says = r.says
           /\ Kind[a.package] # "store" => Checked(a, r) = r
<1> DEFINE code == IF r.code = "ok" THEN "failed" ELSE r.code
           other == [r EXCEPT !.ok = FALSE, !.code = code]
<1>1. other \in Results /\ other.ok = FALSE /\ other.says = r.says
    BY DEF Results, Codes
<1>2. Checked(a, r) \in {r, other}
    BY DEF Checked
<1>3. Kind[a.package] # "store" => Checked(a, r) = r
    BY DEF Checked
<1> HIDE DEF other
<1> QED
    BY <1>1, <1>2, <1>3

\* A command whose texts together show no error of the Store had none.
LEMMA LastIsChecked ==
    ASSUME NEW a \in Attempts, NEW o \in Results, NEW text \in SUBSET Signs,
           NEW r \in Results, r.ok = o.ok, r.code = o.code, r.says = text \cup o.says,
           Checked(a, r).ok
    PROVE  Checked(a, o).ok
<1> DEFINE code == IF r.code = "ok" THEN "failed" ELSE r.code
           other == [r EXCEPT !.ok = FALSE, !.code = code]
           same == \/ Kind[a.package] # "store" \/ a.step = "msstore"
                   \/ r.code \in {"cancelled", "timeout"} \/ "error" \notin r.says
<1>1. ~other.ok
    BY DEF Results
<1>2. Checked(a, r) = IF same THEN r ELSE other
    BY DEF Checked
<1> HIDE DEF other
<1>3. same /\ r.ok
    BY <1>1, <1>2
<1>4. Checked(a, o) = o
    BY <1>3 DEF Checked
<1> QED
    BY <1>3, <1>4

LEMMA SaysMore ==
    ASSUME NEW r \in Results, NEW text \in SUBSET Signs
    PROVE  /\ [r EXCEPT !.says = text] \in Results
           /\ [r EXCEPT !.says = text].ok = r.ok
           /\ [r EXCEPT !.says = text].code = r.code
           /\ [r EXCEPT !.says = text].says = text
    BY DEF Results

\* Another target or the name of the package.
LEMMA TargetOutcome ==
    ASSUME NEW a \in Attempts, NEW r \in Results, NEW live \in BOOLEAN
    PROVE  Outcome(AfterTarget(a, r, live), a.package, r.ok, Silent(a.earlier))
<1> DEFINE p == a.package
           all == [r EXCEPT !.says = a.earlier \cup @]
           another == ~r.ok /\ live /\ Alternate(r)
           hasOther == /\ a.target <= Candidates[p] /\ Kind[p] = "winget" /\ HasName[p]
                       /\ live /\ Alternate(all)
           next == Attempt(p, a.target + 1, all.says)
           byName == Attempt(p, Candidates[p] + 1, all.says)
<1>1. p \in Packages /\ a.target + 1 \in Nat /\ Candidates[p] + 1 \in Nat /\ a.earlier \in SUBSET Signs
  <2>1. p \in Packages /\ a.target \in Nat /\ a.earlier \in SUBSET Signs
    BY DEF Attempts
  <2> HIDE DEF p
  <2>2. Candidates[p] \in Nat
    BY <2>1, ActionAssumption
  <2> QED
    BY <2>1, <2>2
<1>2. all \in Results /\ all.ok = r.ok /\ all.says = a.earlier \cup r.says
  <2>1. all = [r EXCEPT !.says = a.earlier \cup r.says] /\ a.earlier \cup r.says \in SUBSET Signs
    BY <1>1 DEF Results
  <2> HIDE DEF all
  <2> QED
    BY <2>1, SaysMore
<1>3. all.says \in SUBSET Signs
    BY <1>2 DEF Results
<1>4. /\ another /\ Silent(a.earlier) => Silent(all.says)
      /\ hasOther => Silent(all.says)
    BY <1>2 DEF Alternate, Silent
<1>5. AfterTarget(a, r, live) =
        IF a.target < Candidates[p] /\ another THEN Goes(next)
        ELSE IF hasOther THEN Goes(byName) ELSE Over(all)
    BY DEF AfterTarget
<1> HIDE DEF all, another, hasOther
<1>6. /\ next \in Attempts /\ next.package = p /\ (Silent(all.says) => SilentAttempt(next))
      /\ byName \in Attempts /\ byName.package = p /\ (Silent(all.says) => SilentAttempt(byName))
    BY <1>1, <1>3, AttemptIsTyped
<1> HIDE DEF next, byName, p
<1>7. Outcome(AfterTarget(a, r, live), p, r.ok, Silent(a.earlier))
  <2>1. CASE a.target < Candidates[p] /\ another
    BY <2>1, <1>4, <1>5, <1>6 DEF Outcome
  <2>2. CASE ~(a.target < Candidates[p] /\ another) /\ hasOther
    BY <2>2, <1>4, <1>5, <1>6 DEF Outcome
  <2>3. CASE ~(a.target < Candidates[p] /\ another) /\ ~hasOther
    BY <2>3, <1>2, <1>5 DEF Outcome
  <2> QED
    BY <2>1, <2>2, <2>3
<1> QED
    BY <1>7 DEF p

\* Options, force and a forced installation with winget.
LEMMA WingetOutcome ==
    ASSUME NEW a \in Attempts, NEW c \in Results, NEW live \in BOOLEAN
    PROVE  Outcome(AfterWingetCommand(a, c, live), a.package, c.ok,
                   Silent(a.plan) /\ Silent(a.earlier) /\ Silent(c.says))
<1> DEFINE p == a.package
           silent == Silent(a.plan) /\ Silent(a.earlier) /\ Silent(c.says)
           Fine(x) == Outcome(x, p, c.ok, silent)
           r == [c EXCEPT !.says = a.plan \cup @]
           End(result) == AfterTarget(a, result, live)
           Step1(step, options) ==
               Goes([a EXCEPT !.step = step, !.options = options, !.phase = "first",
                              !.try = 1, !.command = {}, !.plan = r.says])
           Forcing == IF Repairable(r) /\ live THEN Step1("force", a.options \cup {"force"})
                                               ELSE End(r)
           WithOption(option, otherwise) ==
               CASE ~AsksFor(option, r)               -> otherwise
                 [] AsksFor(option, r) /\ ~live       -> End(r)
                 [] AsksFor(option, r) /\ live /\ option \notin Consent[a.package]
                      -> End([r EXCEPT !.says = @ \cup {"consent"}])
                 [] OTHER                             -> Step1(option, a.options \cup {option})
           stop == c.ok \/ ~live
           refusal == [r EXCEPT !.says = @ \cup {"consent"}]
<1>1. r \in Results /\ r.ok = c.ok /\ r.says = a.plan \cup c.says /\ a.plan \in SUBSET Signs
  <2>1. r = [c EXCEPT !.says = a.plan \cup c.says] /\ a.plan \cup c.says \in SUBSET Signs
    BY DEF Results, Attempts
  <2>2. a.plan \in SUBSET Signs
    BY DEF Attempts
  <2> HIDE DEF r
  <2>3. r \in Results /\ r.ok = c.ok /\ r.says = a.plan \cup c.says
    BY <2>1, SaysMore
  <2> QED
    BY <2>2, <2>3
<1>2. refusal \in Results /\ refusal.ok = c.ok
  <2>1. refusal = [r EXCEPT !.says = r.says \cup {"consent"}] /\ r.says \cup {"consent"} \in SUBSET Signs
    BY <1>1 DEF Results, Signs
  <2> HIDE DEF refusal, r
  <2> QED
    BY <2>1, <1>1, SaysMore
<1>3. ASSUME NEW result \in Results, result.ok = c.ok PROVE Fine(End(result))
  <2>1. Outcome(End(result), p, c.ok, Silent(a.earlier))
    BY <1>3, TargetOutcome
  <2> HIDE DEF End, p
  <2> QED
    BY <2>1 DEF Outcome
<1>4. ASSUME NEW step \in {"unknown", "pinned", "force", "install"},
             NEW options \in SUBSET {"unknown", "pinned", "force"}
      PROVE  Fine(Step1(step, options))
  <2> DEFINE says == r.says
             b == [a EXCEPT !.step = step, !.options = options, !.phase = "first",
                            !.try = 1, !.command = {}, !.plan = says]
  <2>1. says \in SUBSET Signs /\ (silent => Silent(says))
    BY <1>1 DEF Results, Silent
  <2>2. Step1(step, options) = Goes(b)
    OBVIOUS
  <2> HIDE DEF says, silent
  <2>3. b \in Attempts
    BY <2>1 DEF Attempts
  <2>4. b.package = p /\ b.plan = says /\ b.earlier = a.earlier /\ b.command = {}
    BY DEF Attempts
  <2>5. silent => SilentAttempt(b)
    BY <2>1, <2>4 DEF SilentAttempt, Silent, silent
  <2> HIDE DEF b, Step1, p
  <2> QED
    BY <2>2, <2>3, <2>4, <2>5 DEF Outcome
<1>o. a.options \in SUBSET {"unknown", "pinned", "force"}
    BY DEF Attempts
<1>5. Fine(End(r)) /\ Fine(End(refusal))
    BY <1>1, <1>2, <1>3
<1>6. /\ Fine(Step1("force", a.options \cup {"force"})) /\ Fine(Step1("install", {"force"}))
      /\ Fine(Step1("unknown", a.options \cup {"unknown"}))
      /\ Fine(Step1("pinned", a.options \cup {"pinned"}))
    BY <1>4, <1>o
<1> HIDE DEF Fine, End, Step1, r, refusal
<1>7. Fine(Forcing)
    BY <1>5, <1>6
<1>8. ASSUME NEW option \in {"unknown", "pinned"}, NEW otherwise, Fine(otherwise)
      PROVE  Fine(WithOption(option, otherwise))
  <2>1. Fine(Step1(option, a.options \cup {option}))
    BY <1>6
  <2>2. CASE ~AsksFor(option, r)
    BY <2>2, <1>8
  <2>3. CASE AsksFor(option, r) /\ ~live
    BY <2>3, <1>5
  <2>4. CASE AsksFor(option, r) /\ live /\ option \notin Consent[a.package]
    BY <2>4, <1>5 DEF refusal
  <2>5. CASE AsksFor(option, r) /\ live /\ option \in Consent[a.package]
    BY <2>5, <2>1
  <2> QED
    BY <2>2, <2>3, <2>4, <2>5
<1> HIDE DEF Forcing
<1>9. Fine(WithOption("pinned", Forcing))
    BY <1>7, <1>8
<1>10. Fine(WithOption("unknown", WithOption("pinned", Forcing)))
    BY <1>8, <1>9
<1>11. AfterWingetCommand(a, c, live) =
         CASE a.step = "plain"   -> WithOption("unknown", WithOption("pinned", Forcing))
           [] a.step = "unknown" -> IF stop THEN End(r) ELSE WithOption("pinned", Forcing)
           [] a.step = "pinned"  -> IF stop THEN End(r) ELSE Forcing
           [] a.step = "force"   -> IF ~stop /\ Repairable(c) THEN Step1("install", {"force"})
                                                              ELSE End(r)
           [] OTHER              -> End(r)
    BY DEF AfterWingetCommand, Forcing, Step1, End, r
<1> HIDE DEF WithOption, stop
<1>12. Fine(AfterWingetCommand(a, c, live))
  <2>1. CASE a.step = "plain"
    BY <2>1, <1>10, <1>11
  <2>2. CASE a.step = "unknown"
    BY <2>2, <1>9, <1>5, <1>11
  <2>3. CASE a.step = "pinned"
    BY <2>3, <1>7, <1>5, <1>11
  <2>4. CASE a.step = "force"
    BY <2>4, <1>6, <1>5, <1>11
  <2>5. CASE a.step \notin {"plain", "unknown", "pinned", "force"}
    BY <2>5, <1>5, <1>11
  <2> QED
    BY <2>1, <2>2, <2>3, <2>4, <2>5
<1> QED
    BY <1>12 DEF Fine

\* The Store CLI after WinGet, and the apply flag of the Store CLI.
LEMMA StoreOutcome ==
    ASSUME NEW a \in Attempts, NEW c \in Results, NEW live \in BOOLEAN
    PROVE  Outcome(AfterStoreCommand(a, c, live), a.package, Checked(a, c).ok,
                   Silent(a.plan) /\ Silent(a.earlier) /\ Silent(c.says))
<1> DEFINE p == a.package
           silent == Silent(a.plan) /\ Silent(a.earlier) /\ Silent(c.says)
           d == Checked(a, c)
           says == d.says
           asks == a.step = "plain" /\ live /\ AsksFor("apply", d)
           alternate == live /\ Alternate(d)
           b == [a EXCEPT !.step = "bare", !.phase = "first", !.try = 1,
                          !.command = {}, !.plan = says]
           cli == Attempt(p, 1, says)
           r == [d EXCEPT !.says = a.plan \cup @]
<1>1. AfterStoreCommand(a, c, live) =
        CASE a.step = "msstore" -> IF alternate THEN Goes(cli) ELSE Over(d)
          [] asks -> Goes(b)
          [] OTHER -> AfterTarget(a, r, live)
    BY DEF AfterStoreCommand
<1>2. d \in Results /\ says = c.says
    BY CheckedIs
<1>3. says \in SUBSET Signs /\ (silent => Silent(says)) /\ p \in Packages
    BY <1>2 DEF Results, Attempts
<1> HIDE DEF d
<1>4. r \in Results /\ r.ok = d.ok
  <2>1. r = [d EXCEPT !.says = a.plan \cup d.says] /\ a.plan \cup d.says \in SUBSET Signs
    BY <1>2 DEF Results, Attempts
  <2> HIDE DEF r
  <2> QED
    BY <2>1, <1>2, SaysMore
<1> HIDE DEF says, r, asks, silent, alternate
<1>5. b \in Attempts /\ b.package = p /\ b.plan = says /\ b.earlier = a.earlier /\ b.command = {}
    BY <1>3 DEF Attempts
<1>6. silent => SilentAttempt(b)
    BY <1>3, <1>5 DEF SilentAttempt, Silent, silent
<1>7. Outcome(AfterTarget(a, r, live), p, d.ok, Silent(a.earlier))
    BY <1>4, TargetOutcome
<1>8. cli \in Attempts /\ cli.package = p /\ (silent => SilentAttempt(cli))
    BY <1>3, AttemptIsTyped
<1> HIDE DEF b, p, cli
<1>9. Outcome(AfterStoreCommand(a, c, live), p, d.ok, silent)
  <2>1. CASE a.step = "msstore" /\ alternate
    <3>1. AfterStoreCommand(a, c, live) = Goes(cli)
      BY <2>1, <1>1 DEF asks
    <3> QED
      BY <3>1, <1>8 DEF Outcome
  <2>2. CASE a.step = "msstore" /\ ~alternate
    <3>1. AfterStoreCommand(a, c, live) = Over(d)
      BY <2>2, <1>1 DEF asks
    <3> QED
      BY <3>1, <1>2 DEF Outcome
  <2>3. CASE a.step # "msstore" /\ asks
    BY <2>3, <1>1, <1>5, <1>6 DEF Outcome
  <2>4. CASE a.step # "msstore" /\ ~asks
    <3>1. AfterStoreCommand(a, c, live) = AfterTarget(a, r, live)
      BY <2>4, <1>1
    <3> QED
      BY <3>1, <1>7 DEF Outcome, silent
  <2> QED
    BY <2>1, <2>2, <2>3, <2>4
<1> QED
    BY <1>9 DEF p, silent, d

LEMMA CommandOutcome ==
    ASSUME NEW a \in Attempts, NEW c \in Results, NEW live \in BOOLEAN
    PROVE  Outcome(AfterCommand(a, c, live), a.package, Checked(a, c).ok,
                   Silent(a.plan) /\ Silent(a.earlier) /\ Silent(c.says))
<1> DEFINE p == a.package
           silent == Silent(a.plan) /\ Silent(a.earlier) /\ Silent(c.says)
           ok == Checked(a, c).ok
<1>1. Outcome(AfterTarget(a, c, live), p, c.ok, silent)
  <2>1. Outcome(AfterTarget(a, c, live), p, c.ok, Silent(a.earlier))
    BY TargetOutcome
  <2> QED
    BY <2>1 DEF Outcome
<1>2. /\ Outcome(AfterWingetCommand(a, c, live), p, c.ok, silent)
      /\ Outcome(AfterStoreCommand(a, c, live), p, ok, silent)
    BY WingetOutcome, StoreOutcome
<1>o. Kind[p] # "store" => ok = c.ok
    BY CheckedIs
<1> HIDE DEF silent, ok
<1>3. AfterCommand(a, c, live) =
        CASE Kind[p] = "winget" -> AfterWingetCommand(a, c, live)
          [] Kind[p] = "store"  -> AfterStoreCommand(a, c, live)
          [] OTHER              -> AfterTarget(a, c, live)
    BY DEF AfterCommand
<1> HIDE DEF p
<1>4. Outcome(AfterCommand(a, c, live), p, ok, silent)
  <2>1. CASE Kind[p] = "winget"
    BY <2>1, <1>2, <1>3, <1>o
  <2>2. CASE Kind[p] = "store"
    BY <2>2, <1>2, <1>3
  <2>3. CASE Kind[p] \notin {"winget", "store"}
    BY <2>3, <1>1, <1>3, <1>o
  <2> QED
    BY <2>1, <2>2, <2>3
<1> QED
    BY <1>4 DEF p, ok, silent

\* What follows an attempt that ended with o: an attempt for the same
\* package, or a result that succeeded only as o did; a success of a repair
\* of winget's sources is not the package's unless the run was cancelled.
LEMMA AttemptOutcome ==
    ASSUME NEW a \in Attempts, NEW o \in Results, NEW live \in BOOLEAN
    PROVE  /\ Outcome(AfterAttempt(a, o, live), a.package, Checked(a, o).ok, SilentAttempt(a) /\ Silent(o.says))
           /\ AfterAttempt(a, o, live).over /\ live /\ o.ok => OnPackage(a)
<1> DEFINE p == a.package
           silent == SilentAttempt(a) /\ Silent(o.says)
           ok == Checked(a, o).ok
           says == a.command \cup o.says
           r == [o EXCEPT !.says = a.command \cup @]
           source == live /\ ~o.ok /\ ByWinget(a) /\ "source" \in o.says
           Repair(phase) == Goes([a EXCEPT !.phase = phase, !.command = r.says])
           again == Transient(r) /\ live /\ a.try < MaxAttempts
           Retry == IF again
                    THEN Goes([a EXCEPT !.phase = "retry", !.try = NextTry(a), !.command = r.says])
                    ELSE AfterCommand(a, r, live)
<1>1. r \in Results /\ r.ok = o.ok /\ r.says = says /\ says \in SUBSET Signs
      /\ (silent => Silent(says))
  <2>1. r = [o EXCEPT !.says = says] /\ says \in SUBSET Signs
    BY DEF Results, Attempts
  <2>2. silent => Silent(says)
    BY DEF SilentAttempt, Silent
  <2> HIDE DEF r, says
  <2> QED
    BY <2>1, <2>2, SaysMore
<1>k. Checked(a, r).ok => ok
  <2>1. r.code = o.code /\ a.command \in SUBSET Signs
    BY DEF Results, Attempts
  <2> QED
    BY <2>1, <1>1, LastIsChecked DEF says
<1>h. ok => o.ok
    BY CheckedIs
<1> HIDE DEF says, r, ok
<1>2. ASSUME NEW phase \in {"source update", "source reset", "again"}
      PROVE  Outcome(Repair(phase), p, ok, silent)
  <2> DEFINE b == [a EXCEPT !.phase = phase, !.command = says]
  <2>1. b \in Attempts /\ b.package = p /\ b.plan = a.plan /\ b.earlier = a.earlier
        /\ b.command = says
    BY <1>1 DEF Attempts
  <2>2. Repair(phase) = Goes(b)
    BY <1>1
  <2>3. silent => SilentAttempt(b)
    BY <1>1, <2>1 DEF SilentAttempt
  <2> HIDE DEF b, Repair, silent, p
  <2> QED
    BY <2>1, <2>2, <2>3 DEF Outcome
<1>3. Outcome(AfterCommand(a, r, live), p, ok, silent)
  <2>1. Outcome(AfterCommand(a, r, live), p, Checked(a, r).ok,
                Silent(a.plan) /\ Silent(a.earlier) /\ Silent(r.says))
    BY <1>1, CommandOutcome
  <2>2. silent => Silent(a.plan) /\ Silent(a.earlier) /\ Silent(r.says)
    BY <1>1 DEF SilentAttempt
  <2> HIDE DEF silent, p
  <2> QED
    BY <2>1, <2>2, <1>k DEF Outcome
<1>4. Outcome(Retry, p, ok, silent)
  <2> DEFINE b == [a EXCEPT !.phase = "retry", !.try = NextTry(a), !.command = says]
  <2>a. a.try \in Nat
    BY DEF Attempts
  <2>1. NextTry(a) \in Nat
    BY <2>a DEF NextTry
  <2>2. b \in Attempts /\ b.package = p /\ b.plan = a.plan /\ b.earlier = a.earlier
        /\ b.command = says
    BY <1>1, <2>1 DEF Attempts
  <2>3. Retry = IF again THEN Goes(b) ELSE AfterCommand(a, r, live)
    BY <1>1
  <2>4. silent => SilentAttempt(b)
    BY <1>1, <2>2 DEF SilentAttempt
  <2> HIDE DEF b, Retry, silent, p, again
  <2>5. Outcome(Goes(b), p, ok, silent)
    BY <2>2, <2>4 DEF Outcome
  <2> QED
    BY <2>3, <2>5, <1>3
<1>5. AfterAttempt(a, o, live) =
        CASE a.phase = "first"         -> IF source THEN Repair("source update") ELSE Retry
          [] a.phase = "source update" -> IF source THEN Repair("source reset")
                                                    ELSE AfterRepair(a, o, r, live)
          [] a.phase = "source reset"  -> AfterRepair(a, o, r, live)
          [] OTHER                     -> Retry
    BY DEF AfterAttempt, r
<1>6. AfterRepair(a, o, r, live) = IF live /\ o.ok THEN Repair("again")
                                                   ELSE AfterCommand(a, r, live)
    BY DEF AfterRepair
<1>7. \A phase : Repair(phase).over = FALSE
    BY DEF Goes
<1> HIDE DEF Repair, Retry, silent, p, source
<1>8. Outcome(AfterRepair(a, o, r, live), p, ok, silent)
    BY <1>2, <1>3, <1>6
<1>9. Outcome(AfterAttempt(a, o, live), p, ok, silent)
  <2>1. CASE a.phase = "first"
    BY <2>1, <1>2, <1>4, <1>5
  <2>2. CASE a.phase = "source update"
    BY <2>2, <1>2, <1>8, <1>5
  <2>3. CASE a.phase = "source reset"
    BY <2>3, <1>8, <1>5
  <2>4. CASE a.phase \notin {"first", "source update", "source reset"}
    BY <2>4, <1>4, <1>5
  <2> QED
    BY <2>1, <2>2, <2>3, <2>4
<1>10. AfterAttempt(a, o, live).over /\ live /\ o.ok => OnPackage(a)
  <2> SUFFICES ASSUME ~OnPackage(a), live, o.ok PROVE ~AfterAttempt(a, o, live).over
    OBVIOUS
  <2>1. a.phase \in {"source update", "source reset"} /\ ~source
    BY DEF OnPackage, source
  <2>2. AfterRepair(a, o, r, live) = Repair("again")
    BY <1>6
  <2>3. AfterAttempt(a, o, live) = Repair("again")
    BY <2>1, <2>2, <1>5
  <2> QED
    BY <2>3, <1>7
<1> QED
    BY <1>9, <1>10 DEF p, silent, ok

-----------------------------------------------------------------------------
(***************************************************************************)
(* The result of a package.                                                *)
(***************************************************************************)

\* What was told before stays, the package's result comes next, and all that
\* may follow is skipped.
Extends(told, results, p, r) ==
    /\ Len(told) >= Len(results) + 1
    /\ \A i \in 1 .. Len(told) :
         \/ i <= Len(results) /\ told[i] = results[i]
         \/ i = Len(results) + 1 /\ told[i].package = p /\ told[i].ok = r.ok /\ told[i].code = r.code
         \/ i > Len(results) + 1 /\ ~told[i].ok /\ told[i].code = "skipped"

LEMMA MembersOf ==
    ASSUME NEW run0 \in Runs
    PROVE  /\ run0.pc \in BodyPlaces \cup WorkerPlaces /\ run0.live \in BOOLEAN
           /\ run0.todo \in Seq(Packages) /\ run0.results \in Seq(Entries)
           /\ run0.doing \in Attempts \cup {NoResult} /\ run0.got \in Results \cup {NoResult}
           /\ run0.again \in BOOLEAN /\ run0.before \in SUBSET Signs
           /\ Len(run0.todo) \in Nat /\ Len(run0.results) \in Nat
<1>1. run0.todo \in Seq(Packages) /\ run0.results \in Seq(Entries)
    BY DEF Runs
<1> QED
    BY <1>1, LenProperties DEF Runs

LEMMA FinishedRun ==
    ASSUME NEW run0 \in Runs, NEW pc \in BodyPlaces \cup WorkerPlaces,
           NEW todo \in Seq(Packages), NEW results \in Seq(Entries)
    PROVE  LET f == [run0 EXCEPT !.results = results, !.todo = todo, !.pc = pc,
                                 !.doing = NoResult, !.got = NoResult, !.again = FALSE,
                                 !.before = {}]
           IN /\ f \in Runs /\ f.pc = pc /\ f.todo = todo /\ f.results = results
              /\ f.live = run0.live /\ f.doing = NoResult /\ f.got = NoResult /\ f.before = {}
    BY DEF Runs

LEMMA FinishIs ==
    ASSUME UpdatesTypes, NEW t \in Threads, run[t].todo # << >>, NEW r \in Results
    PROVE  /\ Finish(t, r) \in Runs
           /\ Finish(t, r).pc \in {"loop", AfterLoop(t)}
           /\ Finish(t, r).pc # "loop" => Finish(t, r).todo = << >>
           /\ Finish(t, r).live = run[t].live
           /\ Finish(t, r).got = NoResult /\ Finish(t, r).before = {}
           /\ Extends(Finish(t, r).results, run[t].results, Head(run[t].todo), r)
           /\ \A packages \in Seq(Packages) :
                Follows(run[t].results, run[t].todo, packages) =>
                  /\ Begins(Finish(t, r).results, packages)
                  /\ \/ Follows(Finish(t, r).results, Finish(t, r).todo, packages)
                     \/ Finish(t, r).pc # "loop" /\ ~run[t].live
                     \/ Finish(t, r).pc # "loop" /\ t = Worker /\ r.code = "cancelled"
                     \/ t = Task
<1> DEFINE todo == run[t].todo
           results == run[t].results
           live == run[t].live
           entry == Entry(Head(todo), [r EXCEPT !.says = IF t = Worker THEN @ ELSE {}])
           rest == Tail(todo)
           halted == ~live \/ r.code = "cancelled"
           stops == halted \/ r.code = "timeout" \/ (t # Task /\ StopReason(r))
           skips == StopReason(r) /\ (t = Body \/ (t = Worker /\ ~halted))
           more == Append(results, entry)
           tail == IF skips THEN Skipped(rest) ELSE << >>
           told == more \o tail
           left == IF stops THEN << >> ELSE rest
           pc == IF stops THEN AfterLoop(t) ELSE "loop"
           f == [run[t] EXCEPT !.results = told, !.todo = left, !.pc = pc,
                               !.doing = NoResult, !.got = NoResult, !.again = FALSE,
                               !.before = {}]
<1>1. run[t] \in Runs
    BY DEF UpdatesTypes
<1>2. todo \in Seq(Packages) /\ results \in Seq(Entries) /\ todo # << >> /\ Len(results) \in Nat
    BY <1>1, MembersOf
<1>3. Head(todo) \in Packages /\ rest \in Seq(Packages)
    BY <1>2, HeadTailProperties
<1>4. /\ entry \in Entries /\ entry.package = Head(todo) /\ entry.ok = r.ok /\ entry.code = r.code
    BY <1>3 DEF Entry, Entries, Results
<1>5. Finish(t, r) = f
    BY DEF Finish
<1> HIDE DEF entry, todo, results, rest
<1>6. /\ more \in Seq(Entries) /\ Len(more) = Len(results) + 1
      /\ \A i \in 1 .. Len(results) : more[i] = results[i]
      /\ more[Len(results) + 1] = entry
    BY <1>2, <1>4, AppendProperties
<1>7. /\ tail \in Seq(Entries) /\ Len(tail) \in Nat
      /\ \A i \in 1 .. Len(tail) : ~tail[i].ok /\ tail[i].code = "skipped"
  <2>1. CASE skips
    <3>1. tail = Skipped(rest)
      BY <2>1
    <3>2. /\ tail \in Seq(Entries) /\ Len(tail) = Len(rest)
          /\ \A i \in 1 .. Len(rest) : ~tail[i].ok /\ tail[i].code = "skipped"
      BY <3>1, <1>3, SkippedIs
    <3> HIDE DEF tail
    <3> QED
      BY <3>2, <1>3, LenProperties
  <2>2. CASE ~skips
    <3>1. tail = << >>
      BY <2>2
    <3> HIDE DEF tail
    <3> QED
      BY <3>1, EmptySeq
  <2> HIDE DEF tail
  <2> QED
    BY <2>1, <2>2
<1>8. tail = << >> \/ (tail = Skipped(rest) /\ stops)
    BY UpdatesAssumption DEF StopReason
<1>s. ~skips /\ stops => ~live \/ (t = Worker /\ r.code = "cancelled") \/ t = Task
    BY UpdatesAssumption DEF StopReason
<1>r. tail = Skipped(rest) \/ ~skips
    OBVIOUS
<1> HIDE DEF more, tail, stops, skips
<1>9. /\ told \in Seq(Entries) /\ Len(told) = Len(results) + 1 + Len(tail)
      /\ \A i \in 1 .. Len(told) : told[i] = IF i <= Len(results) + 1 THEN more[i]
                                             ELSE tail[i - (Len(results) + 1)]
  <2>1. /\ told \in Seq(Entries) /\ Len(told) = Len(more) + Len(tail)
        /\ \A i \in 1 .. Len(more) + Len(tail) :
             told[i] = IF i <= Len(more) THEN more[i] ELSE tail[i - Len(more)]
    BY <1>6, <1>7, ConcatProperties
  <2> HIDE DEF told
  <2> QED
    BY <2>1, <1>6
<1>10. Extends(told, results, Head(todo), r)
  <2> HIDE DEF told
  <2>1. Len(told) >= Len(results) + 1
    BY <1>2, <1>7, <1>9
  <2>2. ASSUME NEW i \in 1 .. Len(told)
        PROVE  \/ i <= Len(results) /\ told[i] = results[i]
               \/ i = Len(results) + 1 /\ told[i].package = Head(todo) /\ told[i].ok = r.ok
                  /\ told[i].code = r.code
               \/ i > Len(results) + 1 /\ ~told[i].ok /\ told[i].code = "skipped"
    <3>0. i \in Nat /\ i >= 1 /\ i <= Len(results) + 1 + Len(tail)
      BY <2>2, <1>2, <1>7, <1>9
    <3>1. CASE i <= Len(results)
      <4>1. i \in 1 .. Len(results) /\ i <= Len(results) + 1
        BY <3>0, <3>1, <1>2
      <4> QED
        BY <4>1, <1>6, <1>9
    <3>2. CASE i = Len(results) + 1
      BY <3>2, <1>4, <1>6, <1>9
    <3>3. CASE i > Len(results) + 1
      <4>1. i - (Len(results) + 1) \in 1 .. Len(tail) /\ ~(i <= Len(results) + 1)
        BY <3>0, <3>3, <1>2, <1>7
      <4> QED
        BY <4>1, <3>3, <1>7, <1>9
    <3> QED
      BY <3>0, <3>1, <3>2, <3>3, <1>2
  <2> QED
    BY <2>1, <2>2 DEF Extends
<1>11. /\ left \in Seq(Packages) /\ pc \in BodyPlaces \cup WorkerPlaces
       /\ pc \in {"loop", AfterLoop(t)} /\ (pc # "loop" => left = << >>)
       /\ (stops => pc # "loop" /\ left = << >>) /\ (~stops => left = rest)
    BY <1>3 DEF AfterLoop, BodyPlaces, WorkerPlaces
<1>12. ASSUME NEW packages \in Seq(Packages), Follows(results, todo, packages)
       PROVE  /\ Begins(told, packages)
              /\ \/ Follows(told, left, packages)
                 \/ pc # "loop" /\ ~live
                 \/ pc # "loop" /\ t = Worker /\ r.code = "cancelled"
                 \/ t = Task
  <2>1. Follows(more, rest, packages)
    BY <1>12, <1>2, <1>4, OneIsTold DEF more, rest
  <2>2. CASE tail = << >>
    <3>1. told = more
      BY <2>2, <1>6, ConcatEmptySeq
    <3>2. Begins(told, packages)
      BY <2>1, <3>1, <1>3, <1>6, BeginsWhileFollowing
    <3>3. CASE ~stops
      BY <3>1, <3>2, <3>3, <2>1, <1>11
    <3>4. CASE stops /\ ~skips
      BY <3>2, <3>4, <1>s, <1>11
    <3>5. CASE stops /\ skips
      <4>1. Len(Skipped(rest)) = Len(rest) /\ tail = Skipped(rest)
        BY <3>5, <1>3, <1>r, SkippedIs
      <4>2. Len(rest) = 0
        BY <4>1, <2>2
      <4>3. rest = << >>
        BY <4>2, <1>3, EmptySeq
      <4> QED
        BY <4>3, <3>1, <3>2, <3>5, <2>1, <1>11
    <3> QED
      BY <3>3, <3>4, <3>5
  <2>3. CASE tail = Skipped(rest) /\ stops
    <3>1. /\ Len(tail) = Len(rest)
          /\ \A i \in 1 .. Len(rest) : tail[i].package = rest[i]
      BY <2>3, <1>3, SkippedIs
    <3>2. rest \o << >> = rest
      BY <1>3, ConcatEmptySeq
    <3>3. Follows(more, rest \o << >>, packages)
      BY <2>1, <3>2
    <3>4. << >> \in Seq(Packages)
      BY EmptySeq
    <3>5. Follows(told, << >>, packages)
      BY <3>1, <3>3, <3>4, <1>3, <1>6, <1>7, SomeAreTold
    <3>6. Begins(told, packages)
      BY <3>5, <3>4, <1>9, BeginsWhileFollowing
    <3> QED
      BY <3>5, <3>6, <2>3, <1>11
  <2> QED
    BY <2>2, <2>3, <1>8
<1>13. /\ f \in Runs /\ f.pc = pc /\ f.todo = left /\ f.results = told
       /\ f.live = live /\ f.got = NoResult /\ f.before = {}
  <2>1. told \in Seq(Entries) /\ left \in Seq(Packages) /\ pc \in BodyPlaces \cup WorkerPlaces
    BY <1>9, <1>11
  <2> HIDE DEF told, left, pc
  <2>2. /\ f \in Runs /\ f.pc = pc /\ f.todo = left /\ f.results = told
        /\ f.live = run[t].live /\ f.doing = NoResult /\ f.got = NoResult /\ f.before = {}
    BY <1>1, <2>1, FinishedRun
  <2> QED
    BY <2>2
<1> HIDE DEF f, told, left, pc
<1> QED
    BY <1>5, <1>10, <1>11, <1>12, <1>13 DEF results, todo

-----------------------------------------------------------------------------
(***************************************************************************)
(* The steps of a thread through its packages.                             *)
(***************************************************************************)

LEMMA TheThreads ==
    /\ Body \in Threads /\ Task \in Threads /\ Worker \in Threads
    /\ Body # Task /\ Task # Worker /\ Worker # Body
    /\ \A t \in Threads : t \in {Body, Task, Worker}
    BY UpdatesAssumption

LEMMA TheMachine ==
    ASSUME UpdatesTypes
    PROVE  /\ machine.job \in Seq(Packages) /\ machine.task \in Seq(Packages)
           /\ machine.texts \subseteq SUBSET (Signs \ {"consent"}) /\ machine.codes \subseteq Codes
           /\ \A i, j \in DOMAIN machine.job : machine.job[i] = machine.job[j] => i = j
           /\ machine.mayCancel \subseteq {Body, Task}
           /\ machine.matches \in [Packages -> SUBSET Packages]
    BY UpdatesAssumption DEF UpdatesTypes

LEMMA GotRun ==
    ASSUME NEW r \in Runs, NEW got \in Results
    PROVE  LET f == [r EXCEPT !.got = got]
           IN /\ f \in Runs /\ f.pc = r.pc /\ f.doing = r.doing /\ f.got = got
              /\ f.before = r.before
              /\ f.todo = r.todo /\ f.results = r.results /\ f.live = r.live
    BY DEF Runs

LEMMA EarnedStays ==
    ASSUME NEW results, NEW done, NEW more, done \subseteq more, Earned(results, done)
    PROVE  Earned(results, more)
    BY DEF Earned

LEMMA SoundStays ==
    ASSUME NEW r, NEW t, NEW done, NEW more, done \subseteq more, RunIsSound(r, t, done)
    PROVE  RunIsSound(r, t, more)
    BY EarnedStays DEF RunIsSound, RunIsEarned

\* One thread's run changes.
LEMMA RunChanges ==
    ASSUME UpdatesTypes, RunsAreSound, NEW t \in Threads, NEW r, Set(t, r),
           NEW done, earned \subseteq done, RunIsSound(r, t, done)
    PROVE  /\ run' \in [Threads -> Runs]
           /\ run'[t] = r
           /\ \A u \in Threads : u # t => run'[u] = run[u]
           /\ \A u \in Threads : RunIsSound(run'[u], u, done)
<1>1. run \in [Threads -> Runs] /\ r \in Runs /\ run' = [run EXCEPT ![t] = r]
    BY DEF UpdatesTypes, RunIsSound, Set
<1>2. /\ run' \in [Threads -> Runs] /\ run'[t] = r
      /\ \A u \in Threads : u # t => run'[u] = run[u]
    BY <1>1
<1>3. \A u \in Threads : u # t => RunIsSound(run[u], u, done)
    BY SoundStays DEF RunsAreSound
<1> QED
    BY <1>2, <1>3

\* The packages and results stay.
Kept(t, r) == r.results = run[t].results /\ r.todo = run[t].todo /\ r.live = run[t].live
\* A result is recorded, and the job notices a cancel.
Recorded(t, r, job1) ==
    \E res \in Results :
      /\ r = Finish(t, res)
      /\ job1 = IF t = Body /\ (~run[t].live \/ res.code = "cancelled")
                THEN [job EXCEPT !.state = "cancelled"] ELSE job

LEMMA RecordIs ==
    ASSUME UpdatesTypes, RunsAreSound, NEW t \in Threads, run[t].todo # << >>,
           NEW r \in Results, Record(t, r), NEW done, earned \subseteq done,
           run[t].live /\ r.ok => Head(run[t].todo) \in done
    PROVE  \E f : Set(t, f) /\ RunIsSound(f, t, done) /\ f.live = run[t].live /\ Recorded(t, f, job')
<1> DEFINE all == [r EXCEPT !.says = @ \cup run[t].before]
           f == Finish(t, all)
<1>1. run[t] \in Runs /\ RunIsSound(run[t], t, earned)
    BY DEF UpdatesTypes, RunsAreSound
<1>2. all \in Results /\ all.ok = r.ok /\ all.code = r.code
  <2>1. all = [r EXCEPT !.says = r.says \cup run[t].before]
        /\ r.says \cup run[t].before \in SUBSET Signs
    BY <1>1, MembersOf DEF Results
  <2> HIDE DEF all
  <2> QED
    BY <2>1, SaysMore
<1>3. Set(t, f) /\ job' = IF t = Body /\ (~run[t].live \/ r.code = "cancelled")
                          THEN [job EXCEPT !.state = "cancelled"] ELSE job
    BY DEF Record
<1> HIDE DEF all
<1>4. /\ f \in Runs /\ f.pc \in {"loop", AfterLoop(t)} /\ (f.pc # "loop" => f.todo = << >>)
      /\ f.live = run[t].live /\ f.got = NoResult /\ f.before = {}
      /\ Extends(f.results, run[t].results, Head(run[t].todo), all)
    BY <1>2, FinishIs
<1>5. Recorded(t, f, job')
    BY <1>2, <1>3 DEF Recorded
<1> HIDE DEF f
<1>6. KnowsItsPackage(f, t)
    BY <1>4, TheThreads
       DEF KnowsItsPackage, AfterLoop, PlacesOf, BodyPlaces, WorkerPlaces, TaskPlaces
<1>a. f.pc \in {"loop", "refresh", "answer", "ended"}
    BY <1>4 DEF AfterLoop
<1>7. RefusalEnds(f)
    BY <1>4, <1>a DEF RefusalEnds
<1>8. f.live => Earned(f.results, done)
  <2> SUFFICES ASSUME run[t].live PROVE Earned(f.results, done)
    BY <1>4
  <2>1. Earned(run[t].results, done)
    BY <1>1, EarnedStays DEF RunIsSound, RunIsEarned
  <2>2. Len(f.results) \in Nat /\ Len(run[t].results) \in Nat
    BY <1>1, <1>4, MembersOf
  <2>3. ASSUME NEW i \in 1 .. Len(f.results), f.results[i].ok PROVE f.results[i].package \in done
    <3>1. CASE i <= Len(run[t].results) /\ f.results[i] = run[t].results[i]
      <4>1. i \in 1 .. Len(run[t].results)
        BY <3>1, <2>2
      <4> QED
        BY <4>1, <3>1, <2>1, <2>3 DEF Earned
    <3>2. CASE f.results[i].package = Head(run[t].todo) /\ f.results[i].ok = all.ok
      BY <3>2, <2>3, <1>2
    <3> QED
      BY <3>1, <3>2, <2>3, <1>4 DEF Extends
  <2> QED
    BY <2>3 DEF Earned
<1>9. RunIsEarned(f, done)
    BY <1>8, <1>a DEF RunIsEarned
<1> QED
    BY <1>3, <1>4, <1>5, <1>6, <1>7, <1>9 DEF RunIsSound, f

\* What a step of thread t at a command, or after one, does to its run.
Advances(t, r) ==
    /\ Set(t, r) /\ RunIsSound(r, t, earned') /\ r.live = run[t].live
    /\ \/ Kept(t, r) /\ job' = job /\ r.pc \in {"command", "look again"}
       \/ Recorded(t, r, job')
    /\ earned \subseteq earned' /\ earned' \subseteq Packages
    /\ UNCHANGED <<machine, deaths, call>>

\* The place of a run that stays with its package.
LEMMA StaysSound ==
    ASSUME NEW t \in Threads, UpdatesTypes, RunsAreSound, NEW r \in Runs, Kept(t, r),
           NEW done, earned \subseteq done,
           RefusalEnds(r), KnowsItsPackage(r, t),
           r.pc \notin {"returned"},
           r.pc = "command" =>
             (r.got # NoResult /\ Succeeds(r.doing, r.got) => r.doing.package \in done),
           r.pc = "look again" => ~r.got.ok
    PROVE  RunIsSound(r, t, done)
<1>1. r.live => Earned(r.results, done)
    BY EarnedStays DEF RunsAreSound, RunIsSound, RunIsEarned, Kept
<1> QED
    BY <1>1 DEF RunIsSound, RunIsEarned

\* A command came back with result r.
LEMMA GotAdvances ==
    ASSUME UpdatesTypes, RunsAreSound, NEW t \in Threads, run[t].pc = "command",
           NEW r \in Results, Silent(r.says),
           Set(t, [run[t] EXCEPT !.got = r]),
           Succeeds(run[t].doing, r) => run[t].doing.package \in earned',
           earned \subseteq earned', earned' \subseteq Packages,
           UNCHANGED <<machine, deaths, call, job>>
    PROVE  \E f : Advances(t, f)
<1> DEFINE f == [run[t] EXCEPT !.got = r]
<1>1. run[t] \in Runs /\ RunIsSound(run[t], t, earned)
    BY DEF UpdatesTypes, RunsAreSound
<1>2. /\ f \in Runs /\ f.pc = "command" /\ f.doing = run[t].doing /\ f.got = r
      /\ f.before = run[t].before /\ f.todo = run[t].todo /\ f.results = run[t].results
      /\ f.live = run[t].live
    BY <1>1, GotRun
<1>3. Set(t, f)
    OBVIOUS
<1> HIDE DEF f
<1>4. Kept(t, f)
    BY <1>2 DEF Kept
<1>5. RefusalEnds(f)
    BY <1>1, <1>2 DEF RunIsSound, RefusalEnds, Silent
<1>6. KnowsItsPackage(f, t)
    BY <1>1, <1>2 DEF RunIsSound, KnowsItsPackage
<1>7. RunIsSound(f, t, earned')
    BY <1>2, <1>4, <1>5, <1>6, StaysSound
<1> QED
    BY <1>2, <1>3, <1>4, <1>7 DEF Advances

\* It came back without success.
LEMMA FailureAdvances ==
    ASSUME UpdatesTypes, RunsAreSound, NEW t \in Threads, run[t].pc = "command",
           NEW code \in {"cancelled", "timeout", "failed"},
           Set(t, [run[t] EXCEPT !.got = Result(code, {})]),
           UNCHANGED <<machine, deaths, call, job, earned>>
    PROVE  \E f : Advances(t, f)
<1> DEFINE r == Result(code, {})
<1>1. r \in Results /\ ~r.ok /\ Silent(r.says)
  <2>1. code \in Codes /\ {} \in SUBSET Signs
    BY DEF Codes
  <2> QED
    BY <2>1, ResultIsTyped DEF Silent
<1>2. Set(t, [run[t] EXCEPT !.got = r])
    OBVIOUS
<1> HIDE DEF r
<1>3. ~Succeeds(run[t].doing, r)
  <2>1. run[t].doing \in Attempts
    BY DEF RunsAreSound, RunIsSound, KnowsItsPackage
  <2> QED
    BY <1>1, <2>1, CheckedIs DEF Succeeds
<1>4. earned \subseteq Packages
    BY DEF UpdatesTypes
<1> QED
    BY <1>1, <1>2, <1>3, <1>4, GotAdvances

LEMMA BeginAdvances ==
    ASSUME UpdatesTypes, RunsAreSound, NEW t \in Threads, BeginCommand(t)
    PROVE  \E f : Advances(t, f)
<1>1. run[t].pc = "command" /\ UNCHANGED <<machine, deaths, call, job, earned>>
    BY DEF BeginCommand, At
<1>2. earned \subseteq Packages
    BY DEF UpdatesTypes
<1>3. CASE UNCHANGED run
  <2>1. run \in [Threads -> Runs] /\ RunIsSound(run[t], t, earned)
    BY DEF UpdatesTypes, RunsAreSound
  <2>2. Set(t, run[t])
    BY <1>3, <2>1 DEF Set
  <2>3. Advances(t, run[t])
    BY <1>1, <1>2, <2>1, <2>2 DEF Advances, Kept
  <2> QED
    BY <2>3
<1>4. ASSUME NEW code \in DoneCodes(t), Set(t, [run[t] EXCEPT !.got = Result(code, {})])
      PROVE  \E f : Advances(t, f)
  <2>1. code \in {"cancelled", "timeout", "failed"}
    BY DEF DoneCodes
  <2> QED
    BY <1>1, <1>2, <1>4, <2>1, FailureAdvances
<1> QED
    BY <1>3, <1>4 DEF BeginCommand

LEMMA FailsAdvances ==
    ASSUME UpdatesTypes, RunsAreSound, NEW t \in Threads, run[t].pc = "command", CommandFails(t)
    PROVE  \E f : Advances(t, f)
<1>1. UNCHANGED <<machine, deaths, call, job, earned>>
    BY DEF CommandFails
<1>3. PICK code \in {"cancelled", "timeout", "failed"} :
        Set(t, [run[t] EXCEPT !.got = Result(code, {})])
    BY DEF CommandFails, DoneCodes
<1> QED
    BY <1>1, <1>3, FailureAdvances

LEMMA EndsAdvances ==
    ASSUME UpdatesTypes, RunsAreSound, NEW t \in Threads, run[t].pc = "command", CommandEnds(t)
    PROVE  \E f : Advances(t, f)
<1>1. UNCHANGED <<machine, deaths, call, job>>
    BY DEF CommandEnds
<1>2. PICK code \in machine.codes \cup {"cancelled", "timeout"},
           text \in machine.texts :
        LET r == Normalized(Result(code, text))
        IN /\ Set(t, [run[t] EXCEPT !.got = r])
           /\ earned' = IF Succeeds(run[t].doing, r)
                        THEN earned \cup {run[t].doing.package} ELSE earned
    BY DEF CommandEnds, DoneCodes
<1> DEFINE r == Normalized(Result(code, text))
<1>3. code \in Codes /\ text \in SUBSET (Signs \ {"consent"})
    BY TheMachine DEF Codes
<1>4. r \in Results /\ Silent(r.says)
  <2> DEFINE c == Result(code, text)
  <2>1. c \in Results /\ c.says = text
    BY <1>3, ResultIsTyped
  <2> HIDE DEF c
  <2>2. Normalized(c) \in Results /\ Normalized(c).says = text
    BY <2>1 DEF Normalized, Results
  <2> QED
    BY <1>3, <2>2 DEF Silent, c
<1>5. /\ Set(t, [run[t] EXCEPT !.got = r])
      /\ earned' = IF Succeeds(run[t].doing, r)
                   THEN earned \cup {run[t].doing.package} ELSE earned
    BY <1>2
<1> HIDE DEF r
<1>6. run[t].doing.package \in Packages /\ earned \subseteq Packages
  <2>1. run[t].doing \in Attempts
    BY DEF RunsAreSound, RunIsSound, KnowsItsPackage
  <2> QED
    BY <2>1 DEF Attempts, UpdatesTypes
<1> QED
    BY <1>1, <1>4, <1>5, <1>6, GotAdvances

\* What is told of a Store package succeeded only if the runner did.
LEMMA StoreResultIs ==
    ASSUME NEW r \in Results, NEW live \in BOOLEAN, NEW res \in StoreResults(r, live)
    PROVE  res \in Results /\ (res.ok => r.ok)
<1>1. r.says \in SUBSET Signs
    BY DEF Results
<1>2. \A code \in {"ok", "accepted", "cancelled"} :
        Result(code, r.says) \in Results /\ (Result(code, r.says).ok => code = "ok")
  <2> TAKE code \in {"ok", "accepted", "cancelled"}
  <2>1. code \in Codes
    BY DEF Codes
  <2> QED
    BY <1>1, <2>1, ResultIsTyped DEF Result
<1>3. CASE ~r.ok \/ r.code = "cancelled"
  <2>1. res = r \/ res = Result("cancelled", r.says)
    BY <1>3 DEF StoreResults
  <2> QED
    BY <2>1, <1>2
<1>4. CASE r.ok /\ r.code # "cancelled"
  <2>1. PICK code \in {"ok", "accepted", "cancelled"} : res = Result(code, r.says)
    BY <1>4 DEF StoreResults
  <2> QED
    BY <2>1, <1>2, <1>4
<1> QED
    BY <1>3, <1>4 DEF Results

\* One try of the package is over.
LEMMA TryAdvances ==
    ASSUME UpdatesTypes, RunsAreSound, NEW t \in Threads, run[t].todo # << >>,
           NEW r \in Results, TryEnds(t, r),
           run[t].live /\ r.ok => Head(run[t].todo) \in earned,
           UNCHANGED <<machine, deaths, call, earned>>
    PROVE  \E f : Advances(t, f)
<1>1. run[t] \in Runs /\ RunIsSound(run[t], t, earned) /\ earned \subseteq Packages
    BY DEF UpdatesTypes, RunsAreSound
<1>2. CASE LooksAgain(t, r) /\ UNCHANGED job
           /\ Set(t, [run[t] EXCEPT !.pc = "look again", !.got = r, !.doing = NoResult])
  <2> DEFINE f == [run[t] EXCEPT !.pc = "look again", !.got = r, !.doing = NoResult]
  <2>1. /\ f \in Runs /\ f.pc = "look again" /\ f.got = r /\ f.before = run[t].before
        /\ f.todo = run[t].todo /\ f.results = run[t].results /\ f.live = run[t].live
    BY <1>1 DEF Runs, BodyPlaces
  <2>2. Set(t, f)
    BY <1>2
  <2> HIDE DEF f
  <2>3. t = Body /\ ~r.ok /\ "consent" \notin r.says
    BY <1>2 DEF LooksAgain, Alternate, Retryable
  <2>4. Kept(t, f)
    BY <2>1 DEF Kept
  <2>5. RefusalEnds(f)
    BY <1>1, <2>1, <2>3 DEF RunIsSound, RefusalEnds
  <2>6. KnowsItsPackage(f, t)
    BY <2>1, <2>3 DEF KnowsItsPackage, PlacesOf, BodyPlaces
  <2>7. RunIsSound(f, t, earned')
    BY <2>1, <2>3, <2>4, <2>5, <2>6, StaysSound
  <2> QED
    BY <1>1, <1>2, <2>1, <2>2, <2>4, <2>7 DEF Advances
<1>3. ASSUME NEW res \in Results, Record(t, res), run[t].live /\ res.ok => Head(run[t].todo) \in earned
      PROVE  \E f : Advances(t, f)
  <2>1. PICK f : Set(t, f) /\ RunIsSound(f, t, earned) /\ f.live = run[t].live /\ Recorded(t, f, job')
    BY <1>3, RecordIs
  <2> QED
    BY <1>1, <2>1 DEF Advances
<1>4. CASE Record(t, r)
    BY <1>3, <1>4
<1>5. ASSUME NEW res \in StoreResults(r, run[t].live), Record(t, res)
      PROVE  \E f : Advances(t, f)
  <2>1. res \in Results /\ (run[t].live /\ res.ok => r.ok)
    BY <1>1, <1>5, MembersOf, StoreResultIs
  <2> QED
    BY <1>5, <2>1, <1>3
<1> QED
    BY <1>2, <1>4, <1>5 DEF TryEnds

LEMMA DecideAdvances ==
    ASSUME UpdatesTypes, RunsAreSound, NEW t \in Threads, Decide(t)
    PROVE  \E f : Advances(t, f)
<1> DEFINE a == run[t].doing
           o == run[t].got
           live == run[t].live
           after == AfterAttempt(a, o, live)
<1>0. run[t].pc = "command" /\ o # NoResult /\ UNCHANGED <<machine, deaths, call, earned>>
    BY DEF Decide, At
<1>1. run[t] \in Runs /\ RunIsSound(run[t], t, earned) /\ earned \subseteq Packages
    BY DEF UpdatesTypes, RunsAreSound
<1>2. a \in Attempts /\ o \in Results /\ live \in BOOLEAN /\ run[t].todo # << >>
      /\ Head(run[t].todo) = a.package /\ SilentAttempt(a) /\ Silent(o.says)
      /\ (Succeeds(a, o) => a.package \in earned)
    BY <1>0, <1>1, MembersOf
       DEF RunIsSound, KnowsItsPackage, RefusalEnds, RunIsEarned, SilentAttempt, Silent
<1>3. /\ \/ ~after.over /\ Set(t, ToCommand(t, after.next)) /\ UNCHANGED job
         \/ after.over /\ TryEnds(t, after.result)
    BY DEF Decide
<1>4. /\ Outcome(after, a.package, Checked(a, o).ok, SilentAttempt(a) /\ Silent(o.says))
      /\ Checked(a, o).ok => o.ok
      /\ after.over /\ live /\ o.ok => OnPackage(a)
    BY <1>2, AttemptOutcome, CheckedIs
<1> HIDE DEF after
<1>5. CASE \E r \in Results : after = Over(r) /\ (r.ok => Checked(a, o).ok)
  <2>1. PICK r \in Results : after = Over(r) /\ (r.ok => Checked(a, o).ok)
    BY <1>5
  <2>2. after.over /\ after.result = r
    BY <2>1 DEF Over
  <2>3. TryEnds(t, r)
    BY <1>3, <2>2
  <2>4. live /\ r.ok => Head(run[t].todo) \in earned
    BY <1>2, <1>4, <2>1, <2>2 DEF Succeeds
  <2> QED
    BY <1>0, <1>2, <2>3, <2>4, TryAdvances
<1>6. CASE \E b \in Attempts : after = Goes(b) /\ b.package = a.package /\ SilentAttempt(b)
  <2>1. PICK b \in Attempts : after = Goes(b) /\ b.package = a.package /\ SilentAttempt(b)
    BY <1>6
  <2>2. ~after.over /\ after.next = b
    BY <2>1 DEF Goes
  <2> DEFINE f == ToCommand(t, b)
  <2>3. Set(t, f) /\ UNCHANGED job
    BY <1>3, <2>2
  <2>4. /\ f \in Runs /\ f.pc = "command" /\ f.got = NoResult /\ f.doing = b
        /\ f.before = run[t].before
        /\ f.todo = run[t].todo /\ f.results = run[t].results /\ f.live = run[t].live
    BY <1>1 DEF Runs, BodyPlaces, ToCommand
  <2> HIDE DEF f
  <2>5. Kept(t, f)
    BY <2>4 DEF Kept
  <2>6. RefusalEnds(f)
    BY <1>1, <2>1, <2>4 DEF RunIsSound, RefusalEnds, SilentAttempt, Silent
  <2>7. KnowsItsPackage(f, t)
    BY <1>0, <1>1, <1>2, <2>1, <2>4 DEF RunIsSound, KnowsItsPackage
  <2>8. RunIsSound(f, t, earned')
    BY <1>0, <2>4, <2>5, <2>6, <2>7, StaysSound
  <2> QED
    BY <1>0, <1>1, <2>3, <2>4, <2>5, <2>8 DEF Advances
<1> QED
    BY <1>2, <1>4, <1>5, <1>6 DEF Outcome

\* A try of the next package starts, by itself or with the worker.
StartsTry(t, r) ==
    /\ Set(t, r) /\ RunIsSound(r, t, earned) /\ Kept(t, r)
    /\ run[t].todo # << >> /\ Head(run[t].todo) \in Packages
    /\ \/ r.pc = "command" /\ UNCHANGED call
       \/ t = Body /\ r.pc = "worker" /\ call' = Call(<<Head(run[t].todo)>>, FALSE)
    /\ UNCHANGED <<machine, deaths, job, earned>>

\* A loop is over, or its cancel is noticed.
StopsLoop(t, r) ==
    /\ Set(t, r) /\ RunIsSound(r, t, earned)
    /\ r.live = run[t].live /\ r.results = run[t].results /\ r.todo = << >> /\ r.pc = AfterLoop(t)
    /\ run[t].todo = << >> \/ Halts(t)
    /\ job' = IF t = Body /\ run[t].todo # << >> THEN [job EXCEPT !.state = "cancelled"] ELSE job
    /\ UNCHANGED <<machine, deaths, call, earned>>

\* A try that starts, with the text of the try before it.
LEMMA TryStarts ==
    ASSUME UpdatesTypes, RunsAreSound, NEW t \in Threads, run[t].todo # << >>,
           NEW p, p = Head(run[t].todo), NEW again \in BOOLEAN, NEW before \in SUBSET Signs,
           Silent(before),
           NEW r, Set(t, r), UNCHANGED <<machine, deaths, job, earned>>,
           \/ /\ t = Body /\ call' = Call(<<p>>, FALSE)
              /\ r = [run[t] EXCEPT !.pc = "worker", !.got = NoResult, !.again = again,
                                    !.before = before]
           \/ /\ UNCHANGED call
              /\ \E a \in FirstAttempts(p) :
                   r = [ToCommand(t, a) EXCEPT !.again = again, !.before = before]
    PROVE  StartsTry(t, r)
<1>1. run[t] \in Runs /\ RunIsSound(run[t], t, earned)
    BY DEF UpdatesTypes, RunsAreSound
<1>2. p \in Packages
    BY <1>1, MembersOf, HeadTailProperties
<1>3. CASE /\ t = Body /\ call' = Call(<<p>>, FALSE)
           /\ r = [run[t] EXCEPT !.pc = "worker", !.got = NoResult, !.again = again,
                                 !.before = before]
  <2>1. /\ r \in Runs /\ r.pc = "worker" /\ r.got = NoResult /\ r.before = before
        /\ r.todo = run[t].todo /\ r.results = run[t].results /\ r.live = run[t].live
    BY <1>1, <1>3 DEF Runs, BodyPlaces
  <2>2. Kept(t, r) /\ RefusalEnds(r)
    BY <2>1 DEF Kept, RefusalEnds, Silent
  <2>3. KnowsItsPackage(r, t)
    BY <1>3, <2>1 DEF KnowsItsPackage, PlacesOf, BodyPlaces
  <2>4. RunIsSound(r, t, earned)
    BY <2>1, <2>2, <2>3, StaysSound
  <2> QED
    BY <1>2, <1>3, <2>1, <2>2, <2>4 DEF StartsTry
<1>4. ASSUME UNCHANGED call, NEW a \in FirstAttempts(p),
             r = [ToCommand(t, a) EXCEPT !.again = again, !.before = before]
      PROVE  StartsTry(t, r)
  <2>1. a \in Attempts /\ a.package = p /\ SilentAttempt(a)
    BY <1>2, FirstIsTyped
  <2>2. r = [run[t] EXCEPT !.pc = "command", !.doing = a, !.got = NoResult, !.again = again,
                           !.before = before]
    BY <1>1, <1>4 DEF ToCommand, Runs
  <2>3. /\ r \in Runs /\ r.pc = "command" /\ r.doing = a /\ r.got = NoResult /\ r.before = before
        /\ r.todo = run[t].todo /\ r.results = run[t].results /\ r.live = run[t].live
    BY <1>1, <2>1, <2>2 DEF Runs, BodyPlaces
  <2>4. Kept(t, r)
    BY <2>3 DEF Kept
  <2>5. RefusalEnds(r)
    BY <2>1, <2>3 DEF RefusalEnds, SilentAttempt, Silent
  <2>6. KnowsItsPackage(r, t)
    BY <2>1, <2>3 DEF KnowsItsPackage, PlacesOf, BodyPlaces, WorkerPlaces, TaskPlaces
  <2>7. RunIsSound(r, t, earned)
    BY <2>3, <2>4, <2>5, <2>6, StaysSound
  <2> QED
    BY <1>2, <1>4, <2>3, <2>4, <2>7 DEF StartsTry
<1> QED
    BY <1>3, <1>4

LEMMA NextPackageIs ==
    ASSUME UpdatesTypes, RunsAreSound, NEW t \in Threads, NextPackage(t)
    PROVE  \E r : \/ StartsTry(t, r) \/ StopsLoop(t, r)
                  \/ Advances(t, r) /\ run[t].todo # << >>
<1>1. run[t] \in Runs /\ RunIsSound(run[t], t, earned) /\ run[t].pc = "loop"
    BY DEF UpdatesTypes, RunsAreSound, NextPackage, At
<1>2. UNCHANGED <<machine, deaths>>
    BY DEF NextPackage
<1>3. CASE /\ run[t].todo = << >> \/ Halts(t)
           /\ Set(t, [run[t] EXCEPT !.pc = AfterLoop(t), !.todo = << >>])
           /\ job' = IF t = Body /\ run[t].todo # << >>
                     THEN [job EXCEPT !.state = "cancelled"] ELSE job
           /\ UNCHANGED <<call, earned>>
  <2> DEFINE pc == AfterLoop(t)
             r == [run[t] EXCEPT !.pc = pc, !.todo = << >>]
  <2>1. pc \in {"refresh", "answer", "ended"} /\ pc \in BodyPlaces \cup WorkerPlaces /\ pc \in PlacesOf(t)
    BY TheThreads DEF AfterLoop, PlacesOf, BodyPlaces, WorkerPlaces, TaskPlaces
  <2>2. << >> \in Seq(Packages)
    BY EmptySeq
  <2>3. Set(t, r)
    BY <1>3
  <2> HIDE DEF pc
  <2>4. /\ r \in Runs /\ r.pc = pc /\ r.todo = << >> /\ r.before = run[t].before
        /\ r.results = run[t].results /\ r.live = run[t].live
    BY <1>1, <2>1, <2>2 DEF Runs
  <2> HIDE DEF r
  <2>5. KnowsItsPackage(r, t)
    BY <2>1, <2>4 DEF KnowsItsPackage
  <2>6. RefusalEnds(r)
    BY <1>1, <2>1, <2>4 DEF RefusalEnds, RunIsSound
  <2>7. RunIsEarned(r, earned)
    BY <1>1, <2>1, <2>4 DEF RunIsEarned, RunIsSound
  <2>8. StopsLoop(t, r)
    BY <1>2, <1>3, <2>3, <2>4, <2>5, <2>6, <2>7 DEF StopsLoop, RunIsSound, pc
  <2> QED
    BY <2>8
<1>4. CASE run[t].todo # << >> /\ Try(t, Head(run[t].todo))
  <2> DEFINE p == Head(run[t].todo)
             again == run[t].again
             before == run[t].before
  <2>1. again \in BOOLEAN /\ before \in SUBSET Signs /\ Silent(before)
    BY <1>1, MembersOf DEF RunIsSound, RefusalEnds, Silent
  <2>2. CASE /\ t = Body /\ call' = Call(<<p>>, FALSE) /\ UNCHANGED <<job, earned>>
             /\ Set(t, [run[t] EXCEPT !.pc = "worker", !.got = NoResult])
    <3>1. [run[t] EXCEPT !.pc = "worker", !.got = NoResult]
            = [run[t] EXCEPT !.pc = "worker", !.got = NoResult, !.again = again, !.before = before]
      BY <1>1 DEF Runs
    <3> DEFINE r == [run[t] EXCEPT !.pc = "worker", !.got = NoResult, !.again = again,
                                   !.before = before]
    <3>2. Set(t, r)
      BY <2>2, <3>1
    <3> HIDE DEF again, before
    <3>3. StartsTry(t, r)
      BY <1>2, <1>4, <2>1, <2>2, <3>2, TryStarts
    <3> QED
      BY <3>3
  <2>3. ASSUME NEW a \in FirstAttempts(p), Set(t, ToCommand(t, a)),
               UNCHANGED <<call, job, earned>>
        PROVE  \E r : StartsTry(t, r)
    <3>1. ToCommand(t, a) = [ToCommand(t, a) EXCEPT !.again = again, !.before = before]
      BY <1>1 DEF Runs, ToCommand
    <3> DEFINE r == [ToCommand(t, a) EXCEPT !.again = again, !.before = before]
    <3>2. Set(t, r)
      BY <2>3, <3>1
    <3> HIDE DEF again, before
    <3>3. StartsTry(t, r)
      BY <1>2, <1>4, <2>1, <2>3, <3>2, TryStarts
    <3> QED
      BY <3>3
  <2>4. ASSUME NEW code \in {"ok", "failed"}, Record(t, Result(code, {})), UNCHANGED call,
               earned' = IF code = "ok" THEN earned \cup {p} ELSE earned
        PROVE  \E r : Advances(t, r) /\ run[t].todo # << >>
    <3> DEFINE res == Result(code, {})
    <3>1. res \in Results /\ (res.ok => code = "ok")
      <4>1. code \in Codes /\ {} \in SUBSET Signs
        BY DEF Codes
      <4> QED
        BY <4>1, ResultIsTyped DEF Result
    <3>2. Record(t, res)
      BY <2>4
    <3>3. p \in Packages /\ earned \subseteq Packages
      BY <1>1, <1>4, MembersOf, HeadTailProperties DEF UpdatesTypes
    <3>4. earned \subseteq earned' /\ earned' \subseteq Packages /\ (res.ok => p \in earned')
      BY <2>4, <3>1, <3>3
    <3> HIDE DEF res
    <3>5. PICK r : Set(t, r) /\ RunIsSound(r, t, earned') /\ r.live = run[t].live
                   /\ Recorded(t, r, job')
      BY <1>4, <3>1, <3>2, <3>4, RecordIs
    <3> QED
      BY <1>2, <1>4, <2>4, <3>4, <3>5 DEF Advances
  <2> QED
    BY <1>4, <2>2, <2>3, <2>4 DEF Try, Elevates
<1> QED
    BY <1>3, <1>4 DEF NextPackage

LEMMA LookAgainIs ==
    ASSUME UpdatesTypes, RunsAreSound, LookAgain
    PROVE  \E r : StartsTry(Body, r) \/ Advances(Body, r)
<1> DEFINE o == run[Body].got
           p == Head(run[Body].todo)
<1>1. run[Body] \in Runs /\ RunIsSound(run[Body], Body, earned) /\ run[Body].pc = "look again"
      /\ earned \subseteq Packages
    BY TheThreads DEF UpdatesTypes, RunsAreSound, LookAgain, At
<1>2. run[Body].todo # << >> /\ o \in Results /\ ~o.ok /\ Silent(o.says) /\ o.says \in SUBSET Signs
    BY <1>1 DEF RunIsSound, KnowsItsPackage, RefusalEnds, RunIsEarned, Silent, Results
<1>3. p \in Packages
    BY <1>1, <1>2, MembersOf, HeadTailProperties
<1>4. UNCHANGED <<machine, deaths>>
    BY DEF LookAgain
<1>5. ASSUME NEW res \in Results, Record(Body, res), UNCHANGED call,
             earned \subseteq earned', earned' \subseteq Packages, res.ok => p \in earned'
      PROVE  \E r : Advances(Body, r)
  <2>1. PICK r : Set(Body, r) /\ RunIsSound(r, Body, earned') /\ r.live = run[Body].live
                 /\ Recorded(Body, r, job')
    BY <1>2, <1>5, TheThreads, RecordIs
  <2> QED
    BY <1>4, <1>5, <2>1 DEF Advances
<1>6. CASE Record(Body, o) /\ UNCHANGED <<earned, call>>
    BY <1>1, <1>2, <1>5, <1>6
<1>7. CASE Record(Body, Result("ok", o.says)) /\ earned' = earned \cup {p} /\ UNCHANGED call
  <2> DEFINE res == Result("ok", o.says)
  <2>1. res \in Results
    <3>1. "ok" \in Codes
      BY DEF Codes
    <3> QED
      BY <1>2, <3>1, ResultIsTyped
  <2>2. Record(Body, res)
    BY <1>7
  <2> HIDE DEF res
  <2> QED
    BY <1>1, <1>3, <1>5, <1>7, <2>1, <2>2
<1>8. CASE /\ IF Elevates(Body, p)
              THEN /\ Set(Body, [run[Body] EXCEPT !.pc = "worker", !.got = NoResult,
                                                  !.again = TRUE, !.before = o.says])
                   /\ call' = Call(<<p>>, FALSE)
              ELSE /\ Set(Body, [ToCommand(Body, Attempt(p, 1, {})) EXCEPT
                                                  !.again = TRUE, !.before = o.says])
                   /\ UNCHANGED call
           /\ UNCHANGED <<job, earned>>
  <2> DEFINE says == o.says
             a == Attempt(p, 1, {})
  <2>1. TRUE \in BOOLEAN /\ says \in SUBSET Signs /\ Silent(says)
    BY <1>2
  <2>2. CASE /\ Set(Body, [run[Body] EXCEPT !.pc = "worker", !.got = NoResult,
                                            !.again = TRUE, !.before = says])
             /\ call' = Call(<<p>>, FALSE)
    <3> DEFINE r == [run[Body] EXCEPT !.pc = "worker", !.got = NoResult,
                                      !.again = TRUE, !.before = says]
    <3>1. Set(Body, r)
      BY <2>2
    <3> HIDE DEF says
    <3>2. StartsTry(Body, r)
      BY <1>2, <1>4, <1>8, <2>1, <2>2, <3>1, TheThreads, TryStarts
    <3> QED
      BY <3>2
  <2>3. CASE /\ Set(Body, [ToCommand(Body, a) EXCEPT !.again = TRUE, !.before = says])
             /\ UNCHANGED call
    <3> DEFINE r == [ToCommand(Body, a) EXCEPT !.again = TRUE, !.before = says]
    <3>1. Set(Body, r)
      BY <2>3
    <3>a. a \in FirstAttempts(p)
      BY DEF FirstAttempts
    <3> HIDE DEF says, a
    <3>2. StartsTry(Body, r)
      BY <1>2, <1>4, <1>8, <2>1, <2>3, <3>1, <3>a, TheThreads, TryStarts
    <3> QED
      BY <3>2
  <2> QED
    BY <1>8, <2>2, <2>3
<1> QED
    BY <1>6, <1>7, <1>8 DEF LookAgain

LEMMA ReturnedIs ==
    ASSUME UpdatesTypes, RunsAreSound, Returned
    PROVE  \E r : Advances(Body, r)
<1>1. run[Body] \in Runs /\ RunIsSound(run[Body], Body, earned) /\ run[Body].pc = "returned"
    BY TheThreads DEF UpdatesTypes, RunsAreSound, Returned, At
<1>2. /\ run[Body].todo # << >> /\ run[Body].got \in Results
      /\ run[Body].live /\ run[Body].got.ok => Head(run[Body].todo) \in earned
    BY <1>1 DEF RunIsSound, KnowsItsPackage, RunIsEarned
<1>3. TryEnds(Body, run[Body].got) /\ UNCHANGED <<machine, deaths, call, earned>>
    BY DEF Returned
<1> QED
    BY <1>2, <1>3, TheThreads, TryAdvances

-----------------------------------------------------------------------------
(***************************************************************************)
(* What the steps of a thread leave true of the call and of the job.       *)
(***************************************************************************)

LEMMA TheBody ==
    ASSUME UpdatesTypes
    PROVE  /\ run[Body] \in Runs /\ run[Worker] \in Runs /\ call \in Calls /\ job \in Jobs
           /\ run[Body].todo \in Seq(Packages) /\ run[Body].results \in Seq(Entries)
           /\ call.packages \in Seq(Packages) /\ job.rest \in Seq(Packages)
           /\ run[Worker].results \in Seq(Entries) /\ run[Worker].todo \in Seq(Packages)
    BY TheThreads, MembersOf DEF UpdatesTypes, Calls, Jobs

\* A job that has not been disturbed goes on with the same packages.
LEMMA ToldAgain ==
    ASSUME EveryPackageIsTold, machine' = machine, run'[Body].pc # "preflight",
           Undisturbed' => Undisturbed /\ Order' = Order
    PROVE  EveryPackageIsTold'
    BY DEF EveryPackageIsTold

LEMMA OrderIs ==
    ASSUME UpdatesTypes
    PROVE  /\ Remaining \in Seq(Packages)
           /\ Order \in Seq(Packages) /\ Follows(run[Body].results, Remaining, Order)
<1>1. Remaining \in Seq(Packages)
    BY TheBody, ConcatProperties DEF Remaining
<1>2. PackagesOf(run[Body].results) \in Seq(Packages)
    BY TheBody, PackagesOfIs
<1>3. Order \in Seq(Packages)
    BY <1>1, <1>2, ConcatProperties DEF Order
<1>4. PackagesOf(run[Body].results) \o Remaining = Order
    BY DEF Order
<1> QED
    BY <1>1, <1>3, <1>4, TheBody, FollowsIsListing

LEMMA InterruptionStays ==
    ASSUME NEW told, NEW results \in Seq(Entries), NEW p, NEW r, Extends(told, results, p, r),
           told \in Seq(Entries), Interrupted(results) \/ r.code = "cancelled"
    PROVE  Interrupted(told)
<1>1. Len(told) \in Nat /\ Len(results) \in Nat
    BY LenProperties
<1>2. Len(told) >= Len(results) + 1
    BY DEF Extends
<1>3. CASE Interrupted(results)
  <2>1. PICK i \in 1 .. Len(results) : results[i].code = "cancelled"
    BY <1>3 DEF Interrupted
  <2>2. i \in 1 .. Len(told) /\ ~(i > Len(results) + 1) /\ i # Len(results) + 1
    BY <1>1, <1>2
  <2>3. told[i] = results[i]
    BY <2>2 DEF Extends
  <2> QED
    BY <2>1, <2>2, <2>3 DEF Interrupted
<1>4. CASE r.code = "cancelled"
  <2> DEFINE i == Len(results) + 1
  <2>1. i \in 1 .. Len(told) /\ ~(i <= Len(results)) /\ ~(i > Len(results) + 1)
    BY <1>1, <1>2
  <2>2. told[i].code = r.code
    BY <2>1 DEF Extends
  <2> QED
    BY <1>4, <2>1, <2>2 DEF Interrupted
<1> QED
    BY <1>3, <1>4

\* The scheduled task has nothing to do with the call or with the job.
LEMMA TaskKeepsRelated ==
    ASSUME UpdatesTypes, Related, run'[Body] = run[Body], run'[Worker] = run[Worker],
           UNCHANGED <<machine, call, job>>, earned \subseteq earned'
    PROVE  Related'
<1>1. CallKnowsWorker' /\ WorkerFollowsCall'
    BY DEF Related, CallKnowsWorker, WorkerFollowsCall
<1>2. ReplyIsEarned'
  <2> SUFFICES ASSUME call.reply # NoResult, run[Body].live
               PROVE  /\ Earned(call.reply.results, earned')
                      /\ ~call.batch /\ call.reply.result.ok => Head(run[Body].todo) \in earned'
    BY DEF ReplyIsEarned
  <2> QED
    BY EarnedStays DEF Related, ReplyIsEarned
<1>3. EveryPackageIsTold'
    BY DEF Related, EveryPackageIsTold, Undisturbed, Order, Remaining
<1> QED
    BY <1>1, <1>2, <1>3 DEF Related

\* The job's other steps are outside of a call.
LEMMA BodyKeepsCall ==
    ASSUME CallKnowsWorker, WorkerFollowsCall, run[Body].pc # "worker",
           run'[Worker] = run[Worker], UNCHANGED call
    PROVE  CallKnowsWorker' /\ WorkerFollowsCall' /\ ReplyIsEarned'
<1>1. call.at = "none" /\ call = NoCall
    BY DEF CallKnowsWorker
<1>2. call.reply = NoResult /\ ~call.cancelled /\ run[Worker].pc = "absent"
    BY <1>1 DEF NoCall, CallKnowsWorker
<1> QED
    BY <1>1, <1>2 DEF CallKnowsWorker, WorkerFollowsCall, ReplyIsEarned

\* A call that starts.
LEMMA CallStarts ==
    ASSUME CallKnowsWorker, WorkerFollowsCall, run[Body].pc # "worker",
           run'[Worker] = run[Worker], run'[Body].pc = "worker", run'[Body].todo # << >>,
           NEW packages \in Seq(Packages), NEW batch \in BOOLEAN, call' = Call(packages, batch),
           packages # << >>,
           IF batch THEN packages = run'[Body].todo ELSE packages = <<Head(run'[Body].todo)>>
    PROVE  CallKnowsWorker' /\ WorkerFollowsCall' /\ ReplyIsEarned' /\ call' \in Calls
<1>1. call.at = "none" /\ call = NoCall
    BY DEF CallKnowsWorker
<1>2. run[Worker].pc = "absent" /\ run[Worker].live
    BY <1>1 DEF NoCall, CallKnowsWorker
<1>3. /\ call'.at = "launching" /\ call'.packages = packages /\ call'.batch = batch
      /\ ~call'.cancelled /\ call'.reply = NoResult /\ call' \in Calls
    BY DEF Call, NoCall, Calls
<1>4. CallKnowsWorker'
    BY <1>2, <1>3 DEF CallKnowsWorker
<1>5. WorkerFollowsCall' /\ ReplyIsEarned'
    BY <1>2, <1>3 DEF WorkerFollowsCall, ReplyIsEarned
<1> QED
    BY <1>3, <1>4, <1>5

\* What a step of one thread has to leave true.
LEMMA RunChangesRightly ==
    ASSUME UpdatesTypes, RunsAreSound, NEW t \in Threads, NEW r, Set(t, r),
           RunIsSound(r, t, earned'), earned \subseteq earned', earned' \subseteq Packages,
           UNCHANGED <<machine, deaths>>, call' \in Calls, job' \in Jobs
    PROVE  /\ UpdatesTypes' /\ RunsAreSound'
           /\ run'[t] = r /\ \A u \in Threads : u # t => run'[u] = run[u]
<1> DEFINE done == earned'
<1>1. RunIsSound(r, t, done) /\ earned \subseteq done
    OBVIOUS
<1> HIDE DEF done
<1>2. /\ run' \in [Threads -> Runs] /\ run'[t] = r
      /\ \A u \in Threads : u # t => run'[u] = run[u]
      /\ \A u \in Threads : RunIsSound(run'[u], u, done)
    BY <1>1, RunChanges
<1>3. UpdatesTypes'
    BY <1>2 DEF UpdatesTypes
<1>4. RunsAreSound'
    BY <1>2 DEF RunsAreSound, done
<1> QED
    BY <1>2, <1>3, <1>4

\* The job cancelled, or as it was.
LEMMA JobIsTyped ==
    ASSUME UpdatesTypes
    PROVE  /\ [job EXCEPT !.state = "cancelled"] \in Jobs
           /\ [job EXCEPT !.state = "cancelled"].state = "cancelled"
           /\ [job EXCEPT !.state = "cancelled"].rest = job.rest
           /\ [job EXCEPT !.state = "cancelled"].found = job.found
           /\ job \in Jobs
    BY TheBody DEF Jobs

\* The worker goes on with the packages of its call, or has come to their end.
LEMMA WorkerGoesOn ==
    ASSUME UpdatesTypes, Related, run[Worker].pc \in {"loop", "command"},
           run'[Body] = run[Body], run'[Worker].pc \in {"loop", "command", "answer"},
           run'[Worker].live = run[Worker].live, UNCHANGED <<machine, call, job>>,
           earned \subseteq earned',
           run'[Worker].pc \in {"loop", "command"} =>
               Follows(run'[Worker].results, run'[Worker].todo, call.packages),
           run'[Worker].pc = "answer" =>
             /\ Begins(run'[Worker].results, call.packages)
             /\ run'[Worker].results = << >> => ~run[Worker].live /\ call.batch
             /\ call.batch => \/ Len(run'[Worker].results) = Len(call.packages)
                              \/ ~run[Worker].live \/ Interrupted(run'[Worker].results)
    PROVE  Related'
<1>1. call.at \in {"exchanging", "acking"} /\ call.reply = NoResult
  <2>1. call.at \in {"none", "launching", "accepting", "exchanging", "acking"}
    BY TheBody DEF Calls
  <2> QED
    BY <2>1 DEF Related, CallKnowsWorker
<1>2. CallKnowsWorker'
    BY <1>1 DEF Related, CallKnowsWorker
<1>3. WorkerFollowsCall'
    BY <1>1 DEF WorkerFollowsCall
<1>4. ReplyIsEarned'
    BY <1>1 DEF ReplyIsEarned
<1>5. EveryPackageIsTold'
    BY DEF Related, EveryPackageIsTold, Undisturbed, Order, Remaining
<1> QED
    BY <1>2, <1>3, <1>4, <1>5 DEF Related

\* The body goes on with its packages outside of a call.
LEMMA BodyGoesOn ==
    ASSUME UpdatesTypes, Related, run[Body].pc \notin {"worker", "preflight", "ended"},
           run'[Worker] = run[Worker], UNCHANGED <<machine, call>>,
           run'[Body].pc \notin {"worker", "preflight"},
           run'[Body].results \in Seq(Entries), run'[Body].todo \in Seq(Packages),
           Undisturbed' => /\ Undisturbed
                           /\ \A packages \in Seq(Packages) :
                                Follows(run[Body].results, run[Body].todo, packages) =>
                                  Follows(run'[Body].results, run'[Body].todo, packages)
    PROVE  Related'
<1>1. CallKnowsWorker' /\ WorkerFollowsCall' /\ ReplyIsEarned'
    BY BodyKeepsCall DEF Related
<1>2. ASSUME Undisturbed' PROVE Undisturbed /\ Order' = Order
  <2>1. /\ Remaining = run[Body].todo
        /\ Order \in Seq(Packages) /\ Follows(run[Body].results, Remaining, Order)
    BY OrderIs DEF Remaining
  <2>2. Follows(run'[Body].results, run'[Body].todo, Order)
    BY <1>2, <2>1
  <2>3. PackagesOf(run'[Body].results) \o run'[Body].todo = Order
    BY <2>1, <2>2, FollowsIsListing
  <2>4. Order' = PackagesOf(run'[Body].results) \o run'[Body].todo
    BY DEF Order, Remaining
  <2> QED
    BY <1>2, <2>3, <2>4
<1>3. EveryPackageIsTold'
    BY <1>2, ToldAgain DEF Related
<1> QED
    BY <1>1, <1>3 DEF Related

LEMMA SomethingIsTold ==
    ASSUME NEW told \in Seq(Entries), NEW results \in Seq(Entries), NEW p, NEW r,
           Extends(told, results, p, r)
    PROVE  told # << >>
<1>1. Len(told) >= Len(results) + 1
    BY DEF Extends
<1>2. Len(told) \in Nat /\ Len(results) \in Nat
    BY LenProperties
<1>3. Len(told) # 0
    BY <1>1, <1>2
<1> QED
    BY <1>3, EmptySeq

LEMMA AllAreTold ==
    ASSUME NEW results \in Seq(Entries), NEW packages, Follows(results, << >>, packages)
    PROVE  Len(results) = Len(packages)
<1>1. Len(results) \in Nat /\ Len(<< >>) = 0
    BY LenProperties, EmptySeq
<1>2. Len(results) + Len(<< >>) = Len(packages)
    BY DEF Follows
<1> QED
    BY <1>1, <1>2

LEMMA AdvancesKeeps ==
    ASSUME UpdatesTypes, RunsAreSound, Related, NEW t \in Threads, NEW r, Advances(t, r),
           run[t].pc \in {"loop", "command", "look again", "returned"}, run[t].todo # << >>
    PROVE  UpdatesTypes' /\ RunsAreSound' /\ Related'
<1>1. /\ Set(t, r) /\ RunIsSound(r, t, earned') /\ r.live = run[t].live
      /\ earned \subseteq earned' /\ earned' \subseteq Packages
      /\ UNCHANGED <<machine, deaths, call>>
    BY DEF Advances
<1>2. CASE Kept(t, r) /\ job' = job /\ r.pc \in {"command", "look again"}
  <2>1. job' \in Jobs /\ call' \in Calls
    BY <1>1, <1>2, TheBody
  <2>2. /\ UpdatesTypes' /\ RunsAreSound'
        /\ run'[t] = r /\ \A u \in Threads : u # t => run'[u] = run[u]
    BY <1>1, <2>1, RunChangesRightly
  <2>3. CASE t = Task
    BY <1>1, <1>2, <2>2, <2>3, TheThreads, TaskKeepsRelated
  <2>4. CASE t = Worker
    <3>1. run[Worker].pc \in {"loop", "command"} /\ run'[Worker].pc \in {"loop", "command"}
      BY <1>1, <1>2, <2>2, <2>4, TheThreads
         DEF RunsAreSound, RunIsSound, KnowsItsPackage, PlacesOf, WorkerPlaces
    <3>2. Follows(run'[Worker].results, run'[Worker].todo, call.packages)
      BY <1>2, <2>2, <2>4, <3>1 DEF Kept, Related, WorkerFollowsCall
    <3>3. run'[Body] = run[Body] /\ run'[Worker].live = run[Worker].live
      BY <1>1, <2>2, <2>4, TheThreads
    <3>4. UNCHANGED <<machine, call, job>> /\ earned \subseteq earned' /\ run'[Worker].pc # "answer"
      BY <1>1, <1>2, <2>2, <2>4
    <3>5. Related'
      BY <3>1, <3>2, <3>3, <3>4, WorkerGoesOn
    <3> QED
      BY <2>2, <3>5
  <2>5. CASE t = Body
    <3>1. /\ run'[Worker] = run[Worker] /\ run'[Body].pc \in {"command", "look again"}
          /\ run'[Body].results = run[Body].results /\ run'[Body].todo = run[Body].todo
          /\ run'[Body].live = run[Body].live
      BY <1>2, <2>2, <2>5, TheThreads DEF Kept
    <3>2. Undisturbed' => Undisturbed
      BY <1>2, <2>5, <3>1 DEF Undisturbed
    <3>3. UNCHANGED <<machine, call>> /\ run[Body].pc \notin {"worker", "preflight", "ended"}
      BY <1>1, <2>5
    <3>4. run'[Body].results \in Seq(Entries) /\ run'[Body].todo \in Seq(Packages)
      BY <3>1, TheBody
    <3>5. Related'
      BY <3>1, <3>2, <3>3, <3>4, BodyGoesOn
    <3> QED
      BY <2>2, <3>5
  <2> QED
    BY <2>2, <2>3, <2>4, <2>5, TheThreads
<1>3. CASE Recorded(t, r, job')
  <2>1. PICK res \in Results :
          /\ r = Finish(t, res)
          /\ job' = IF t = Body /\ (~run[t].live \/ res.code = "cancelled")
                    THEN [job EXCEPT !.state = "cancelled"] ELSE job
    BY <1>3 DEF Recorded
  <2>2. job' \in Jobs /\ call' \in Calls
    BY <1>1, <2>1, TheBody, JobIsTyped
  <2>3. /\ UpdatesTypes' /\ RunsAreSound'
        /\ run'[t] = r /\ \A u \in Threads : u # t => run'[u] = run[u]
    BY <1>1, <2>2, RunChangesRightly
  <2>4. /\ r \in Runs /\ r.pc \in {"loop", AfterLoop(t)}
        /\ r.pc # "loop" => r.todo = << >>
        /\ r.live = run[t].live
        /\ Extends(r.results, run[t].results, Head(run[t].todo), res)
        /\ \A packages \in Seq(Packages) :
             Follows(run[t].results, run[t].todo, packages) =>
               /\ Begins(r.results, packages)
               /\ \/ Follows(r.results, r.todo, packages)
                  \/ r.pc # "loop" /\ ~run[t].live
                  \/ r.pc # "loop" /\ t = Worker /\ res.code = "cancelled"
                  \/ t = Task
    BY <2>1, FinishIs
  <2>5. /\ r.results \in Seq(Entries) /\ run[t].results \in Seq(Entries)
        /\ Len(r.results) \in Nat /\ Len(run[t].results) \in Nat
    BY <2>4, MembersOf DEF UpdatesTypes
  <2>6. CASE t = Task
    BY <1>1, <2>1, <2>3, <2>6, TheThreads, TaskKeepsRelated
  <2>7. CASE t = Worker
    <3>1. run[Worker].pc \in {"loop", "command"} /\ run'[Worker].pc \in {"loop", "command", "answer"}
      BY <2>3, <2>4, <2>7, TheThreads
         DEF RunsAreSound, RunIsSound, KnowsItsPackage, PlacesOf, WorkerPlaces, AfterLoop
    <3>2. call.packages \in Seq(Packages) /\ Follows(run[t].results, run[t].todo, call.packages)
      BY <2>7, <3>1, TheBody DEF Related, WorkerFollowsCall
    <3>3. /\ Begins(r.results, call.packages)
          /\ \/ Follows(r.results, r.todo, call.packages)
             \/ r.pc # "loop" /\ ~run[t].live
             \/ r.pc # "loop" /\ res.code = "cancelled"
      BY <2>4, <2>7, <3>2, TheThreads
    <3>4. run'[Body] = run[Body] /\ run'[Worker] = r /\ r.live = run[Worker].live
      BY <2>3, <2>4, <2>7, TheThreads
    <3>a. AfterLoop(t) = "answer"
      BY <2>7, TheThreads DEF AfterLoop
    <3>b. r.pc \in {"loop", "answer"} /\ (r.pc # "loop" => r.todo = << >>)
      BY <2>4, <3>a
    <3>5. r.pc \in {"loop", "command"} => Follows(r.results, r.todo, call.packages)
      BY <3>b, <3>3
    <3>6. r.results # << >>
      BY <2>4, <2>5, SomethingIsTold
    <3>7. r.pc = "answer" => \/ Len(r.results) = Len(call.packages)
                             \/ ~run[Worker].live \/ Interrupted(r.results)
      <4>1. CASE Follows(r.results, r.todo, call.packages)
        <5>1. r.pc = "answer" => Follows(r.results, << >>, call.packages)
          BY <3>b, <4>1
        <5> QED
          BY <2>5, <5>1, <3>2, AllAreTold
      <4>2. CASE res.code = "cancelled"
        BY <4>2, <2>4, <2>5, InterruptionStays
      <4> QED
        BY <4>1, <4>2, <3>3, <2>7
    <3>8. UNCHANGED <<machine, call, job>>
      BY <1>1, <2>1, <2>7, TheThreads
    <3> QED
      BY <1>1, <2>3, <3>1, <3>3, <3>4, <3>5, <3>6, <3>7, <3>8, WorkerGoesOn
  <2>8. CASE t = Body
    <3>1. /\ run'[Worker] = run[Worker] /\ run'[Body] = r
          /\ r.pc \in {"loop", "refresh"} /\ r.live = run[Body].live
      BY <2>3, <2>4, <2>8, TheThreads DEF AfterLoop
    <3>2. ASSUME Undisturbed'
          PROVE  /\ Undisturbed
                 /\ \A packages \in Seq(Packages) :
                      Follows(run[Body].results, run[Body].todo, packages) =>
                        Follows(r.results, r.todo, packages)
      <4>1. job'.state # "cancelled" /\ ~Interrupted(r.results) /\ r.live
        BY <3>1, <3>2 DEF Undisturbed
      <4>2. run[Body].live /\ res.code # "cancelled" /\ job' = job
        BY <2>1, <2>8, <3>1, <4>1, JobIsTyped
      <4>3. ~Interrupted(run[Body].results)
        BY <2>4, <2>5, <2>8, <4>1, InterruptionStays
      <4>4. Undisturbed
        BY <4>1, <4>2, <4>3, <2>8 DEF Undisturbed
      <4> QED
        BY <2>4, <2>8, <4>2, <4>4, TheThreads
    <3>3. r.todo \in Seq(Packages)
      BY <2>4, MembersOf
    <3> QED
      BY <1>1, <2>3, <2>5, <2>8, <3>1, <3>2, <3>3, BodyGoesOn
  <2> QED
    BY <2>3, <2>6, <2>7, <2>8, TheThreads
<1> QED
    BY <1>2, <1>3 DEF Advances

LEMMA OneIsASequence ==
    ASSUME NEW p \in Packages
    PROVE  <<p>> \in Seq(Packages) /\ <<p>> # << >>
    OBVIOUS

LEMMA StartsTryKeeps ==
    ASSUME UpdatesTypes, RunsAreSound, Related, NEW t \in Threads, NEW r, StartsTry(t, r),
           run[t].pc \in {"loop", "look again"}
    PROVE  UpdatesTypes' /\ RunsAreSound' /\ Related'
<1>1. /\ Set(t, r) /\ RunIsSound(r, t, earned) /\ Kept(t, r)
      /\ run[t].todo # << >> /\ Head(run[t].todo) \in Packages
      /\ \/ r.pc = "command" /\ UNCHANGED call
         \/ t = Body /\ r.pc = "worker" /\ call' = Call(<<Head(run[t].todo)>>, FALSE)
      /\ UNCHANGED <<machine, deaths, job, earned>>
    BY DEF StartsTry
<1>2. <<Head(run[t].todo)>> \in Seq(Packages) /\ <<Head(run[t].todo)>> # << >>
    BY <1>1, OneIsASequence
<1>3. call' \in Calls
    BY <1>1, <1>2, TheBody DEF Call, NoCall, Calls
<1>4. RunIsSound(r, t, earned') /\ job' \in Jobs /\ earned' \subseteq Packages
    BY <1>1, TheBody DEF UpdatesTypes
<1>5. /\ UpdatesTypes' /\ RunsAreSound'
      /\ run'[t] = r /\ \A u \in Threads : u # t => run'[u] = run[u]
    BY <1>1, <1>3, <1>4, RunChangesRightly
<1>6. CASE t = Task
    BY <1>1, <1>5, <1>6, TheThreads, TaskKeepsRelated
<1>7. CASE t = Worker
  <2>1. /\ run[Worker].pc = "loop" /\ run'[Worker].pc = "command" /\ UNCHANGED <<machine, call, job>>
        /\ run'[Body] = run[Body] /\ run'[Worker].live = run[Worker].live
        /\ run'[Worker].results = run[Worker].results /\ run'[Worker].todo = run[Worker].todo
    BY <1>1, <1>5, <1>7, TheThreads
       DEF RunsAreSound, RunIsSound, KnowsItsPackage, PlacesOf, WorkerPlaces, Kept
  <2>2. Follows(run'[Worker].results, run'[Worker].todo, call.packages)
    BY <2>1 DEF Related, WorkerFollowsCall
  <2> QED
    BY <1>1, <1>5, <2>1, <2>2, WorkerGoesOn
<1>8. CASE t = Body /\ r.pc = "command" /\ UNCHANGED call
  <2>1. /\ run'[Worker] = run[Worker] /\ run'[Body].pc = "command"
        /\ run'[Body].results = run[Body].results /\ run'[Body].todo = run[Body].todo
        /\ run'[Body].live = run[Body].live
    BY <1>1, <1>5, <1>8, TheThreads DEF Kept
  <2>2. Undisturbed' => Undisturbed
    BY <1>1, <1>8, <2>1 DEF Undisturbed
  <2>3. Related'
    BY <1>1, <1>8, <2>1, <2>2, TheBody, BodyGoesOn
  <2> QED
    BY <1>5, <2>3
<1>9. CASE t = Body /\ r.pc = "worker" /\ call' = Call(<<Head(run[t].todo)>>, FALSE)
  <2> DEFINE packages == <<Head(run[Body].todo)>>
             batch == FALSE
  <2>1. /\ run'[Worker] = run[Worker] /\ run'[Body].pc = "worker"
        /\ run'[Body].results = run[Body].results /\ run'[Body].todo = run[Body].todo
        /\ run'[Body].live = run[Body].live
    BY <1>1, <1>5, <1>9, TheThreads DEF Kept
  <2>2. packages \in Seq(Packages) /\ packages # << >> /\ batch \in BOOLEAN
        /\ call' = Call(packages, batch)
        /\ IF batch THEN packages = run'[Body].todo ELSE packages = <<Head(run'[Body].todo)>>
    BY <1>2, <1>9, <2>1
  <2>3. CallKnowsWorker /\ WorkerFollowsCall /\ run[Body].pc # "worker" /\ run'[Body].todo # << >>
    BY <1>1, <1>9, <2>1 DEF Related
  <2>a. ~call'.batch
    BY <1>9 DEF Call, NoCall
  <2> HIDE DEF packages, batch
  <2>4. CallKnowsWorker' /\ WorkerFollowsCall' /\ ReplyIsEarned'
    BY <2>1, <2>2, <2>3, CallStarts
  <2>5. Undisturbed' => Undisturbed
    BY <1>1, <1>9, <2>1 DEF Undisturbed
  <2>6. Order' = Order
    BY <2>1, <2>3, <2>a DEF Order, Remaining
  <2>7. EveryPackageIsTold'
    BY <1>1, <2>1, <2>5, <2>6, ToldAgain DEF Related
  <2> QED
    BY <1>5, <2>4, <2>7 DEF Related
<1> QED
    BY <1>1, <1>5, <1>6, <1>7, <1>8, <1>9, TheThreads

LEMMA StopsLoopKeeps ==
    ASSUME UpdatesTypes, RunsAreSound, Related, NEW t \in Threads, NEW r, StopsLoop(t, r),
           run[t].pc = "loop"
    PROVE  UpdatesTypes' /\ RunsAreSound' /\ Related'
<1>1. /\ Set(t, r) /\ RunIsSound(r, t, earned)
      /\ r.live = run[t].live /\ r.results = run[t].results /\ r.todo = << >> /\ r.pc = AfterLoop(t)
      /\ run[t].todo = << >> \/ Halts(t)
      /\ job' = IF t = Body /\ run[t].todo # << >> THEN [job EXCEPT !.state = "cancelled"] ELSE job
      /\ UNCHANGED <<machine, deaths, call, earned>>
    BY DEF StopsLoop
<1>2. /\ call' \in Calls /\ job' \in Jobs /\ earned' \subseteq Packages
      /\ RunIsSound(r, t, earned') /\ earned \subseteq earned'
    BY <1>1, TheBody, JobIsTyped DEF UpdatesTypes
<1>3. /\ UpdatesTypes' /\ RunsAreSound'
      /\ run'[t] = r /\ \A u \in Threads : u # t => run'[u] = run[u]
    BY <1>1, <1>2, RunChangesRightly
<1>4. CASE t = Task
  <2>1. UNCHANGED <<machine, call, job>> /\ run'[Body] = run[Body] /\ run'[Worker] = run[Worker]
    BY <1>1, <1>3, <1>4, TheThreads
  <2> QED
    BY <1>2, <1>3, <2>1, TaskKeepsRelated
<1>5. CASE t = Worker
  <2>1. /\ r.pc = "answer" /\ UNCHANGED <<machine, call, job>>
        /\ run'[Body] = run[Body] /\ run'[Worker] = r /\ run[Worker].pc = "loop"
    BY <1>1, <1>3, <1>5, TheThreads DEF AfterLoop
  <2>2. Follows(run[Worker].results, run[Worker].todo, call.packages)
    BY <2>1 DEF Related, WorkerFollowsCall
  <2>3. Begins(r.results, call.packages)
    BY <1>1, <1>5, <2>2, TheBody, BeginsWhileFollowing
  <2>4. CASE run[Worker].todo = << >>
    <3>1. Len(run[Worker].todo) = 0
      BY <2>4
    <3>2. Len(r.results) = Len(call.packages)
      <4>1. Len(run[Worker].results) \in Nat /\ Len(call.packages) \in Nat
        BY TheBody, LenProperties
      <4>2. Len(run[Worker].results) + Len(run[Worker].todo) = Len(call.packages)
        BY <2>2 DEF Follows
      <4> QED
        BY <1>1, <1>5, <3>1, <4>1, <4>2
    <3>3. r.results # << >>
      <4>1. call.packages # << >>
        <5>1. call.at \in {"none", "launching", "accepting", "exchanging", "acking"}
          BY TheBody DEF Calls
        <5> QED
          BY <2>1, <5>1 DEF Related, CallKnowsWorker
      <4> QED
        BY <3>2, <4>1, TheBody, EmptySeq
    <3> QED
      BY <1>1, <1>2, <1>3, <2>1, <2>3, <3>2, <3>3, <1>5, WorkerGoesOn
  <2>5. CASE Halts(t)
    <3>1. ~run[Worker].live /\ call.batch
      BY <1>5, <2>5, TheThreads DEF Halts
    <3> QED
      BY <1>1, <1>2, <1>3, <2>1, <2>3, <3>1, <1>5, WorkerGoesOn
  <2> QED
    BY <1>1, <2>4, <2>5, <1>5
<1>6. CASE t = Body
  <2>1. /\ r.pc = "refresh" /\ run'[Body] = r /\ run'[Worker] = run[Worker]
    BY <1>1, <1>3, <1>6, TheThreads DEF AfterLoop
  <2>2. ASSUME Undisturbed' PROVE Undisturbed /\ run[Body].todo = << >>
    <3>1. job'.state # "cancelled" /\ ~Interrupted(r.results) /\ r.live
      BY <2>1, <2>2 DEF Undisturbed
    <3>2. run[Body].todo = << >> /\ job' = job
      BY <1>1, <1>6, <3>1, JobIsTyped
    <3> QED
      BY <1>1, <1>6, <3>1, <3>2 DEF Undisturbed
  <2>3. Undisturbed' => \A packages \in Seq(Packages) :
                                Follows(run[Body].results, run[Body].todo, packages) =>
                                  Follows(r.results, r.todo, packages)
    BY <1>1, <1>6, <2>2
  <2>4. r.results \in Seq(Entries) /\ r.todo \in Seq(Packages)
    BY <1>1, <1>6, TheBody, EmptySeq
  <2> QED
    BY <1>1, <1>3, <1>6, <2>1, <2>2, <2>3, <2>4, BodyGoesOn
<1> QED
    BY <1>3, <1>4, <1>5, <1>6, TheThreads

-----------------------------------------------------------------------------
(***************************************************************************)
(* The locks and the runs.                                                 *)
(***************************************************************************)

LEMMA LocksOnly ==
    ASSUME UpdatesTypes, RunsAreSound, Related,
           UNCHANGED <<machine, deaths, run, call, job, earned>>
    PROVE  UpdatesTypes' /\ RunsAreSound' /\ Related'
<1>1. UpdatesTypes' /\ RunsAreSound'
    BY DEF UpdatesTypes, RunsAreSound
<1>2. CallKnowsWorker' /\ WorkerFollowsCall' /\ ReplyIsEarned'
    BY DEF Related, CallKnowsWorker, WorkerFollowsCall, ReplyIsEarned
<1>3. EveryPackageIsTold'
    BY DEF Related, EveryPackageIsTold, Undisturbed, Order, Remaining
<1> QED
    BY <1>1, <1>2, <1>3 DEF Related

\* A command moves through the locks only while its thread is at it.
LEMMA OnlyCommandsMove ==
    ASSUME LockTypes, CommandsAreInRuns, NEW t \in Threads, LockStep(t),
           Ask(t) => run[t].pc = "command"
    PROVE  \A u \in Threads : at'[u] # "out" \/ tree'[u] => run[u].pc = "command"
<1> USE DEF LockTypes, CommandsAreInRuns, Moves
<1>1. CASE Ask(t) \/ TakeMutex(t) \/ TakeNamed(t, TRUE) \/ TakeNamed(t, FALSE) \/ TakeWinget(t)
    BY <1>1 DEF Ask, TakeMutex, TakeNamed, TakeWinget
<1>2. CASE GiveUp(t) \/ Launch(t) \/ LaunchFails(t) \/ CommandReturns(t) \/ CloseJob(t)
    BY <1>2 DEF GiveUp, Launch, LaunchFails, CommandReturns, CloseJob
<1>3. CASE UnlockWinget(t) \/ UnlockNamed(t) \/ UnlockMutex(t)
    BY <1>3 DEF UnlockWinget, UnlockNamed, UnlockMutex
<1>4. CASE AbandonMutex(t) \/ KillTree(t)
    BY <1>4 DEF AbandonMutex, KillTree
<1> QED
    BY <1>1, <1>2, <1>3, <1>4 DEF LockStep

\* Processes that end take their commands along.
LEMMA OnlyCommandsStay ==
    ASSUME LockTypes, CommandsAreInRuns, NEW p \in Processes,
           ProcessDies(p) \/ JobTerminated(p) \/ ProcessStarts(p)
    PROVE  /\ \A u \in Threads : at'[u] # "out" \/ tree'[u] => run[u].pc = "command"
           /\ JobTerminated(p) => \A u \in Threads : Home[u] = p => at'[u] = "out" /\ ~tree'[u]
<1> USE DEF LockTypes, CommandsAreInRuns
<1>1. CASE ProcessDies(p)
    BY <1>1 DEF ProcessDies, JobTerminated
<1>2. CASE JobTerminated(p)
    BY <1>2 DEF JobTerminated
<1>3. CASE ProcessStarts(p)
    BY <1>3 DEF ProcessStarts, JobTerminated
<1> QED
    BY <1>1, <1>2, <1>3

LEMMA CommandsStayInRuns ==
    ASSUME \A u \in Threads : at'[u] # "out" \/ tree'[u] => run[u].pc = "command",
           \A u \in Threads : at'[u] # "out" \/ tree'[u] => run'[u].pc = run[u].pc
    PROVE  CommandsAreInRuns'
    BY DEF CommandsAreInRuns

\* A thread that leaves its command has nothing left of it.
LEMMA IdleThread ==
    ASSUME CommandsAreInRuns, UNCHANGED lockVars, NEW t \in Threads,
           \A u \in Threads : u # t => run'[u] = run[u],
           \/ at[t] = "out" /\ ~tree[t]
           \/ run[t].pc # "command"
           \/ run'[t].pc = run[t].pc
    PROVE  CommandsAreInRuns'
    BY DEF CommandsAreInRuns, lockVars

\* One thread goes on with its packages.
LEMMA StepKeeps ==
    ASSUME UpdatesInvariant, NEW t \in Threads, Step(t)
    PROVE  UpdatesTypes' /\ RunsAreSound' /\ CommandsAreInRuns' /\ Related'
<1>0. /\ LockOwnership /\ UpdatesTypes /\ RunsAreSound /\ CommandsAreInRuns /\ Related
      /\ LockTypes /\ Owns(t) /\ run[t] \in Runs /\ RunIsSound(run[t], t, earned)
      /\ run \in [Threads -> Runs]
    BY DEF UpdatesInvariant, LockOwnership, UpdatesTypes, RunsAreSound
<1>1. ASSUME NEW r, Advances(t, r), run[t].pc = "command"
      PROVE  UpdatesTypes' /\ RunsAreSound' /\ Related'
  <2>1. run[t].todo # << >>
    BY <1>0, <1>1 DEF RunIsSound, KnowsItsPackage
  <2> QED
    BY <1>0, <1>1, <2>1, AdvancesKeeps
\* The command's own steps: its thread stays at it.
<1>2. ASSUME LockStep(t), run[t].pc = "command",
             \E got : Set(t, [run[t] EXCEPT !.got = got]) \/ UNCHANGED run
      PROVE  CommandsAreInRuns'
  <2>0. PICK got : Set(t, [run[t] EXCEPT !.got = got]) \/ UNCHANGED run
    BY <1>2
  <2>a. [run[t] EXCEPT !.got = got].pc = run[t].pc
    BY <1>0 DEF Runs
  <2>1. \A u \in Threads : run'[u].pc = run[u].pc
    BY <1>0, <2>0, <2>a DEF Set
  <2>2. \A u \in Threads : at'[u] # "out" \/ tree'[u] => run[u].pc = "command"
    BY <1>0, <1>2, OnlyCommandsMove
  <2> QED
    BY <2>1, <2>2, CommandsStayInRuns
<1>3. ASSUME at[t] # "out" PROVE run[t].pc = "command"
    BY <1>0, <1>3 DEF CommandsAreInRuns
<1>4. CASE BeginCommand(t)
  <2>1. run[t].pc = "command"
    BY <1>4 DEF BeginCommand, At
  <2>2. UpdatesTypes' /\ RunsAreSound' /\ Related'
    BY <1>0, <1>1, <1>4, <2>1, BeginAdvances
  <2>3. CASE Ask(t) /\ UNCHANGED run
    BY <1>2, <2>1, <2>2, <2>3 DEF LockStep
  <2>4. ASSUME UNCHANGED lockVars, NEW code, Set(t, [run[t] EXCEPT !.got = Result(code, {})])
        PROVE  CommandsAreInRuns'
    <3>1. \A u \in Threads : run'[u].pc = run[u].pc
      BY <1>0, <2>4 DEF Set, Runs
    <3> QED
      BY <1>0, <2>2, <2>4, <3>1 DEF CommandsAreInRuns, lockVars
  <2> QED
    BY <1>4, <2>2, <2>3, <2>4 DEF BeginCommand
<1>5. CASE Acquire(t) \/ Release(t)
  <2>1. LockStep(t) /\ at[t] # "out" /\ UNCHANGED <<machine, deaths, run, call, job, earned>>
    BY <1>5 DEF Acquire, Release, LockStep, NeedsWinget, TakeMutex, TakeNamed, TakeWinget, Launch,
                CloseJob, UnlockWinget, UnlockNamed, UnlockMutex, Moves
  <2>2. CommandsAreInRuns'
    BY <1>2, <1>3, <2>1
  <2> QED
    BY <1>0, <2>1, <2>2, LocksOnly
<1>6. CASE CommandFails(t)
  <2>1. LockStep(t) /\ at[t] # "out"
    BY <1>6 DEF CommandFails, LockStep, GiveUp, LaunchFails, Moves
  <2>2. \E got : Set(t, [run[t] EXCEPT !.got = got])
    BY <1>6 DEF CommandFails
  <2>3. run[t].pc = "command"
    BY <1>3, <2>1
  <2>4. CommandsAreInRuns'
    BY <1>2, <2>1, <2>2, <2>3
  <2> QED
    BY <1>0, <1>1, <1>6, <2>3, <2>4, FailsAdvances
<1>7. CASE CommandEnds(t)
  <2>1. LockStep(t) /\ at[t] # "out"
    BY <1>7 DEF CommandEnds, LockStep, CommandReturns, Moves
  <2>2. \E got : Set(t, [run[t] EXCEPT !.got = got])
    BY <1>7 DEF CommandEnds
  <2>3. run[t].pc = "command"
    BY <1>3, <2>1
  <2>4. CommandsAreInRuns'
    BY <1>2, <2>1, <2>2, <2>3
  <2> QED
    BY <1>0, <1>1, <1>7, <2>3, <2>4, EndsAdvances
<1>8. CASE Decide(t)
  <2>1. run[t].pc = "command" /\ at[t] = "out" /\ alive[Home[t]] /\ UNCHANGED lockVars
    BY <1>8 DEF Decide, At
  <2>2. ~tree[t]
    BY <1>0, <2>1 DEF Owns
  <2>3. PICK r : Advances(t, r)
    BY <1>0, <1>8, DecideAdvances
  <2>4. \A u \in Threads : u # t => run'[u] = run[u]
    BY <1>0, <2>3 DEF Advances, Set
  <2>5. CommandsAreInRuns'
    BY <1>0, <2>1, <2>2, <2>4, IdleThread
  <2> QED
    BY <1>1, <2>1, <2>3, <2>5
<1>9. CASE NextPackage(t)
  <2>1. run[t].pc = "loop" /\ UNCHANGED lockVars
    BY <1>9 DEF NextPackage, At
  <2>2. PICK r : \/ StartsTry(t, r) \/ StopsLoop(t, r)
                 \/ Advances(t, r) /\ run[t].todo # << >>
    BY <1>0, <1>9, NextPackageIs
  <2>3. Set(t, r)
    BY <2>2 DEF StartsTry, StopsLoop, Advances
  <2>4. \A u \in Threads : u # t => run'[u] = run[u]
    BY <1>0, <2>3 DEF Set
  <2>5. CommandsAreInRuns'
    BY <1>0, <2>1, <2>4, IdleThread
  <2> QED
    BY <1>0, <2>1, <2>2, <2>5, StartsTryKeeps, StopsLoopKeeps, AdvancesKeeps
<1> QED
    BY <1>4, <1>5, <1>6, <1>7, <1>8, <1>9 DEF Step

\* The job body looks again at the inventory, or goes on after a call.
LEMMA BodyTriesKeep ==
    ASSUME UpdatesInvariant, LookAgain \/ Returned
    PROVE  UpdatesTypes' /\ RunsAreSound' /\ CommandsAreInRuns' /\ Related'
<1>0. /\ LockOwnership /\ UpdatesTypes /\ RunsAreSound /\ CommandsAreInRuns /\ Related
      /\ Body \in Threads /\ RunIsSound(run[Body], Body, earned) /\ run \in [Threads -> Runs]
    BY TheThreads DEF UpdatesInvariant, UpdatesTypes, RunsAreSound
<1>1. run[Body].pc \in {"look again", "returned"} /\ UNCHANGED lockVars
    BY DEF LookAgain, Returned, At
<1>2. run[Body].todo # << >>
    BY <1>0, <1>1 DEF RunIsSound, KnowsItsPackage
<1>3. PICK r : Advances(Body, r) \/ (StartsTry(Body, r) /\ run[Body].pc = "look again")
    BY <1>0, LookAgainIs, ReturnedIs DEF LookAgain, At
<1>4. Set(Body, r)
    BY <1>3 DEF StartsTry, Advances
<1>5. \A u \in Threads : u # Body => run'[u] = run[u]
    BY <1>0, <1>4 DEF Set
<1>6. CommandsAreInRuns'
    BY <1>0, <1>1, <1>5, IdleThread
<1> QED
    BY <1>0, <1>1, <1>2, <1>3, <1>6, AdvancesKeeps, StartsTryKeeps

-----------------------------------------------------------------------------
(***************************************************************************)
(* The other steps.                                                        *)
(***************************************************************************)

LEMMA NewRunIs ==
    ASSUME NEW t \in Threads, NEW done, NEW todo \in Seq(Packages),
           NEW pc \in PlacesOf(t) \cap {"preflight", "absent", "connecting", "loop"}
    PROVE  /\ RunIsSound(Run(pc, todo), t, done)
           /\ Run(pc, todo).pc = pc /\ Run(pc, todo).todo = todo /\ Run(pc, todo).live
           /\ Run(pc, todo).results = << >>
<1> DEFINE r == Run(pc, todo)
<1>1. pc \in BodyPlaces \cup WorkerPlaces /\ << >> \in Seq(Entries) /\ Len(<< >>) = 0
    BY EmptySeq DEF BodyPlaces, WorkerPlaces
<1>2. /\ r.pc = pc /\ r.todo = todo /\ r.live /\ r.results = << >> /\ r.got = NoResult
      /\ r.before = {} /\ r \in Runs
    BY <1>1 DEF Run, Runs
<1> HIDE DEF r
<1>3. KnowsItsPackage(r, t) /\ RefusalEnds(r)
    BY <1>2 DEF KnowsItsPackage, RefusalEnds
<1>4. Earned(r.results, done)
    BY <1>1, <1>2 DEF Earned
<1>5. RunIsEarned(r, done)
    BY <1>2, <1>4 DEF RunIsEarned
<1> QED
    BY <1>2, <1>3, <1>5 DEF RunIsSound, r

LEMMA InvariantSays ==
    ASSUME UpdatesInvariant
    PROVE  /\ LockOwnership /\ LockTypes /\ UpdatesTypes /\ RunsAreSound
           /\ CommandsAreInRuns /\ Related
           /\ CallKnowsWorker /\ WorkerFollowsCall /\ ReplyIsEarned /\ EveryPackageIsTold
           /\ run \in [Threads -> Runs] /\ call \in Calls /\ job \in Jobs /\ earned \subseteq Packages
           /\ \A t \in Threads : run[t] \in Runs /\ RunIsSound(run[t], t, earned)
           /\ call.at \in {"none", "launching", "accepting", "exchanging", "acking"}
           /\ \A t \in Threads : Home[t] \in Processes
    BY HomeIsAProcess DEF UpdatesInvariant, LockOwnership, Related, UpdatesTypes, RunsAreSound, Calls

\* A thread's context ends.
LEMMA CancelledRunIs ==
    ASSUME NEW t, NEW done, NEW r \in Runs, RunIsSound(r, t, done)
    PROVE  LET f == [r EXCEPT !.live = FALSE]
           IN /\ RunIsSound(f, t, done) /\ ~f.live /\ f.pc = r.pc /\ f.todo = r.todo
              /\ f.results = r.results
<1> DEFINE f == [r EXCEPT !.live = FALSE]
<1>1. /\ f \in Runs /\ ~f.live /\ f.pc = r.pc /\ f.todo = r.todo /\ f.results = r.results
      /\ f.doing = r.doing /\ f.got = r.got /\ f.before = r.before
    BY DEF Runs
<1> HIDE DEF f
<1>2. RunIsSound(f, t, done)
    BY <1>1 DEF RunIsSound, KnowsItsPackage, RefusalEnds, RunIsEarned
<1> QED
    BY <1>1, <1>2 DEF f

LEMMA CancelKeeps ==
    ASSUME UpdatesInvariant, NEW t \in Threads, Cancel(t)
    PROVE  UpdatesTypes' /\ RunsAreSound' /\ CommandsAreInRuns' /\ Related'
<1> DEFINE r == [run[t] EXCEPT !.live = FALSE]
<1>1. t \in {Body, Task} /\ run[t].pc # "ended" /\ Set(t, r)
      /\ UNCHANGED <<machine, deaths, call, job, earned>> /\ UNCHANGED lockVars
    BY InvariantSays, TheMachine DEF Cancel
<1>2. RunIsSound(r, t, earned) /\ ~r.live /\ r.pc = run[t].pc /\ r.todo = run[t].todo
      /\ r.results = run[t].results
    BY InvariantSays, CancelledRunIs
<1> HIDE DEF r
<1>3. /\ UpdatesTypes' /\ RunsAreSound'
      /\ run'[t] = r /\ \A u \in Threads : u # t => run'[u] = run[u]
  <2>1. RunIsSound(r, t, earned') /\ earned \subseteq earned' /\ earned' \subseteq Packages
        /\ call' \in Calls /\ job' \in Jobs
    BY <1>1, <1>2, InvariantSays
  <2> QED
    BY <1>1, <2>1, InvariantSays, RunChangesRightly
<1>4. CommandsAreInRuns'
    BY <1>1, <1>2, <1>3, InvariantSays, IdleThread
<1>5. CASE t = Task
  <2>1. run'[Body] = run[Body] /\ run'[Worker] = run[Worker]
    BY <1>3, <1>5, TheThreads
  <2> QED
    BY <1>1, <1>3, <1>4, <2>1, InvariantSays, TaskKeepsRelated
<1>6. CASE t = Body
  <2>1. run'[Body] = r /\ run'[Worker] = run[Worker]
    BY <1>3, <1>6, TheThreads
  <2>2. CallKnowsWorker' /\ WorkerFollowsCall' /\ ReplyIsEarned'
    BY <1>1, <1>2, <1>6, <2>1, InvariantSays DEF CallKnowsWorker, WorkerFollowsCall, ReplyIsEarned
  <2>3. EveryPackageIsTold'
    BY <1>1, <1>2, <1>6, <2>1, InvariantSays DEF EveryPackageIsTold, Undisturbed
  <2> QED
    BY <1>3, <1>4, <2>2, <2>3 DEF Related
<1> QED
    BY <1>1, <1>5, <1>6

LEMMA SeeCancelKeeps ==
    ASSUME UpdatesInvariant, SeeCancel
    PROVE  UpdatesTypes' /\ RunsAreSound' /\ CommandsAreInRuns' /\ Related'
<1> DEFINE r == [run[Worker] EXCEPT !.live = FALSE]
<1>1. call.cancelled /\ Set(Worker, r)
      /\ run[Worker].pc \notin {"absent", "answered"}
      /\ UNCHANGED <<machine, deaths, call, job, earned>> /\ UNCHANGED lockVars
    BY DEF SeeCancel
<1>2. RunIsSound(r, Worker, earned) /\ ~r.live /\ r.pc = run[Worker].pc
      /\ r.todo = run[Worker].todo /\ r.results = run[Worker].results
    BY InvariantSays, TheThreads, CancelledRunIs
<1> HIDE DEF r
<1>3. /\ UpdatesTypes' /\ RunsAreSound'
      /\ run'[Worker] = r /\ run'[Body] = run[Body]
      /\ \A u \in Threads : u # Worker => run'[u] = run[u]
  <2>1. RunIsSound(r, Worker, earned') /\ earned \subseteq earned' /\ earned' \subseteq Packages
        /\ call' \in Calls /\ job' \in Jobs
    BY <1>1, <1>2, InvariantSays
  <2>2. /\ UpdatesTypes' /\ RunsAreSound'
        /\ run'[Worker] = r /\ \A u \in Threads : u # Worker => run'[u] = run[u]
    BY <1>1, <2>1, InvariantSays, TheThreads, RunChangesRightly
  <2> QED
    BY <2>2, TheThreads
<1>4. CommandsAreInRuns'
    BY <1>1, <1>2, <1>3, InvariantSays, TheThreads, IdleThread
<1>5. CallKnowsWorker'
    BY <1>1, <1>2, <1>3, InvariantSays DEF CallKnowsWorker
<1>6. call.reply = NoResult
    BY <1>1, InvariantSays DEF CallKnowsWorker
<1>7. WorkerFollowsCall' /\ ReplyIsEarned'
    BY <1>1, <1>2, <1>3, <1>6, InvariantSays DEF WorkerFollowsCall, ReplyIsEarned
<1>8. EveryPackageIsTold'
    BY <1>1, <1>3, InvariantSays DEF EveryPackageIsTold, Undisturbed, Order, Remaining
<1> QED
    BY <1>3, <1>4, <1>5, <1>7, <1>8 DEF Related

LEMMA ConcludeKeeps ==
    ASSUME UpdatesInvariant, Conclude
    PROVE  UpdatesTypes' /\ RunsAreSound' /\ CommandsAreInRuns' /\ Related'
<1> DEFINE r == [run[Body] EXCEPT !.pc = "ended"]
<1>1. run[Body].pc = "refresh" /\ Set(Body, r)
      /\ UNCHANGED <<machine, deaths, call, earned>> /\ UNCHANGED lockVars
    BY DEF Conclude, At
<1>2. PICK state \in {"cancelled", "not verified", "failed", "succeeded"} :
        /\ job' = [job EXCEPT !.state = state]
        /\ job.state = "cancelled" \/ ~run[Body].live => state = "cancelled"
  <2>1. PICK refreshed \in BOOLEAN :
          LET entries == {run[Body].results[i] : i \in DOMAIN run[Body].results}
              accepted == \E e \in entries : e.code = "accepted"
              failed == \E e \in entries : ~e.ok /\ e.code # "skipped"
          IN job' = [job EXCEPT !.state =
                CASE job.state = "cancelled" \/ ~run[Body].live -> "cancelled"
                  [] job.state # "cancelled" /\ run[Body].live ->
                       IF accepted THEN "not verified"
                       ELSE IF failed THEN "failed"
                       ELSE IF refreshed THEN "succeeded" ELSE "not verified"]
    BY DEF Conclude
  <2> DEFINE accepted == \E e \in {run[Body].results[i] : i \in DOMAIN run[Body].results} :
                           e.code = "accepted"
             failed == \E e \in {run[Body].results[i] : i \in DOMAIN run[Body].results} :
                           ~e.ok /\ e.code # "skipped"
             state == CASE job.state = "cancelled" \/ ~run[Body].live -> "cancelled"
                        [] job.state # "cancelled" /\ run[Body].live ->
                             IF accepted THEN "not verified"
                             ELSE IF failed THEN "failed"
                             ELSE IF refreshed THEN "succeeded" ELSE "not verified"
  <2>2. job' = [job EXCEPT !.state = state]
    BY <2>1
  <2> HIDE DEF accepted, failed
  <2>3. /\ state \in {"cancelled", "not verified", "failed", "succeeded"}
        /\ job.state = "cancelled" \/ ~run[Body].live => state = "cancelled"
    <3>1. CASE job.state = "cancelled" \/ ~run[Body].live
      BY <3>1
    <3>2. CASE job.state # "cancelled" /\ run[Body].live
      BY <3>2
    <3> QED
      BY <3>1, <3>2
  <2> HIDE DEF state
  <2> QED
    BY <2>2, <2>3
<1>3. job' \in Jobs /\ job'.state = state
    BY <1>2, InvariantSays DEF Jobs
<1>4. RunIsSound(run[Body], Body, earned) /\ run[Body] \in Runs
    BY InvariantSays, TheThreads
<1>5. /\ r \in Runs /\ r.pc = "ended" /\ r.todo = run[Body].todo /\ r.results = run[Body].results
      /\ r.live = run[Body].live /\ r.before = run[Body].before
    BY <1>4 DEF Runs, BodyPlaces
<1> HIDE DEF r
<1>6. RunIsSound(r, Body, earned)
  <2>1. KnowsItsPackage(r, Body)
    BY <1>1, <1>4, <1>5 DEF RunIsSound, KnowsItsPackage, PlacesOf, BodyPlaces
  <2>2. RefusalEnds(r) /\ RunIsEarned(r, earned)
    BY <1>4, <1>5 DEF RunIsSound, RefusalEnds, RunIsEarned
  <2> QED
    BY <1>5, <2>1, <2>2 DEF RunIsSound
<1>7. /\ UpdatesTypes' /\ RunsAreSound'
      /\ run'[Body] = r /\ run'[Worker] = run[Worker]
      /\ \A u \in Threads : u # Body => run'[u] = run[u]
  <2>1. RunIsSound(r, Body, earned') /\ earned \subseteq earned' /\ earned' \subseteq Packages
        /\ call' \in Calls
    BY <1>1, <1>6, InvariantSays
  <2>2. /\ UpdatesTypes' /\ RunsAreSound'
        /\ run'[Body] = r /\ \A u \in Threads : u # Body => run'[u] = run[u]
    BY <1>1, <1>3, <2>1, InvariantSays, TheThreads, RunChangesRightly
  <2> QED
    BY <2>2, TheThreads
<1>8. CommandsAreInRuns'
    BY <1>1, <1>7, InvariantSays, TheThreads, IdleThread
<1>9. Undisturbed' => Undisturbed
    BY <1>1, <1>2, <1>3, <1>5, <1>7 DEF Undisturbed
<1>10. Related'
  <2>1. /\ run'[Body].results \in Seq(Entries) /\ run'[Body].todo \in Seq(Packages)
        /\ run'[Body].results = run[Body].results /\ run'[Body].todo = run[Body].todo
    BY <1>5, <1>7, MembersOf
  <2> QED
    BY <1>1, <1>5, <1>7, <1>9, <2>1, InvariantSays, BodyGoesOn
<1> QED
    BY <1>7, <1>8, <1>10

LEMMA LaunchWorkerKeeps ==
    ASSUME UpdatesInvariant, LaunchWorker
    PROVE  UpdatesTypes' /\ RunsAreSound' /\ CommandsAreInRuns' /\ Related'
<1> DEFINE r == Run("connecting", << >>)
<1>1. /\ call.at = "launching" /\ call' = [call EXCEPT !.at = "accepting"] /\ Set(Worker, r)
      /\ ProcessStarts(Home[Worker]) /\ UNCHANGED <<machine, deaths, job, earned>>
    BY DEF LaunchWorker
<1>2. RunIsSound(r, Worker, earned) /\ r.pc = "connecting" /\ r.live
  <2>1. << >> \in Seq(Packages) /\ "connecting" \in PlacesOf(Worker)
    BY EmptySeq, TheThreads DEF PlacesOf, WorkerPlaces
  <2> QED
    BY <2>1, TheThreads, NewRunIs
<1> HIDE DEF r
<1>3. /\ call' \in Calls /\ call'.at = "accepting" /\ call'.packages = call.packages
      /\ call'.batch = call.batch /\ call'.cancelled = call.cancelled /\ call'.reply = call.reply
    BY <1>1, InvariantSays DEF Calls
<1>4. /\ UpdatesTypes' /\ RunsAreSound'
      /\ run'[Worker] = r /\ run'[Body] = run[Body]
      /\ \A u \in Threads : u # Worker => run'[u] = run[u]
  <2>1. RunIsSound(r, Worker, earned') /\ earned \subseteq earned' /\ earned' \subseteq Packages
        /\ job' \in Jobs
    BY <1>1, <1>2, InvariantSays
  <2>2. /\ UpdatesTypes' /\ RunsAreSound'
        /\ run'[Worker] = r /\ \A u \in Threads : u # Worker => run'[u] = run[u]
    BY <1>1, <1>3, <2>1, InvariantSays, TheThreads, RunChangesRightly
  <2> QED
    BY <2>2, TheThreads
<1>5. run[Worker].pc = "absent" /\ call.reply = NoResult
    BY <1>1, InvariantSays DEF CallKnowsWorker
<1>6. CommandsAreInRuns'
  <2>1. \A u \in Threads : at'[u] # "out" \/ tree'[u] => run[u].pc = "command"
    BY <1>1, InvariantSays, TheThreads, OnlyCommandsStay
  <2> QED
    BY <1>4, <1>5, <2>1 DEF CommandsAreInRuns
<1>7. CallKnowsWorker'
    BY <1>1, <1>2, <1>3, <1>4, <1>5, InvariantSays DEF CallKnowsWorker
<1>8. WorkerFollowsCall' /\ ReplyIsEarned'
    BY <1>2, <1>3, <1>4, <1>5 DEF WorkerFollowsCall, ReplyIsEarned
<1>9. EveryPackageIsTold'
    BY <1>1, <1>3, <1>4, InvariantSays DEF EveryPackageIsTold, Undisturbed, Order, Remaining
<1> QED
    BY <1>4, <1>6, <1>7, <1>8, <1>9 DEF Related

LEMMA WorkerReceivesKeeps ==
    ASSUME UpdatesInvariant, WorkerReceives
    PROVE  UpdatesTypes' /\ RunsAreSound' /\ CommandsAreInRuns' /\ Related'
<1> DEFINE r == Run("loop", call.packages)
<1>1. /\ call.at = "accepting" /\ call' = [call EXCEPT !.at = "exchanging"] /\ Set(Worker, r)
      /\ run[Worker].pc = "connecting" /\ UNCHANGED <<machine, deaths, job, earned>>
      /\ UNCHANGED lockVars
    BY DEF WorkerReceives, At
<1>2. RunIsSound(r, Worker, earned) /\ r.pc = "loop" /\ r.live /\ r.todo = call.packages
      /\ r.results = << >>
  <2>1. call.packages \in Seq(Packages) /\ Worker \in Threads
    BY InvariantSays, TheBody, TheThreads
  <2>2. "loop" \in PlacesOf(Worker) \cap {"preflight", "absent", "connecting", "loop"}
    BY TheThreads DEF PlacesOf, WorkerPlaces
  <2>3. r = Run("loop", call.packages)
    OBVIOUS
  <2> HIDE DEF r
  <2> QED
    BY ONLY <2>1, <2>2, <2>3, NewRunIs
<1> HIDE DEF r
<1>3. /\ call' \in Calls /\ call'.at = "exchanging" /\ call'.packages = call.packages
      /\ call'.batch = call.batch /\ call'.cancelled = call.cancelled /\ call'.reply = call.reply
    BY <1>1, InvariantSays DEF Calls
<1>4. /\ UpdatesTypes' /\ RunsAreSound'
      /\ run'[Worker] = r /\ run'[Body] = run[Body]
      /\ \A u \in Threads : u # Worker => run'[u] = run[u]
  <2>1. RunIsSound(r, Worker, earned') /\ earned \subseteq earned' /\ earned' \subseteq Packages
        /\ job' \in Jobs
    BY <1>1, <1>2, InvariantSays
  <2>2. /\ UpdatesTypes' /\ RunsAreSound'
        /\ run'[Worker] = r /\ \A u \in Threads : u # Worker => run'[u] = run[u]
    BY <1>1, <1>3, <2>1, InvariantSays, TheThreads, RunChangesRightly
  <2> QED
    BY <2>2, TheThreads
<1>5. call.reply = NoResult
    BY <1>1, InvariantSays DEF CallKnowsWorker
<1>6. CommandsAreInRuns'
    BY <1>1, <1>4, InvariantSays, TheThreads, IdleThread
<1>7. CallKnowsWorker'
    BY <1>1, <1>2, <1>3, <1>4, <1>5, InvariantSays DEF CallKnowsWorker
<1>8. Follows(r.results, r.todo, call.packages)
  <2>1. call.packages \in Seq(Packages) /\ Len(call.packages) \in Nat /\ Len(<< >>) = 0
    BY InvariantSays, TheBody, LenProperties, EmptySeq
  <2> DEFINE packages == call.packages
             none == << >>
  <2>2. Len(none) + Len(packages) = Len(packages)
        /\ \A i \in 1 .. Len(packages) : Len(none) + i = i
    BY <2>1
  <2>3. r.results = none /\ r.todo = packages /\ Len(none) = 0
    BY <1>2, <2>1
  <2> HIDE DEF packages, none
  <2> QED
    BY <2>2, <2>3 DEF Follows, packages
<1>9. WorkerFollowsCall' /\ ReplyIsEarned'
    BY <1>2, <1>3, <1>4, <1>5, <1>8 DEF WorkerFollowsCall, ReplyIsEarned
<1>10. EveryPackageIsTold'
    BY <1>1, <1>3, <1>4, InvariantSays DEF EveryPackageIsTold, Undisturbed, Order, Remaining
<1> QED
    BY <1>4, <1>6, <1>7, <1>9, <1>10 DEF Related

LEMMA SignalCancelKeeps ==
    ASSUME UpdatesInvariant, SignalCancel
    PROVE  UpdatesTypes' /\ RunsAreSound' /\ CommandsAreInRuns' /\ Related'
<1>1. /\ call.at = "exchanging" /\ call' = [call EXCEPT !.at = "acking", !.cancelled = TRUE]
      /\ ~run[Body].live /\ UNCHANGED <<machine, deaths, run, job, earned>> /\ UNCHANGED lockVars
    BY DEF SignalCancel
<1>2. /\ call' \in Calls /\ call'.at = "acking" /\ call'.packages = call.packages
      /\ call'.batch = call.batch /\ call'.cancelled /\ call'.reply = call.reply
    BY <1>1, InvariantSays DEF Calls
<1>3. UpdatesTypes' /\ RunsAreSound' /\ CommandsAreInRuns'
    BY <1>1, <1>2, InvariantSays DEF UpdatesTypes, RunsAreSound, CommandsAreInRuns, lockVars
<1>4. CallKnowsWorker'
    BY <1>1, <1>2, InvariantSays DEF CallKnowsWorker
<1>5. WorkerFollowsCall' /\ ReplyIsEarned'
    BY <1>1, <1>2, InvariantSays DEF WorkerFollowsCall, ReplyIsEarned
<1>6. EveryPackageIsTold'
    BY <1>1, <1>2, InvariantSays DEF EveryPackageIsTold, Undisturbed, Order, Remaining
<1> QED
    BY <1>3, <1>4, <1>5, <1>6 DEF Related

-----------------------------------------------------------------------------
(***************************************************************************)
(* The plan of the job.                                                    *)
(***************************************************************************)

Distinct(s) == \A i, j \in 1 .. Len(s) : s[i] = s[j] => i = j
Members(s) == {s[i] : i \in 1 .. Len(s)}

LEMMA OnlyIs ==
    ASSUME NEW s \in Seq(Packages), NEW S, Distinct(s)
    PROVE  /\ Only(s, S) \in Seq(Packages) /\ Distinct(Only(s, S))
           /\ Members(Only(s, S)) = Members(s) \cap S
<1> DEFINE o == Only(s, S)
<1>1. /\ o \in Seq(Packages)
      /\ \A k \in 1 .. Len(o) : \E i \in 1 .. Len(s) : s[i] \in S /\ o[k] = s[i]
      /\ \A i \in 1 .. Len(s) : s[i] \in S => \E k \in 1 .. Len(o) : o[k] = s[i]
      /\ \A j, k \in 1 .. Len(o) : o[j] = o[k] => j = k
    BY OnlyTakes DEF Distinct
<1> HIDE DEF o
<1>2. Members(o) \subseteq Members(s) \cap S
    BY <1>1 DEF Members
<1>3. Members(s) \cap S \subseteq Members(o)
    BY <1>1 DEF Members
<1>4. Distinct(o)
    BY <1>1 DEF Distinct
<1> QED
    BY <1>1, <1>2, <1>3, <1>4 DEF o

LEMMA JoinIs ==
    ASSUME NEW s \in Seq(Packages), NEW t \in Seq(Packages), Distinct(s), Distinct(t),
           Members(s) \cap Members(t) = {}
    PROVE  /\ s \o t \in Seq(Packages) /\ Distinct(s \o t)
           /\ Members(s \o t) = Members(s) \cup Members(t)
<1> DEFINE o == s \o t
<1>1. /\ o \in Seq(Packages) /\ Len(o) = Len(s) + Len(t)
      /\ \A i \in 1 .. Len(s) + Len(t) : o[i] = IF i <= Len(s) THEN s[i] ELSE t[i - Len(s)]
    BY ConcatProperties
<1>2. Len(s) \in Nat /\ Len(t) \in Nat
    BY LenProperties
<1> HIDE DEF o
<1>3. ASSUME NEW i \in 1 .. Len(o)
      PROVE  \/ i \in 1 .. Len(s) /\ o[i] = s[i]
             \/ i - Len(s) \in 1 .. Len(t) /\ o[i] = t[i - Len(s)]
  <2>1. i \in Int /\ 1 <= i /\ i <= Len(s) + Len(t) /\ i \in 1 .. Len(s) + Len(t)
    BY <1>1, <1>2
  <2>2. CASE i <= Len(s)
    <3>1. i \in 1 .. Len(s)
      BY <2>1, <2>2, <1>2
    <3> QED
      BY <3>1, <2>1, <2>2, <1>1
  <2>3. CASE ~(i <= Len(s))
    <3>1. i - Len(s) \in 1 .. Len(t)
      BY <2>1, <2>3, <1>2
    <3> QED
      BY <3>1, <2>1, <2>3, <1>1
  <2> QED
    BY <2>2, <2>3
<1>4. ASSUME NEW i \in 1 .. Len(s)
      PROVE  i \in 1 .. Len(o) /\ o[i] = s[i]
  <2>1. i \in 1 .. Len(s) + Len(t) /\ i <= Len(s)
    BY <1>2
  <2> QED
    BY <2>1, <1>1
<1>5. ASSUME NEW i \in 1 .. Len(t)
      PROVE  Len(s) + i \in 1 .. Len(o) /\ o[Len(s) + i] = t[i]
  <2>1. Len(s) + i \in 1 .. Len(s) + Len(t) /\ ~(Len(s) + i <= Len(s)) /\ Len(s) + i - Len(s) = i
    BY <1>2
  <2> QED
    BY <2>1, <1>1
<1>6. Members(o) \subseteq Members(s) \cup Members(t)
    BY <1>3 DEF Members
<1>7. Members(s) \subseteq Members(o) /\ Members(t) \subseteq Members(o)
  <2>1. Members(s) \subseteq Members(o)
    BY <1>4 DEF Members
  <2>2. ASSUME NEW p \in Members(t) PROVE p \in Members(o)
    <3>1. PICK i \in 1 .. Len(t) : p = t[i]
      BY DEF Members
    <3>2. Len(s) + i \in 1 .. Len(o) /\ o[Len(s) + i] = p
      BY <3>1, <1>5
    <3> QED
      BY <3>2 DEF Members
  <2> QED
    BY <2>1, <2>2
<1>8. ASSUME NEW i \in 1 .. Len(o), NEW j \in 1 .. Len(o), o[i] = o[j]
      PROVE  i = j
  <2>1. i \in Int /\ j \in Int
    OBVIOUS
  <2>2. CASE i \in 1 .. Len(s) /\ o[i] = s[i] /\ j \in 1 .. Len(s) /\ o[j] = s[j]
    BY <2>2, <1>8 DEF Distinct
  <2>3. CASE /\ i - Len(s) \in 1 .. Len(t) /\ o[i] = t[i - Len(s)]
             /\ j - Len(s) \in 1 .. Len(t) /\ o[j] = t[j - Len(s)]
    <3>1. i - Len(s) = j - Len(s)
      BY <2>3, <1>8 DEF Distinct
    <3> QED
      BY <3>1, <2>1, <1>2
  <2>4. CASE /\ i \in 1 .. Len(s) /\ o[i] = s[i]
             /\ j - Len(s) \in 1 .. Len(t) /\ o[j] = t[j - Len(s)]
    <3>1. o[i] \in Members(s) /\ o[j] \in Members(t)
      BY <2>4 DEF Members
    <3> QED
      BY <3>1, <1>8
  <2>5. CASE /\ j \in 1 .. Len(s) /\ o[j] = s[j]
             /\ i - Len(s) \in 1 .. Len(t) /\ o[i] = t[i - Len(s)]
    <3>1. o[j] \in Members(s) /\ o[i] \in Members(t)
      BY <2>5 DEF Members
    <3> QED
      BY <3>1, <1>8
  <2> QED
    BY <2>2, <2>3, <2>4, <2>5, <1>3
<1>9. Distinct(o)
    BY <1>8 DEF Distinct
<1> QED
    BY <1>1, <1>6, <1>7, <1>9 DEF o

\* What the plan does with the packages asked for: those that are skipped,
\* the batch, and the rest, are all of them.
LEMMA PlanIs ==
    ASSUME NEW asked \in Seq(Packages), Distinct(asked), NEW kept \in SUBSET Members(asked)
    PROVE  LET packages == Only(asked, kept)
               gone == Only(asked, Members(asked) \ kept)
               batch == Batch(packages)
               rest == IF batch = << >> THEN packages
                       ELSE Only(packages, {p \in Packages : ~InBatch(p)})
           IN /\ gone \in Seq(Packages) /\ batch \in Seq(Packages) /\ rest \in Seq(Packages)
              /\ IsListing(gone \o (batch \o rest), asked)
              /\ batch = << >> => IsListing(gone \o rest, asked)
<1> DEFINE packages == Only(asked, kept)
           gone == Only(asked, Members(asked) \ kept)
           batch == Batch(packages)
           outside == {p \in Packages : ~InBatch(p)}
           inside == {p \in Packages : InBatch(p)}
           rest == IF batch = << >> THEN packages ELSE Only(packages, outside)
<1>1. packages \in Seq(Packages) /\ Distinct(packages) /\ Members(packages) = kept
    BY OnlyIs
<1>2. gone \in Seq(Packages) /\ Distinct(gone) /\ Members(gone) = Members(asked) \ kept
    BY OnlyIs
<1> HIDE DEF packages, gone
<1>3. kept \subseteq Packages
    BY ElementOfSeq DEF Members
<1>4. batch = << >> \/ batch = Only(packages, inside)
    BY DEF Batch
<1>5. << >> \in Seq(Packages) /\ Distinct(<< >>) /\ Members(<< >>) = {}
  <2> DEFINE none == << >>
  <2>1. none \in Seq(Packages) /\ Len(none) = 0
    BY EmptySeq
  <2>2. 1 .. Len(none) = {}
    BY <2>1
  <2> HIDE DEF none
  <2>3. none \in Seq(Packages) /\ Distinct(none) /\ Members(none) = {}
    BY <2>1, <2>2 DEF Distinct, Members
  <2> QED
    BY <2>3 DEF none
<1>6. /\ batch \in Seq(Packages) /\ Distinct(batch) /\ rest \in Seq(Packages) /\ Distinct(rest)
      /\ Members(batch) \cap Members(rest) = {} /\ Members(batch) \cup Members(rest) = kept
      /\ batch \o rest \in Seq(Packages) /\ (batch = << >> => batch \o rest = rest)
  <2>1. CASE batch = << >>
    <3>1. rest = packages
      BY <2>1
    <3>2. batch \o rest = rest
      BY <2>1, <3>1, <1>1, ConcatEmptySeq
    <3> HIDE DEF batch, rest
    <3> QED
      BY <2>1, <3>1, <3>2, <1>1, <1>5
  <2>2. CASE batch # << >>
    <3>1. rest = Only(packages, outside) /\ batch = Only(packages, inside)
      BY <2>2, <1>4
    <3> HIDE DEF batch, rest, inside, outside
    <3>2. rest \in Seq(Packages) /\ Distinct(rest) /\ Members(rest) = kept \cap outside
      BY <3>1, <1>1, OnlyIs
    <3>3. batch \in Seq(Packages) /\ Distinct(batch) /\ Members(batch) = kept \cap inside
      BY <3>1, <1>1, OnlyIs
    <3>4. batch \o rest \in Seq(Packages)
      BY <3>2, <3>3, ConcatProperties
    <3>5. kept \cap outside \cap (kept \cap inside) = {} /\ (kept \cap inside) \cup (kept \cap outside) = kept
      BY <1>3 DEF inside, outside
    <3> QED
      BY <2>2, <3>2, <3>3, <3>4, <3>5
  <2> QED
    BY <2>1, <2>2
<1> HIDE DEF batch, rest
<1> DEFINE all == batch \o rest
           told == gone \o all
<1>7. all \in Seq(Packages) /\ Distinct(all) /\ Members(all) = kept
    BY <1>6, JoinIs
<1> HIDE DEF all
<1>8. told \in Seq(Packages) /\ Distinct(told) /\ Members(told) = Members(asked)
  <2>1. Members(gone) \cap Members(all) = {} /\ Members(gone) \cup Members(all) = Members(asked)
    BY <1>2, <1>7
  <2> QED
    BY <2>1, <1>2, <1>7, JoinIs
<1> HIDE DEF told
<1>9. IsListing(told, asked)
    BY <1>8 DEF IsListing, Distinct, Members
<1> QED
    BY <1>2, <1>6, <1>9 DEF told, all, packages, gone, batch, rest

\* What is skipped is told as that.
LEMMA SkippedTells ==
    ASSUME NEW packages \in Seq(Packages), NEW done
    PROVE  /\ Skipped(packages) \in Seq(Entries)
           /\ PackagesOf(Skipped(packages)) = packages
           /\ Earned(Skipped(packages), done)
           /\ ~Interrupted(Skipped(packages))
<1> DEFINE s == Skipped(packages)
<1>1. /\ s \in Seq(Entries) /\ Len(s) = Len(packages)
      /\ \A i \in 1 .. Len(packages) :
           s[i].package = packages[i] /\ ~s[i].ok /\ s[i].code = "skipped"
    BY SkippedIs
<1> HIDE DEF s
<1>2. /\ PackagesOf(s) \in Seq(Packages) /\ Len(PackagesOf(s)) = Len(packages)
      /\ \A i \in 1 .. Len(packages) : PackagesOf(s)[i] = packages[i]
    BY <1>1, PackagesOfIs
<1>3. PackagesOf(s) = packages
    BY <1>2, SeqEqual
<1>4. Earned(s, done) /\ ~Interrupted(s)
    BY <1>1 DEF Earned, Interrupted
<1> QED
    BY <1>1, <1>3, <1>4 DEF s

LEMMA PreflightKeeps ==
    ASSUME UpdatesInvariant, Preflight
    PROVE  UpdatesTypes' /\ RunsAreSound' /\ CommandsAreInRuns' /\ Related'
<1> DEFINE now == run[Body]
           asked == machine.job
<1>1. /\ now.pc = "preflight" /\ now.todo = asked /\ now.results = << >>
      /\ UNCHANGED <<machine, deaths, earned>> /\ UNCHANGED lockVars
    BY InvariantSays DEF Preflight, At, EveryPackageIsTold
<1>2. asked \in Seq(Packages) /\ Distinct(asked) /\ DOMAIN asked = 1 .. Len(asked)
  <2>1. asked \in Seq(Packages) /\ \A i, j \in DOMAIN asked : asked[i] = asked[j] => i = j
    BY InvariantSays, TheMachine
  <2>2. DOMAIN asked = 1 .. Len(asked)
    BY <2>1, LenProperties
  <2> QED
    BY <2>1, <2>2 DEF Distinct
<1>3. {now.todo[i] : i \in DOMAIN now.todo} = Members(asked)
    BY <1>1, <1>2 DEF Members
<1> DEFINE Packs(kept) == Only(now.todo, kept)
           Gone(kept) == Only(now.todo, Members(asked) \ kept)
           Bat(kept) == Batch(Packs(kept))
           Rest(kept) == IF Bat(kept) = << >> THEN Packs(kept)
                         ELSE Only(Packs(kept), {p \in Packages : ~InBatch(p)})
<1> DEFINE Found(found) == [p \in Packages |-> IF p \in Members(asked) THEN found[p] ELSE p]
<1>4. PICK kept \in SUBSET Members(asked), found \in [Members(asked) -> Packages] :
        /\ job' = [job EXCEPT !.rest = Rest(kept), !.found = Found(found)]
        /\ \/ /\ now.live /\ Bat(kept) # << >>
              /\ Set(Body, [now EXCEPT !.pc = "worker", !.todo = Bat(kept),
                                       !.results = Skipped(Gone(kept))])
              /\ call' = Call(Bat(kept), TRUE)
           \/ /\ ~now.live \/ Bat(kept) = << >>
              /\ Set(Body, [now EXCEPT !.pc = IF now.live THEN "loop" ELSE "refresh",
                                       !.todo = IF now.live THEN Rest(kept) ELSE << >>,
                                       !.results = Skipped(Gone(kept))])
              /\ UNCHANGED call
    BY <1>3 DEF Preflight
<1> DEFINE gone == Gone(kept)
           batch == Bat(kept)
           rest == Rest(kept)
           known == Found(found)
<1>5. /\ gone \in Seq(Packages) /\ batch \in Seq(Packages) /\ rest \in Seq(Packages)
      /\ IsListing(gone \o (batch \o rest), asked)
      /\ batch = << >> => IsListing(gone \o rest, asked)
    BY <1>1, <1>2, PlanIs
<1>k. known \in [Packages -> Packages]
    OBVIOUS
<1>6. /\ job' = [job EXCEPT !.rest = rest, !.found = known]
      /\ \/ /\ now.live /\ batch # << >>
            /\ Set(Body, [now EXCEPT !.pc = "worker", !.todo = batch, !.results = Skipped(gone)])
            /\ call' = Call(batch, TRUE)
         \/ /\ ~now.live \/ batch = << >>
            /\ Set(Body, [now EXCEPT !.pc = IF now.live THEN "loop" ELSE "refresh",
                                     !.todo = IF now.live THEN rest ELSE << >>,
                                     !.results = Skipped(gone)])
            /\ UNCHANGED call
    BY <1>4
<1> HIDE DEF gone, batch, rest, known, Packs, Gone, Bat, Rest, Found
<1> DEFINE told == Skipped(gone)
<1>7. /\ told \in Seq(Entries) /\ PackagesOf(told) = gone /\ Earned(told, earned) /\ ~Interrupted(told)
    BY <1>5, SkippedTells
<1>8. job' \in Jobs /\ job'.rest = rest /\ job'.state = job.state
    BY <1>5, <1>6, <1>k, InvariantSays DEF Jobs
<1>9. now \in Runs /\ RunIsSound(now, Body, earned) /\ << >> \in Seq(Packages)
    BY InvariantSays, TheThreads, EmptySeq
<1> HIDE DEF told
\* Any of these runs of the body is sound.
<1>10. ASSUME NEW pc \in {"worker", "loop", "refresh"}, NEW todo \in Seq(Packages),
              pc = "refresh" => todo = << >>, call' \in Calls,
              Set(Body, [now EXCEPT !.pc = pc, !.todo = todo, !.results = told])
       PROVE  /\ UpdatesTypes' /\ RunsAreSound' /\ CommandsAreInRuns'
              /\ run'[Body].pc = pc /\ run'[Body].todo = todo /\ run'[Body].results = told
              /\ run'[Body].live = now.live /\ run'[Worker] = run[Worker]
  <2> DEFINE r == [now EXCEPT !.pc = pc, !.todo = todo, !.results = told]
  <2>1. /\ r \in Runs /\ r.pc = pc /\ r.todo = todo /\ r.results = told /\ r.live = now.live
        /\ r.before = now.before
    BY <1>7, <1>9, <1>10 DEF Runs, BodyPlaces
  <2>2. Set(Body, r)
    BY <1>10
  <2> HIDE DEF r
  <2>3. KnowsItsPackage(r, Body)
    BY <2>1, <1>10 DEF KnowsItsPackage, PlacesOf, BodyPlaces
  <2>4. RefusalEnds(r) /\ RunIsEarned(r, earned)
    BY <2>1, <1>7, <1>9, <1>10 DEF RefusalEnds, RunIsEarned, RunIsSound
  <2>5. /\ UpdatesTypes' /\ RunsAreSound'
        /\ run'[Body] = r /\ \A u \in Threads : u # Body => run'[u] = run[u]
    <3>1. RunIsSound(r, Body, earned') /\ earned \subseteq earned' /\ earned' \subseteq Packages
      BY <1>1, <2>1, <2>3, <2>4, InvariantSays DEF RunIsSound
    <3> QED
      BY <1>1, <1>8, <1>10, <2>2, <3>1, InvariantSays, TheThreads, RunChangesRightly
  <2>6. CommandsAreInRuns'
    BY <1>1, <2>5, InvariantSays, TheThreads, IdleThread
  <2> QED
    BY <2>1, <2>5, <2>6, TheThreads
<1>11. CASE /\ now.live /\ batch # << >> /\ call' = Call(batch, TRUE)
            /\ Set(Body, [now EXCEPT !.pc = "worker", !.todo = batch, !.results = told])
  <2>1. call' \in Calls /\ call'.batch
    BY <1>5, <1>11 DEF Call, NoCall, Calls
  <2>2. /\ UpdatesTypes' /\ RunsAreSound' /\ CommandsAreInRuns'
        /\ run'[Body].pc = "worker" /\ run'[Body].todo = batch /\ run'[Body].results = told
        /\ run'[Body].live = now.live /\ run'[Worker] = run[Worker]
    BY <1>5, <1>10, <1>11, <2>1
  <2>3. CallKnowsWorker' /\ WorkerFollowsCall' /\ ReplyIsEarned'
    <3>1. TRUE \in BOOLEAN /\ run[Body].pc # "worker"
      BY <1>1
    <3> QED
      BY <1>5, <1>11, <2>2, <3>1, InvariantSays, CallStarts
  <2>4. Order' = gone \o (batch \o rest)
    BY <2>1, <2>2, <1>7, <1>8 DEF Order, Remaining
  <2>5. EveryPackageIsTold'
    BY <2>2, <2>4, <1>1, <1>5 DEF EveryPackageIsTold
  <2> QED
    BY <2>2, <2>3, <2>5 DEF Related
<1>12. CASE /\ ~now.live /\ UNCHANGED call
            /\ Set(Body, [now EXCEPT !.pc = "refresh", !.todo = << >>, !.results = told])
  <2>1. call' \in Calls
    BY <1>12, InvariantSays
  <2>2. /\ UpdatesTypes' /\ RunsAreSound' /\ CommandsAreInRuns'
        /\ run'[Body].pc = "refresh" /\ run'[Body].live = now.live /\ run'[Worker] = run[Worker]
    BY <1>9, <1>10, <1>12, <2>1
  <2>3. CallKnowsWorker' /\ WorkerFollowsCall' /\ ReplyIsEarned'
    BY <1>1, <1>12, <2>2, InvariantSays, BodyKeepsCall
  <2>4. EveryPackageIsTold'
    BY <1>12, <2>2 DEF EveryPackageIsTold, Undisturbed
  <2> QED
    BY <2>2, <2>3, <2>4 DEF Related
<1>13. CASE /\ now.live /\ batch = << >> /\ UNCHANGED call
            /\ Set(Body, [now EXCEPT !.pc = "loop", !.todo = rest, !.results = told])
  <2>1. call' \in Calls
    BY <1>13, InvariantSays
  <2>2. /\ UpdatesTypes' /\ RunsAreSound' /\ CommandsAreInRuns'
        /\ run'[Body].pc = "loop" /\ run'[Body].todo = rest /\ run'[Body].results = told
        /\ run'[Worker] = run[Worker]
    BY <1>5, <1>10, <1>13, <2>1
  <2>3. CallKnowsWorker' /\ WorkerFollowsCall' /\ ReplyIsEarned'
    BY <1>1, <1>13, <2>2, InvariantSays, BodyKeepsCall
  <2>4. Order' = gone \o rest
    BY <2>2, <1>7 DEF Order, Remaining
  <2>5. EveryPackageIsTold'
    BY <2>2, <2>4, <1>1, <1>5, <1>13 DEF EveryPackageIsTold
  <2> QED
    BY <2>2, <2>3, <2>5 DEF Related
<1> QED
    BY <1>6, <1>11, <1>12, <1>13 DEF told

-----------------------------------------------------------------------------
(***************************************************************************)
(* The end of a call.                                                      *)
(***************************************************************************)

\* The worker's result for a batch is a success only if no result is a
\* failure, and a cancel if the worker was cancelled.
LEMMA AggregateIs ==
    ASSUME NEW results \in Seq(Entries), NEW live \in BOOLEAN
    PROVE  /\ Aggregate(results, live) \in Results
           /\ ~live => ~Aggregate(results, live).ok /\ StopReason(Aggregate(results, live))
<1> DEFINE failures == {i \in DOMAIN results : ~results[i].ok /\ results[i].code # "skipped"}
           first == CHOOSE i \in failures : \A j \in failures : i <= j
           code == IF ~live THEN "cancelled"
                   ELSE IF failures = {} THEN "ok" ELSE results[first].code
           text == UNION {results[i].says : i \in DOMAIN results}
<1>1. Len(results) \in Nat /\ DOMAIN results = 1 .. Len(results)
      /\ \A i \in DOMAIN results : results[i] \in Entries
    BY LenProperties, ElementOfSeq
<1>2. failures # {} => first \in failures
  <2>1. failures \in SUBSET (1 .. Len(results))
    BY <1>1
  <2> HIDE DEF failures
  <2>2. failures # {} => \E i \in failures : \A j \in failures : i <= j
    BY <1>1, <2>1, LeastPlace
  <2> QED
    BY <2>2
<1>3. code \in Codes
  <2>1. CASE ~live \/ failures = {}
    BY <2>1 DEF Codes
  <2>2. CASE live /\ failures # {}
    <3>1. first \in DOMAIN results
      BY <2>2, <1>2
    <3>2. results[first].code \in Codes
      BY <3>1, <1>1 DEF Entries
    <3> HIDE DEF failures, first
    <3> QED
      BY <2>2, <3>2
  <2> QED
    BY <2>1, <2>2
<1>4. text \in SUBSET Signs
  <2>1. \A i \in DOMAIN results : results[i].says \in SUBSET Signs
    BY <1>1 DEF Entries
  <2> QED
    BY <2>1
<1>5. Aggregate(results, live) = Result(code, text)
    BY DEF Aggregate
<1>6. ~live => code = "cancelled"
    OBVIOUS
<1> HIDE DEF code, text
<1>7. /\ Result(code, text) \in Results /\ Result(code, text).ok = (code = "ok")
      /\ Result(code, text).code = code
    BY <1>3, <1>4, ResultIsTyped
<1> QED
    BY <1>5, <1>6, <1>7 DEF StopReason

\* A list that has begun with its packages' results: the first one's.
LEMMA FirstIs ==
    ASSUME NEW results \in Seq(Entries), NEW packages \in Seq(Packages), results # << >>,
           NEW p, packages = <<p>>, Begins(results, packages)
    PROVE  results[1] \in Entries /\ 1 \in 1 .. Len(results) /\ results[1].package = p
<1>1. Len(results) \in Nat \ {0}
    BY EmptySeq
<1>2. 1 \in 1 .. Len(results)
    BY <1>1
<1>3. results[1].package = packages[1]
    BY <1>2 DEF Begins
<1>4. results[1] \in Entries
    BY <1>2, ElementOfSeq
<1> QED
    BY <1>2, <1>3, <1>4

LEMMA WorkerAnswersKeeps ==
    ASSUME UpdatesInvariant, WorkerAnswers
    PROVE  UpdatesTypes' /\ RunsAreSound' /\ CommandsAreInRuns' /\ Related'
<1> DEFINE w == run[Worker]
           results == w.results
           r == [run[Worker] EXCEPT !.pc = "answered"]
           single == [ok |-> results[1].ok, code |-> results[1].code, says |-> results[1].says]
           result == IF call.batch THEN Aggregate(results, w.live) ELSE single
           reply == [result |-> result, results |-> results]
<1>1. /\ w.pc = "answer" /\ Set(Worker, r) /\ UNCHANGED <<machine, deaths, job, earned>>
      /\ UNCHANGED lockVars /\ call' = [call EXCEPT !.reply = reply]
    BY DEF WorkerAnswers, At
<1>2. w \in Runs /\ RunIsSound(w, Worker, earned) /\ results \in Seq(Entries) /\ w.live \in BOOLEAN
    BY InvariantSays, TheThreads, MembersOf
<1>3. /\ r \in Runs /\ r.pc = "answered" /\ r.todo = w.todo /\ r.results = results
      /\ r.live = w.live /\ r.before = w.before
    BY <1>2 DEF Runs, WorkerPlaces
<1> HIDE DEF r
<1>4. RunIsSound(r, Worker, earned)
  <2>1. KnowsItsPackage(r, Worker)
    BY <1>1, <1>2, <1>3, TheThreads DEF RunIsSound, KnowsItsPackage, PlacesOf, WorkerPlaces
  <2>2. RefusalEnds(r) /\ RunIsEarned(r, earned)
    BY <1>2, <1>3 DEF RunIsSound, RefusalEnds, RunIsEarned
  <2> QED
    BY <1>3, <2>1, <2>2 DEF RunIsSound
<1>5. call.at \in {"exchanging", "acking"} /\ call.at # "none" /\ call.reply = NoResult
    BY <1>1, InvariantSays DEF CallKnowsWorker
<1>6. /\ Begins(results, call.packages)
      /\ results = << >> => ~w.live /\ call.batch
      /\ call.batch => \/ Len(results) = Len(call.packages) \/ ~w.live \/ Interrupted(results)
    BY <1>1, InvariantSays DEF WorkerFollowsCall
<1>7. ASSUME ~call.batch
      PROVE  /\ single \in Results /\ result = single /\ results # << >>
             /\ single.ok = results[1].ok /\ 1 \in 1 .. Len(results)
             /\ results[1].package = Head(run[Body].todo)
  <2>1. results # << >> /\ call.packages = <<Head(run[Body].todo)>>
    BY <1>5, <1>6, <1>7, InvariantSays DEF CallKnowsWorker
  <2>2. results[1] \in Entries /\ 1 \in 1 .. Len(results) /\ results[1].package = Head(run[Body].todo)
    BY <1>2, <1>6, <2>1, InvariantSays, TheBody, FirstIs
  <2>3. single \in Results
    BY <2>2 DEF Entries, Results
  <2> QED
    BY <1>7, <2>1, <2>2, <2>3
<1>8. ASSUME call.batch
      PROVE  result \in Results /\ (~w.live => ~result.ok /\ StopReason(result))
    BY <1>2, <1>8, AggregateIs
<1>9. result \in Results
    BY <1>7, <1>8
<1>10. results = << >> => ~result.ok
    BY <1>6, <1>8
<1> HIDE DEF single, result
<1>11. reply \in Replies /\ reply.result = result /\ reply.results = results
    BY <1>2, <1>9 DEF Replies
<1> HIDE DEF reply
<1>12. /\ call' \in Calls /\ call'.at = call.at /\ call'.packages = call.packages
       /\ call'.batch = call.batch /\ call'.cancelled = call.cancelled /\ call'.reply = reply
    BY <1>1, <1>11, InvariantSays DEF Calls
<1>13. /\ UpdatesTypes' /\ RunsAreSound'
       /\ run'[Worker] = r /\ run'[Body] = run[Body]
       /\ \A u \in Threads : u # Worker => run'[u] = run[u]
  <2>1. RunIsSound(r, Worker, earned') /\ earned \subseteq earned' /\ earned' \subseteq Packages
        /\ job' \in Jobs
    BY <1>1, <1>4, InvariantSays
  <2>2. /\ UpdatesTypes' /\ RunsAreSound'
        /\ run'[Worker] = r /\ \A u \in Threads : u # Worker => run'[u] = run[u]
    BY <1>1, <1>12, <2>1, InvariantSays, TheThreads, RunChangesRightly
  <2> QED
    BY <2>2, TheThreads
<1>14. CommandsAreInRuns'
    BY <1>1, <1>13, InvariantSays, TheThreads, IdleThread
<1>15. CallKnowsWorker'
    BY <1>3, <1>5, <1>12, <1>13, InvariantSays DEF CallKnowsWorker
<1>16. WorkerFollowsCall'
  <2>1. /\ Begins(reply.results, call.packages)
        /\ reply.results = << >> => ~reply.result.ok
        /\ call.batch => \/ Len(reply.results) = Len(call.packages)
                         \/ StopReason(reply.result)
                         \/ Interrupted(reply.results)
    BY <1>6, <1>8, <1>10, <1>11
  <2>2. run'[Worker].pc = "answered"
    BY <1>3, <1>13
  <2> QED
    BY <1>12, <2>1, <2>2 DEF WorkerFollowsCall
<1>17. ReplyIsEarned'
  <2> SUFFICES ASSUME run[Body].live
               PROVE  /\ Earned(reply.results, earned)
                      /\ ~call.batch /\ reply.result.ok => Head(run[Body].todo) \in earned
    BY <1>1, <1>12, <1>13 DEF ReplyIsEarned
  <2>1. w.live
    BY InvariantSays DEF CallKnowsWorker
  <2>2. Earned(results, earned)
    BY <1>2, <2>1 DEF RunIsSound, RunIsEarned
  <2>3. ASSUME ~call.batch, result.ok PROVE Head(run[Body].todo) \in earned
    <3>1. 1 \in 1 .. Len(results) /\ results[1].ok /\ results[1].package = Head(run[Body].todo)
      BY <1>7, <2>3
    <3> QED
      BY <2>2, <3>1 DEF Earned
  <2> QED
    BY <1>11, <2>2, <2>3
<1>18. EveryPackageIsTold'
    BY <1>1, <1>12, <1>13, InvariantSays DEF EveryPackageIsTold, Undisturbed, Order, Remaining
<1> QED
    BY <1>13, <1>14, <1>15, <1>16, <1>17, <1>18 DEF Related

\* The results of a batch the job records: every package of it is told, or
\* one of them was interrupted, and no success is made up.
LEMMA CompletedIs ==
    ASSUME NEW packages \in Seq(Packages), NEW results \in Seq(Entries), NEW r \in Results,
           Begins(results, packages), results = << >> => ~r.ok,
           \/ results = << >> \/ Len(results) = Len(packages)
           \/ StopReason(r) \/ Interrupted(results)
    PROVE  /\ Completed(packages, results, r) \in Seq(Entries)
           /\ \/ Interrupted(Completed(packages, results, r))
              \/ /\ Len(Completed(packages, results, r)) = Len(packages)
                 /\ \A i \in 1 .. Len(packages) :
                      Completed(packages, results, r)[i].package = packages[i]
           /\ \A done : Earned(results, done) => Earned(Completed(packages, results, r), done)
<1> DEFINE all == Completed(packages, results, r)
           left == SubSeq(packages, Len(results) + 1, Len(packages))
           silent == [r EXCEPT !.says = {}]
<1>1. /\ Len(results) \in Nat /\ Len(packages) \in Nat /\ Len(results) <= Len(packages)
      /\ \A i \in 1 .. Len(results) : results[i].package = packages[i]
    BY LenProperties DEF Begins
<1>2. CASE results = << >>
  <2>1. all = EachGets(packages, silent)
    BY <1>2 DEF Completed
  <2>2. silent \in Results /\ silent.ok = r.ok
    BY DEF Results
  <2> HIDE DEF silent, all
  <2>3. /\ all \in Seq(Entries) /\ Len(all) = Len(packages)
        /\ \A i \in 1 .. Len(packages) : all[i].package = packages[i] /\ all[i].ok = r.ok
    BY <2>1, <2>2, EachGetsOne
  <2>4. ~r.ok
    BY <1>2
  <2>5. \A done : Earned(all, done)
    BY <2>3, <2>4 DEF Earned
  <2>6. all = Completed(packages, results, r)
    BY DEF all
  <2> QED
    BY <2>3, <2>5, <2>6
<1>3. CASE results # << >> /\ StopReason(r)
  <2> DEFINE skipped == Skipped(left)
  <2>1. all = results \o skipped
    BY <1>3 DEF Completed
  <2> DEFINE from == Len(results) + 1
             to == Len(packages)
  <2>a. from \in Int /\ to \in Int /\ \A i \in from .. to : packages[i] \in Packages
    <3>1. \A i \in from .. to : i \in 1 .. Len(packages)
      BY <1>1
    <3> QED
      BY <1>1, <3>1, ElementOfSeq
  <2>b. to - from + 1 = Len(packages) - Len(results)
        /\ (from <= to \/ Len(packages) - Len(results) = 0)
        /\ \A i \in 1 .. Len(packages) - Len(results) : from + i - 1 = Len(results) + i
    BY <1>1
  <2>c. left = SubSeq(packages, from, to)
    OBVIOUS
  <2> HIDE DEF left, from, to, skipped, all
  <2>2. /\ left \in Seq(Packages) /\ Len(left) = IF from <= to THEN to - from + 1 ELSE 0
        /\ \A i \in 1 .. to - from + 1 : left[i] = packages[from + i - 1]
    BY <2>a, <2>c, SubSeqProperties
  <2>3. /\ left \in Seq(Packages) /\ Len(left) = Len(packages) - Len(results)
        /\ \A i \in 1 .. Len(packages) - Len(results) : left[i] = packages[Len(results) + i]
    BY <2>2, <2>b
  <2>4. /\ skipped \in Seq(Entries) /\ Len(skipped) = Len(left)
        /\ \A i \in 1 .. Len(left) : skipped[i].package = left[i] /\ ~skipped[i].ok
    BY <2>3, SkippedIs DEF skipped
  <2>5. /\ results \o skipped \in Seq(Entries)
        /\ Len(results \o skipped) = Len(results) + Len(skipped)
        /\ \A i \in 1 .. Len(results) + Len(skipped) :
             (results \o skipped)[i]
               = IF i <= Len(results) THEN results[i] ELSE skipped[i - Len(results)]
    <3>1. skipped \in Seq(Entries)
      BY <2>4
    <3> QED
      BY <3>1, ConcatProperties
  <2>d. Len(results) + Len(skipped) = Len(packages)
    BY <1>1, <2>3, <2>4
  <2>6. /\ all \in Seq(Entries) /\ Len(all) = Len(packages)
        /\ \A i \in 1 .. Len(packages) :
             all[i] = IF i <= Len(results) THEN results[i] ELSE skipped[i - Len(results)]
    BY <2>1, <2>5, <2>d
  <2>7. ASSUME NEW i \in 1 .. Len(packages)
        PROVE  /\ all[i].package = packages[i]
               /\ all[i].ok => i \in 1 .. Len(results) /\ all[i] = results[i]
    <3>1. i \in Int /\ 1 <= i /\ i <= Len(packages)
      BY <1>1
    <3>2. CASE i <= Len(results)
      <4>1. i \in 1 .. Len(results)
        BY <3>1, <3>2, <1>1
      <4> QED
        BY <4>1, <3>2, <1>1, <2>6
    <3>3. CASE ~(i <= Len(results))
      <4>1. i - Len(results) \in 1 .. Len(left) /\ Len(results) + (i - Len(results)) = i
            /\ i - Len(results) \in 1 .. Len(packages) - Len(results)
        BY <3>1, <3>3, <1>1, <2>3
      <4>2. all[i] = skipped[i - Len(results)]
        BY <3>3, <2>6
      <4> QED
        BY <4>1, <4>2, <2>3, <2>4
    <3> QED
      BY <3>2, <3>3
  <2>8. \A done : Earned(results, done) => Earned(all, done)
    <3> SUFFICES ASSUME NEW done, Earned(results, done), NEW i \in 1 .. Len(all), all[i].ok
                 PROVE  all[i].package \in done
      BY DEF Earned
    <3>1. i \in 1 .. Len(results) /\ all[i] = results[i]
      BY <2>6, <2>7
    <3> QED
      BY <3>1 DEF Earned
  <2>9. all = Completed(packages, results, r)
    BY DEF all
  <2> QED
    BY <2>6, <2>7, <2>8, <2>9
<1>4. CASE results # << >> /\ ~StopReason(r)
  <2>1. Completed(packages, results, r) = results
    BY <1>4 DEF Completed
  <2> QED
    BY <1>1, <1>4, <2>1
<1> QED
  BY <1>2, <1>3, <1>4

\* Their texts are dropped.
LEMMA TrimmedIs ==
    ASSUME NEW all \in Seq(Entries)
    PROVE  LET told == [i \in DOMAIN all |-> [all[i] EXCEPT !.says = {}]]
           IN /\ told \in Seq(Entries) /\ Len(told) = Len(all)
              /\ \A i \in 1 .. Len(all) :
                   /\ told[i].package = all[i].package /\ told[i].ok = all[i].ok
                   /\ told[i].code = all[i].code
<1> DEFINE E(i) == [all[i] EXCEPT !.says = {}]
           told == [i \in DOMAIN all |-> E(i)]
<1>1. Len(all) \in Nat /\ DOMAIN all = 1 .. Len(all) /\ \A i \in 1 .. Len(all) : all[i] \in Entries
    BY LenProperties, ElementOfSeq
<1>2. \A i \in 1 .. Len(all) : /\ E(i) \in Entries /\ E(i).package = all[i].package
                               /\ E(i).ok = all[i].ok /\ E(i).code = all[i].code
    BY <1>1 DEF Entries
<1> HIDE DEF E
<1>3. told \in Seq(Entries) /\ Len(told) = Len(all) /\ \A i \in 1 .. Len(all) : told[i] = E(i)
    BY <1>1, <1>2
<1> QED
    BY <1>2, <1>3 DEF E

\* The results of a batch are appended.
LEMMA AppendedTells ==
    ASSUME NEW results \in Seq(Entries), NEW more \in Seq(Entries)
    PROVE  /\ results \o more \in Seq(Entries)
           /\ Interrupted(results) \/ Interrupted(more) => Interrupted(results \o more)
           /\ \A done : Earned(results, done) /\ Earned(more, done) => Earned(results \o more, done)
<1> DEFINE all == results \o more
<1>1. /\ all \in Seq(Entries) /\ Len(all) = Len(results) + Len(more)
      /\ \A i \in 1 .. Len(results) + Len(more) :
           all[i] = IF i <= Len(results) THEN results[i] ELSE more[i - Len(results)]
    BY ConcatProperties
<1>2. Len(results) \in Nat /\ Len(more) \in Nat
    BY LenProperties
<1> HIDE DEF all
<1>3. ASSUME Interrupted(results) \/ Interrupted(more) PROVE Interrupted(all)
  <2>1. CASE Interrupted(results)
    <3>1. PICK i \in 1 .. Len(results) : results[i].code = "cancelled"
      BY <2>1 DEF Interrupted
    <3>2. i \in 1 .. Len(results) + Len(more) /\ i <= Len(results)
      BY <1>2
    <3> QED
      BY <3>1, <3>2, <1>1 DEF Interrupted
  <2>2. CASE Interrupted(more)
    <3>1. PICK i \in 1 .. Len(more) : more[i].code = "cancelled"
      BY <2>2 DEF Interrupted
    <3> DEFINE j == Len(results) + i
    <3>2. j \in 1 .. Len(results) + Len(more) /\ ~(j <= Len(results)) /\ j - Len(results) = i
      BY <1>2
    <3> HIDE DEF j
    <3> QED
      BY <3>1, <3>2, <1>1 DEF Interrupted
  <2> QED
    BY <1>3, <2>1, <2>2
<1>4. ASSUME NEW done, Earned(results, done), Earned(more, done), NEW i \in 1 .. Len(all), all[i].ok
      PROVE  all[i].package \in done
  <2>1. i \in Int /\ 1 <= i /\ i <= Len(results) + Len(more) /\ i \in 1 .. Len(results) + Len(more)
    BY <1>1, <1>2
  <2>2. CASE i <= Len(results)
    <3>1. i \in 1 .. Len(results)
      BY <2>1, <2>2, <1>2
    <3> QED
      BY <3>1, <2>1, <2>2, <1>1, <1>4 DEF Earned
  <2>3. CASE ~(i <= Len(results))
    <3>1. i - Len(results) \in 1 .. Len(more)
      BY <2>1, <2>3, <1>2
    <3> QED
      BY <3>1, <2>1, <2>3, <1>1, <1>4 DEF Earned
  <2> QED
    BY <2>2, <2>3
<1>5. \A done : Earned(results, done) /\ Earned(more, done) => Earned(all, done)
    BY <1>4 DEF Earned
<1> QED
    BY <1>1, <1>3, <1>5 DEF all

\* The worker is gone, the body has run r0, and the call is over.
LEMMA CallIsOver ==
    ASSUME UpdatesInvariant, run[Body].pc = "worker", NEW r,
           run' = [run EXCEPT ![Worker] = Run("absent", << >>), ![Body] = r],
           JobTerminated(Home[Worker]), call' = NoCall, UNCHANGED <<machine, deaths, earned>>,
           job' \in Jobs, RunIsSound(r, Body, earned)
    PROVE  /\ UpdatesTypes' /\ RunsAreSound' /\ CommandsAreInRuns'
           /\ CallKnowsWorker' /\ WorkerFollowsCall' /\ ReplyIsEarned'
           /\ run'[Body] = r
<1> DEFINE gone == Run("absent", << >>)
<1>1. RunIsSound(gone, Worker, earned) /\ gone.pc = "absent" /\ gone.live
  <2>1. /\ << >> \in Seq(Packages) /\ Worker \in Threads
        /\ "absent" \in PlacesOf(Worker) \cap {"preflight", "absent", "connecting", "loop"}
    BY EmptySeq, TheThreads DEF PlacesOf, WorkerPlaces
  <2> QED
    BY <2>1, NewRunIs
<1> HIDE DEF gone
<1>2. run' = [run EXCEPT ![Worker] = gone, ![Body] = r]
    BY DEF gone
<1>3. /\ run'[Worker] = gone /\ run'[Body] = r
      /\ \A u \in Threads : u # Worker /\ u # Body => run'[u] = run[u]
    BY <1>2, InvariantSays, TheThreads
<1>4. r \in Runs /\ gone \in Runs
    BY <1>1 DEF RunIsSound
<1>5. run' \in [Threads -> Runs]
    BY <1>2, <1>4, InvariantSays, TheThreads
<1>6. NoCall \in Calls /\ NoCall.at = "none" /\ NoCall.reply = NoResult /\ ~NoCall.cancelled
    BY EmptySeq DEF NoCall, Calls
<1>7. UpdatesTypes'
    BY <1>5, <1>6, InvariantSays DEF UpdatesTypes
<1>8. RunsAreSound'
    BY <1>1, <1>3, InvariantSays DEF RunsAreSound
<1>9. CommandsAreInRuns'
  <2>1. /\ \A u \in Threads : at'[u] # "out" \/ tree'[u] => run[u].pc = "command"
        /\ at'[Worker] = "out" /\ ~tree'[Worker]
    BY InvariantSays, TheThreads, OnlyCommandsStay
  <2> QED
    BY <1>3, <2>1 DEF CommandsAreInRuns
<1>10. CallKnowsWorker' /\ WorkerFollowsCall' /\ ReplyIsEarned'
    BY <1>1, <1>3, <1>6 DEF CallKnowsWorker, WorkerFollowsCall, ReplyIsEarned
<1> QED
    BY <1>3, <1>7, <1>8, <1>9, <1>10

LEMMA EndCallKeeps ==
    ASSUME UpdatesInvariant, run[Body].pc = "worker", call.at # "none",
           NEW r \in Results, NEW results \in Seq(Entries), EndCall(r, results),
           Begins(results, call.packages), results = << >> => ~r.ok,
           call.batch => \/ results = << >> \/ Len(results) = Len(call.packages)
                         \/ StopReason(r) \/ Interrupted(results),
           run[Body].live => Earned(results, earned),
           run[Body].live /\ ~call.batch /\ r.ok => Head(run[Body].todo) \in earned
    PROVE  UpdatesTypes' /\ RunsAreSound' /\ CommandsAreInRuns' /\ Related'
<1> DEFINE now == run[Body]
<1>1. /\ JobTerminated(Home[Worker]) /\ call' = NoCall /\ UNCHANGED <<machine, deaths, earned>>
      /\ \/ call.batch /\ BatchEnds(results, r)
         \/ /\ ~call.batch
            /\ run' = [run EXCEPT ![Worker] = Run("absent", << >>),
                                  ![Body] = [@ EXCEPT !.pc = "returned", !.got = r]]
            /\ UNCHANGED job
    BY DEF EndCall
<1>2. /\ now \in Runs /\ RunIsSound(now, Body, earned) /\ now.todo # << >>
      /\ now.results \in Seq(Entries) /\ now.todo \in Seq(Packages)
    BY InvariantSays, TheThreads, TheBody DEF CallKnowsWorker
<1>3. CASE /\ ~call.batch
           /\ run' = [run EXCEPT ![Worker] = Run("absent", << >>),
                                 ![Body] = [@ EXCEPT !.pc = "returned", !.got = r]]
           /\ UNCHANGED job
  <2> DEFINE f == [now EXCEPT !.pc = "returned", !.got = r]
  <2>1. run' = [run EXCEPT ![Worker] = Run("absent", << >>), ![Body] = f]
    BY <1>3, InvariantSays, TheThreads
  <2>2. /\ f \in Runs /\ f.pc = "returned" /\ f.got = r /\ f.todo = now.todo
        /\ f.results = now.results /\ f.live = now.live /\ f.before = now.before
    BY <1>2 DEF Runs, BodyPlaces
  <2> HIDE DEF f
  <2>3. RunIsSound(f, Body, earned)
    <3>1. KnowsItsPackage(f, Body)
      BY <1>2, <2>2 DEF KnowsItsPackage, PlacesOf, BodyPlaces
    <3>2. RefusalEnds(f)
      BY <1>2, <2>2 DEF RunIsSound, RefusalEnds
    <3>3. RunIsEarned(f, earned)
      BY <1>2, <1>3, <2>2 DEF RunIsSound, RunIsEarned
    <3> QED
      BY <2>2, <3>1, <3>2, <3>3 DEF RunIsSound
  <2>4. /\ UpdatesTypes' /\ RunsAreSound' /\ CommandsAreInRuns'
        /\ CallKnowsWorker' /\ WorkerFollowsCall' /\ ReplyIsEarned'
        /\ run'[Body] = f
    <3>1. job' \in Jobs
      BY <1>3, InvariantSays
    <3> QED
      BY <1>1, <2>1, <2>3, <3>1, CallIsOver
  <2>5. Undisturbed' => Undisturbed
    BY <1>3, <2>2, <2>4 DEF Undisturbed
  <2>6. Order' = Order
    BY <1>3, <2>2, <2>4 DEF Order, Remaining
  <2>7. EveryPackageIsTold'
    BY <1>1, <2>2, <2>4, <2>5, <2>6, InvariantSays, ToldAgain
  <2> QED
    BY <2>4, <2>7 DEF Related
<1>4. CASE call.batch /\ BatchEnds(results, r)
  <2> DEFINE cancelled == ~now.live \/ r.code = "cancelled"
             all == Completed(call.packages, results, r)
             told == [i \in DOMAIN all |-> [all[i] EXCEPT !.says = {}]]
             pc == IF cancelled THEN "refresh" ELSE "loop"
             todo == IF cancelled THEN << >> ELSE job.rest
             list == now.results \o told
             f == [now EXCEPT !.pc = pc, !.todo = todo, !.results = list]
  <2>1. /\ run' = [run EXCEPT ![Worker] = Run("absent", << >>), ![Body] = f]
        /\ job' = IF cancelled THEN [job EXCEPT !.state = "cancelled"] ELSE job
    BY <1>4 DEF BatchEnds
  <2>2. call.packages \in Seq(Packages) /\ job.rest \in Seq(Packages) /\ call.packages = now.todo
    BY <1>4, InvariantSays, TheBody DEF CallKnowsWorker
  <2>3. /\ all \in Seq(Entries)
        /\ \/ Interrupted(all)
           \/ /\ Len(all) = Len(call.packages)
              /\ \A i \in 1 .. Len(call.packages) : all[i].package = call.packages[i]
        /\ now.live => Earned(all, earned)
    BY <1>4, <2>2, CompletedIs
  <2> HIDE DEF all
  <2>4. /\ told \in Seq(Entries) /\ Len(told) = Len(all)
        /\ \A i \in 1 .. Len(all) : /\ told[i].package = all[i].package /\ told[i].ok = all[i].ok
                                    /\ told[i].code = all[i].code
    BY <2>3, TrimmedIs
  <2> HIDE DEF told
  <2>5. /\ list \in Seq(Entries)
        /\ Interrupted(now.results) \/ Interrupted(told) => Interrupted(list)
        /\ Earned(now.results, earned) /\ Earned(told, earned) => Earned(list, earned)
    BY <1>2, <2>4, AppendedTells
  <2>6. Interrupted(all) => Interrupted(told)
    BY <2>4 DEF Interrupted
  <2>7. now.live => Earned(list, earned)
    <3> SUFFICES ASSUME now.live PROVE Earned(list, earned)
      OBVIOUS
    <3>1. Earned(told, earned)
      BY <2>3, <2>4 DEF Earned
    <3>2. Earned(now.results, earned)
      BY <1>2 DEF RunIsSound, RunIsEarned
    <3> QED
      BY <2>5, <3>1, <3>2
  <2>8. pc \in {"refresh", "loop"} /\ todo \in Seq(Packages) /\ (pc = "refresh" => todo = << >>)
    BY <2>2, EmptySeq
  <2>9. (pc = "loop" <=> ~cancelled) /\ (~cancelled => todo = job.rest)
    OBVIOUS
  <2> HIDE DEF list, pc, todo
  <2>10. /\ f \in Runs /\ f.pc = pc /\ f.todo = todo /\ f.results = list /\ f.live = now.live
         /\ f.before = now.before
    BY <1>2, <2>5, <2>8 DEF Runs, BodyPlaces
  <2> HIDE DEF f
  <2>11. RunIsSound(f, Body, earned)
    <3>1. KnowsItsPackage(f, Body)
      BY <2>8, <2>10 DEF KnowsItsPackage, PlacesOf, BodyPlaces
    <3>2. RefusalEnds(f)
      BY <1>2, <2>8, <2>10 DEF RunIsSound, RefusalEnds
    <3>3. RunIsEarned(f, earned)
      BY <2>7, <2>8, <2>10 DEF RunIsEarned
    <3> QED
      BY <2>10, <3>1, <3>2, <3>3 DEF RunIsSound
  <2>12. /\ UpdatesTypes' /\ RunsAreSound' /\ CommandsAreInRuns'
         /\ CallKnowsWorker' /\ WorkerFollowsCall' /\ ReplyIsEarned'
         /\ run'[Body] = f
    <3>1. job' \in Jobs
      BY <2>1, InvariantSays, JobIsTyped
    <3> QED
      BY <1>1, <2>1, <2>11, <3>1, CallIsOver
  <2>13. ASSUME Undisturbed' PROVE Undisturbed /\ Order' = Order
    <3>1. job'.state # "cancelled" /\ ~Interrupted(list)
      BY <2>10, <2>12, <2>13 DEF Undisturbed
    <3>2. ~cancelled /\ job' = job
      BY <2>1, <3>1, InvariantSays, JobIsTyped
    <3>3. Undisturbed
      BY <2>5, <3>1, <3>2 DEF Undisturbed
    <3>4. Remaining = call.packages \o job.rest
      BY <1>4, <2>2 DEF Remaining
    <3>5. Order \in Seq(Packages) /\ Follows(now.results, call.packages \o job.rest, Order)
      BY <3>4, InvariantSays, OrderIs
    <3>6. /\ Len(told) = Len(call.packages)
          /\ \A i \in 1 .. Len(call.packages) : told[i].package = call.packages[i]
      BY <2>3, <2>4, <2>5, <2>6, <3>1
    <3>7. Follows(list, job.rest, Order)
      BY <1>2, <2>2, <2>4, <3>5, <3>6, SomeAreTold DEF list
    <3>8. PackagesOf(list) \o job.rest = Order
      BY <2>2, <2>5, <3>5, <3>7, FollowsIsListing
    <3>9. Order' = PackagesOf(list) \o job.rest
      BY <2>8, <2>9, <2>10, <2>12, <3>2 DEF Order, Remaining
    <3> QED
      BY <3>3, <3>8, <3>9
  <2>14. EveryPackageIsTold'
    <3>1. run'[Body].pc # "preflight"
      BY <2>8, <2>10, <2>12
    <3> QED
      BY <1>1, <2>13, <3>1, InvariantSays, ToldAgain
  <2> QED
    BY <2>12, <2>14 DEF Related
<1> QED
    BY <1>1, <1>3, <1>4

\* The worker could not be started, was lost, or did not answer.
LEMMA FailureKeeps ==
    ASSUME UpdatesInvariant, run[Body].pc = "worker", call.at # "none",
           NEW code \in {"cancelled", "failed", "timeout"}, Failure(code)
    PROVE  UpdatesTypes' /\ RunsAreSound' /\ CommandsAreInRuns' /\ Related'
<1> DEFINE r == Result(code, {})
           none == << >>
<1>1. r \in Results /\ ~r.ok
  <2>1. code \in Codes /\ {} \in SUBSET Signs
    BY DEF Codes
  <2> QED
    BY <2>1, ResultIsTyped
<1>2. EndCall(r, none)
    BY DEF Failure
<1>3. none \in Seq(Entries) /\ Len(none) = 0 /\ 1 .. Len(none) = {}
    BY EmptySeq
<1>4. Begins(none, call.packages) /\ Earned(none, earned)
  <2>1. Len(call.packages) \in Nat
    BY InvariantSays, TheBody, LenProperties
  <2> HIDE DEF none
  <2> QED
    BY <1>3, <2>1 DEF Begins, Earned
<1>5. none = << >>
    OBVIOUS
<1> HIDE DEF r, none
<1> QED
    BY <1>1, <1>2, <1>3, <1>4, <1>5, EndCallKeeps

LEMMA CallEndsKeep ==
    ASSUME UpdatesInvariant,
           LaunchRefused \/ ConnectFails \/ TakeReply \/ WorkerLost \/ AckTimesOut
    PROVE  UpdatesTypes' /\ RunsAreSound' /\ CommandsAreInRuns' /\ Related'
<1>1. run[Body].pc = "worker"
    BY DEF LaunchRefused, ConnectFails, TakeReply, WorkerLost, AckTimesOut, At
<1>2. CASE LaunchRefused \/ ConnectFails \/ WorkerLost \/ AckTimesOut
  <2>1. call.at # "none" /\ \E code \in {"cancelled", "failed", "timeout"} : Failure(code)
    BY <1>2 DEF LaunchRefused, ConnectFails, WorkerLost, AckTimesOut
  <2> QED
    BY <1>1, <2>1, FailureKeeps
<1>3. CASE TakeReply
  <2> DEFINE r == call.reply.result
             results == call.reply.results
  <2>1. call.reply # NoResult /\ EndCall(r, results)
    BY <1>3 DEF TakeReply
  <2>2. call.at # "none"
    BY <2>1, InvariantSays DEF CallKnowsWorker, NoCall
  <2>3. r \in Results /\ results \in Seq(Entries)
    BY <2>1, InvariantSays DEF Calls, Replies
  <2>4. /\ Begins(results, call.packages)
        /\ results = << >> => ~r.ok
        /\ call.batch => \/ Len(results) = Len(call.packages) \/ StopReason(r) \/ Interrupted(results)
    BY <2>1, InvariantSays DEF WorkerFollowsCall
  <2>5. run[Body].live => /\ Earned(results, earned)
                          /\ ~call.batch /\ r.ok => Head(run[Body].todo) \in earned
    BY <2>1, InvariantSays DEF ReplyIsEarned
  <2> HIDE DEF r, results
  <2> QED
    BY <1>1, <2>1, <2>2, <2>3, <2>4, <2>5, EndCallKeeps
<1> QED
    BY <1>2, <1>3

\* The owner's process is gone, and its job will not be told anything more.
LEMMA OwnerGoneKeeps ==
    ASSUME UpdatesInvariant, OwnerGone
    PROVE  UpdatesTypes' /\ RunsAreSound' /\ CommandsAreInRuns' /\ Related'
<1> DEFINE gone == Run("absent", << >>)
<1>1. /\ call # NoCall /\ JobTerminated(Home[Worker]) /\ call' = NoCall /\ Set(Worker, gone)
      /\ UNCHANGED <<machine, deaths, job, earned>>
    BY DEF OwnerGone
<1>2. run[Body].pc = "worker"
    BY <1>1, InvariantSays DEF CallKnowsWorker
<1>3. run' = [run EXCEPT ![Worker] = Run("absent", << >>), ![Body] = run[Body]]
  <2>1. run \in [Threads -> Runs] /\ Worker # Body /\ run' = [run EXCEPT ![Worker] = gone]
    BY <1>1, InvariantSays, TheThreads DEF Set
  <2> HIDE DEF gone
  <2>2. run' = [run EXCEPT ![Worker] = gone, ![Body] = run[Body]]
    BY <2>1
  <2> QED
    BY <2>2 DEF gone
<1>4. job' \in Jobs /\ RunIsSound(run[Body], Body, earned)
    BY <1>1, InvariantSays, TheThreads
<1>5. /\ UpdatesTypes' /\ RunsAreSound' /\ CommandsAreInRuns'
      /\ CallKnowsWorker' /\ WorkerFollowsCall' /\ ReplyIsEarned'
      /\ run'[Body] = run[Body]
    BY <1>1, <1>2, <1>3, <1>4, CallIsOver
<1>6. EveryPackageIsTold'
    BY <1>1, <1>2, <1>5 DEF EveryPackageIsTold, Undisturbed, NoCall
<1> QED
    BY <1>5, <1>6 DEF Related

\* What the system and deaths change is only the locks.
LEMMA SystemKeeps ==
    ASSUME UpdatesInvariant,
           (\E t \in Threads : System(t)) \/ (\E p \in Processes : Die(p))
    PROVE  UpdatesTypes' /\ RunsAreSound' /\ CommandsAreInRuns' /\ Related'
<1>1. CASE \E t \in Threads : System(t)
  <2>1. PICK t \in Threads : System(t)
    BY <1>1
  <2>2. LockStep(t) /\ ~Ask(t) /\ UNCHANGED <<machine, deaths, run, call, job, earned>>
    <3>1. LockStep(t) /\ UNCHANGED <<machine, deaths, run, call, job, earned>>
      BY <2>1 DEF System, LockStep
    <3>2. alive[Home[t]] = FALSE
      BY <2>1, InvariantSays DEF System, AbandonMutex, KillTree, LockTypes
    <3> QED
      BY <3>1, <3>2 DEF Ask, Moves
  <2>3. \A u \in Threads : at'[u] # "out" \/ tree'[u] => run[u].pc = "command"
    BY <2>2, InvariantSays, OnlyCommandsMove
  <2>4. CommandsAreInRuns'
    BY <2>2, <2>3, CommandsStayInRuns
  <2> QED
    BY <2>2, <2>4, InvariantSays, LocksOnly
<1>2. CASE \E p \in Processes : Die(p)
  <2>1. PICK p \in Processes : Die(p)
    BY <1>2
  <2>2. ProcessDies(p) /\ deaths' = deaths + 1 /\ UNCHANGED <<machine, run, call, job, earned>>
    BY <2>1 DEF Die
  <2>3. CommandsAreInRuns'
    <3>1. \A u \in Threads : at'[u] # "out" \/ tree'[u] => run[u].pc = "command"
      BY <2>2, InvariantSays, OnlyCommandsStay
    <3> QED
      BY <2>2, <3>1, CommandsStayInRuns
  <2>4. UpdatesTypes' /\ RunsAreSound'
    BY <2>2, InvariantSays DEF UpdatesTypes, RunsAreSound
  <2>5. CallKnowsWorker' /\ WorkerFollowsCall' /\ ReplyIsEarned'
    BY <2>2, InvariantSays DEF CallKnowsWorker, WorkerFollowsCall, ReplyIsEarned
  <2>6. EveryPackageIsTold'
    BY <2>2, InvariantSays DEF EveryPackageIsTold, Undisturbed, Order, Remaining
  <2> QED
    BY <2>3, <2>4, <2>5, <2>6 DEF Related
<1> QED
    BY <1>1, <1>2

LEMMA UpdatesKeep ==
    ASSUME UpdatesInvariant, [Next]_vars
    PROVE  UpdatesInvariant'
<1> SUFFICES UpdatesTypes' /\ RunsAreSound' /\ CommandsAreInRuns' /\ Related'
  <2>1. [LockNext]_lockVars
    BY NextUsesLocks
  <2>2. LockOwnership'
    BY <2>1, LocksKeepOwnership, InvariantSays
  <2> QED
    BY <2>2 DEF UpdatesInvariant
<1>1. CASE \E t \in Threads : Step(t)
    BY <1>1, StepKeeps
<1>2. CASE Preflight \/ Conclude \/ LookAgain \/ Returned \/ LaunchWorker \/ SignalCancel
    BY <1>2, PreflightKeeps, ConcludeKeeps, BodyTriesKeep, LaunchWorkerKeeps, SignalCancelKeeps
<1>3. CASE LaunchRefused \/ ConnectFails \/ TakeReply \/ WorkerLost \/ AckTimesOut
    BY <1>3, CallEndsKeep
<1>4. CASE WorkerReceives \/ WorkerAnswers \/ SeeCancel \/ OwnerGone
    BY <1>4, WorkerReceivesKeeps, WorkerAnswersKeeps, SeeCancelKeeps, OwnerGoneKeeps
<1>5. CASE \E t \in Threads : Cancel(t) \/ System(t)
    BY <1>5, CancelKeeps, SystemKeeps
<1>6. CASE \E p \in Processes : Die(p)
    BY <1>6, SystemKeeps
<1>7. CASE UNCHANGED vars
  <2>1. UNCHANGED <<machine, deaths, run, call, job, earned>> /\ UNCHANGED lockVars
    BY <1>7 DEF vars
  <2>2. CommandsAreInRuns'
    BY <2>1, InvariantSays DEF CommandsAreInRuns, lockVars
  <2> QED
    BY <2>1, <2>2, InvariantSays, LocksOnly
<1> QED
    BY <1>1, <1>2, <1>3, <1>4, <1>5, <1>6, <1>7, TheThreads DEF Next, BodyStep, WorkerStep

LEMMA UpdatesBegin ==
    ASSUME Init
    PROVE  UpdatesInvariant
<1>1. LockInit /\ machine \in Machines /\ deaths = 0 /\ call = NoCall /\ earned = {}
      /\ job = [rest |-> << >>, state |-> "running", found |-> [p \in Packages |-> p]]
    BY DEF Init
<1>2. LockOwnership
    BY <1>1, InitOwnership
<1>3. machine.job \in Seq(Packages) /\ machine.task \in Seq(Packages) /\ << >> \in Seq(Packages)
    BY <1>1, UpdatesAssumption, EmptySeq
<1> DEFINE body == Run("preflight", machine.job)
           task == Run("loop", machine.task)
           worker == Run("absent", << >>)
<1>4. /\ run = [t \in Threads |-> CASE t = Body -> body [] t = Task -> task [] OTHER -> worker]
      /\ tree = [t \in Threads |-> FALSE] /\ at = [t \in Threads |-> "out"]
    BY DEF Init, LockInit
<1>5. /\ RunIsSound(body, Body, earned) /\ body.pc = "preflight" /\ body.todo = machine.job
      /\ body.live /\ body.results = << >>
  <2>1. "preflight" \in PlacesOf(Body) \cap {"preflight", "absent", "connecting", "loop"}
    BY DEF PlacesOf, BodyPlaces
  <2> QED
    BY <1>3, <2>1, TheThreads, NewRunIs
<1>6. RunIsSound(task, Task, earned)
  <2>1. "loop" \in PlacesOf(Task) \cap {"preflight", "absent", "connecting", "loop"}
    BY TheThreads DEF PlacesOf, TaskPlaces
  <2> QED
    BY <1>3, <2>1, TheThreads, NewRunIs
<1>7. RunIsSound(worker, Worker, earned) /\ worker.pc = "absent" /\ worker.live
  <2>1. "absent" \in PlacesOf(Worker) \cap {"preflight", "absent", "connecting", "loop"}
    BY TheThreads DEF PlacesOf, WorkerPlaces
  <2> QED
    BY <1>3, <2>1, TheThreads, NewRunIs
<1> HIDE DEF body, task, worker
<1>8. run[Body] = body /\ run[Task] = task /\ run[Worker] = worker
    BY <1>4, TheThreads
<1>9. RunsAreSound
    BY <1>5, <1>6, <1>7, <1>8, TheThreads DEF RunsAreSound
<1>10. NoCall \in Calls /\ NoCall.at = "none" /\ NoCall.reply = NoResult /\ ~NoCall.cancelled
    BY EmptySeq DEF NoCall, Calls
<1>11. UpdatesTypes
  <2>1. body \in Runs /\ task \in Runs /\ worker \in Runs
    BY <1>5, <1>6, <1>7 DEF RunIsSound
  <2>2. run \in [Threads -> Runs]
    BY <1>4, <2>1
  <2>3. job \in Jobs
    BY <1>1, <1>3 DEF Jobs
  <2> QED
    BY <1>1, <1>10, <2>2, <2>3 DEF UpdatesTypes
<1>12. CommandsAreInRuns
    BY <1>4 DEF CommandsAreInRuns
<1>13. CallKnowsWorker /\ WorkerFollowsCall /\ ReplyIsEarned
    BY <1>1, <1>7, <1>8, <1>10 DEF CallKnowsWorker, WorkerFollowsCall, ReplyIsEarned
<1>14. EveryPackageIsTold
  <2>1. Remaining = machine.job
    BY <1>5, <1>8 DEF Remaining
  <2> DEFINE none == << >>
  <2>2. none \in Seq(Entries) /\ Len(none) = 0
    BY EmptySeq
  <2>3. run[Body].results = none
    BY <1>5, <1>8
  <2> HIDE DEF none
  <2>4. PackagesOf(none) \in Seq(Packages) /\ Len(PackagesOf(none)) = 0
    BY <2>2, PackagesOfIs
  <2>5. PackagesOf(none) = << >>
    BY <2>4, EmptySeq
  <2>6. Order = machine.job
    BY <1>3, <2>1, <2>3, <2>5, ConcatEmptySeq DEF Order
  <2>7. IsListing(machine.job, machine.job)
    <3>1. \A i, j \in DOMAIN machine.job : machine.job[i] = machine.job[j] => i = j
      BY <1>1, UpdatesAssumption
    <3>2. DOMAIN machine.job = 1 .. Len(machine.job)
      BY <1>3, LenProperties
    <3> QED
      BY <1>3, <3>1, <3>2 DEF IsListing
  <2> QED
    BY <1>5, <1>8, <2>6, <2>7 DEF EveryPackageIsTold
<1> QED
    BY <1>2, <1>9, <1>11, <1>12, <1>13, <1>14 DEF UpdatesInvariant, Related

\* Every state of the updates keeps to the invariant: the places of all
\* threads, what the call and the worker know of each other, and the list the
\* job works off.
THEOREM UpdatesInvariantHolds == Spec => []UpdatesInvariant
    BY UpdatesBegin, UpdatesKeep, PTL DEF Spec

\* No command of the worker is left when the job goes on to other packages,
\* and none of the job's own when it is over, whatever the worker came to.
THEOREM NothingIsLeftBehind == Spec => []NothingRunsBehind
<1>1. UpdatesInvariant => NothingRunsBehind
  <2> SUFFICES ASSUME UpdatesInvariant PROVE NothingRunsBehind
    OBVIOUS
  <2>1. tree[Worker] => run[Worker].pc = "command"
    BY InvariantSays, TheThreads DEF CommandsAreInRuns
  <2>2. tree[Body] => run[Body].pc = "command"
    BY InvariantSays, TheThreads DEF CommandsAreInRuns
  <2>3. run[Worker].pc = "command" => call.at # "none" /\ run[Body].pc = "worker"
    BY InvariantSays DEF CallKnowsWorker
  <2>4. NoCall.at = "none"
    BY DEF NoCall
  <2> QED
    BY <2>1, <2>2, <2>3, <2>4 DEF NothingRunsBehind
<1> QED
    BY <1>1, UpdatesInvariantHolds, PTL

\* A package is told to be updated only if one of its own commands succeeded
\* or the inventory showed it current.
THEOREM SuccessIsAlwaysEarned == Spec => []SuccessIsEarned
<1>1. UpdatesInvariant => SuccessIsEarned
  <2> SUFFICES ASSUME UpdatesInvariant, NEW t \in {Body, Task}, run[t].live,
                      NEW i \in DOMAIN run[t].results, run[t].results[i].ok
               PROVE  run[t].results[i].package \in earned
    BY DEF SuccessIsEarned
  <2>1. run[t] \in Runs /\ Earned(run[t].results, earned)
    BY InvariantSays, TheThreads DEF RunIsSound, RunIsEarned
  <2>2. i \in 1 .. Len(run[t].results)
    BY <2>1, MembersOf, LenProperties
  <2> QED
    BY <2>1, <2>2 DEF Earned
<1> QED
    BY <1>1, UpdatesInvariantHolds, PTL

\* Once a command has said that the user's consent is missing, no other
\* target, name or option of the package is tried.
THEOREM RefusalIsAlwaysFinal == Spec => []RefusalIsFinal
<1>1. UpdatesInvariant => RefusalIsFinal
  <2> SUFFICES ASSUME UpdatesInvariant, NEW t \in Threads, run[t].pc = "command"
               PROVE  "consent" \notin run[t].doing.plan \cup run[t].doing.earlier \cup run[t].before
    BY DEF RefusalIsFinal
  <2>1. RefusalEnds(run[t])
    BY InvariantSays DEF RunIsSound
  <2> QED
    BY <2>1 DEF RefusalEnds
<1> QED
    BY <1>1, UpdatesInvariantHolds, PTL

\* As many places of a list without repetitions hold a member of S as there
\* are members of S in the list.
LEMMA PlacesAreCounted ==
    ASSUME NEW s \in Seq(Packages), Distinct(s), NEW S
    PROVE  /\ IsFiniteSet({i \in 1 .. Len(s) : s[i] \in S})
           /\ Cardinality(Members(s) \cap S) = Cardinality({i \in 1 .. Len(s) : s[i] \in S})
<1> DEFINE places == {i \in 1 .. Len(s) : s[i] \in S}
           at1 == [i \in places |-> s[i]]
<1>1. Len(s) \in Nat
    BY LenProperties
<1>2. IsFiniteSet(places)
  <2>1. IsFiniteSet(1 .. Len(s))
    BY <1>1, FS_Interval
  <2>2. places \in SUBSET (1 .. Len(s))
    OBVIOUS
  <2> HIDE DEF places
  <2> QED
    BY <2>1, <2>2, FS_Subset
<1>3. at1 \in [places -> Members(s) \cap S]
    BY DEF Members
<1>4. \A i, j \in places : at1[i] = at1[j] => i = j
    BY DEF Distinct
<1>5. \A p \in Members(s) \cap S : \E i \in places : at1[i] = p
    BY DEF Members
<1> HIDE DEF at1, places
<1>6. at1 \in Bijection(places, Members(s) \cap S)
    BY <1>3, <1>4, <1>5, Fun_IsBij
<1>7. ExistsBijection(places, Members(s) \cap S)
    BY <1>6, Fun_ExistsBij
<1> QED
    BY <1>2, <1>7, FS_Bijection DEF places

\* A job that is not cancelled answers every request with one result, under
\* the key of the package the request became, through partial batches and
\* lost workers.
THEOREM ResultsAreAlwaysComplete == Spec => []ResultsAreComplete
<1>1. UpdatesInvariant => ResultsAreComplete
  <2> DEFINE results == run[Body].results
             asked == machine.job
             Became(p) == {q \in Packages : job.found[q] = p}
             Told(p) == {i \in DOMAIN results : job.found[results[i].package] = p}
             Asked(p) == {i \in DOMAIN asked : job.found[asked[i]] = p}
  <2> SUFFICES ASSUME UpdatesInvariant, run[Body].pc = "ended", job.state # "cancelled",
                      \A i \in DOMAIN results : results[i].code # "cancelled",
                      NEW p \in Packages
               PROVE  Cardinality(Told(p)) = Cardinality(Asked(p))
    BY DEF ResultsAreComplete
  <2>1. /\ results \in Seq(Entries) /\ DOMAIN results = 1 .. Len(results)
        /\ asked \in Seq(Packages) /\ DOMAIN asked = 1 .. Len(asked)
        /\ \A i, j \in DOMAIN asked : asked[i] = asked[j] => i = j
    <3>1. results \in Seq(Entries)
      BY InvariantSays, TheBody
    <3>2. asked \in Seq(Packages) /\ \A i, j \in DOMAIN asked : asked[i] = asked[j] => i = j
      BY InvariantSays, TheMachine
    <3> QED
      BY <3>1, <3>2, LenProperties
  <2>2. Undisturbed
    BY <2>1 DEF Undisturbed, Interrupted
  <2>3. IsListing(Order, asked)
    BY <2>2, InvariantSays DEF EveryPackageIsTold
  <2>4. Order = PackagesOf(results)
    <3>1. Remaining = << >>
      BY InvariantSays, TheThreads DEF RunIsSound, KnowsItsPackage, Remaining
    <3>2. PackagesOf(results) \in Seq(Packages)
      BY <2>1, PackagesOfIs
    <3> QED
      BY <3>1, <3>2, ConcatEmptySeq DEF Order
  <2>5. /\ Len(Order) = Len(results)
        /\ \A i \in 1 .. Len(results) : Order[i] = results[i].package
    BY <2>1, <2>4, PackagesOfIs
  <2>6. Order \in Seq(Packages) /\ Distinct(Order) /\ Distinct(asked)
        /\ Members(Order) = Members(asked)
    BY <2>1, <2>3 DEF IsListing, Distinct, Members
  <2> HIDE DEF results, asked
  <2>7. Told(p) = {i \in 1 .. Len(Order) : Order[i] \in Became(p)}
    <3>1. \A i \in 1 .. Len(Order) : Order[i] \in Packages
      BY <2>6
    <3> QED
      BY <2>1, <2>5, <3>1
  <2>8. Asked(p) = {i \in 1 .. Len(asked) : asked[i] \in Became(p)}
    <3>1. \A i \in 1 .. Len(asked) : asked[i] \in Packages
      BY <2>1
    <3> QED
      BY <2>1, <3>1
  <2> HIDE DEF Became, Told, Asked
  <2>9. Cardinality(Members(Order) \cap Became(p)) = Cardinality(Told(p))
    BY <2>6, <2>7, PlacesAreCounted
  <2>10. Cardinality(Members(asked) \cap Became(p)) = Cardinality(Asked(p))
    BY <2>1, <2>6, <2>8, PlacesAreCounted
  <2> QED
    BY <2>6, <2>9, <2>10
<1> QED
    BY <1>1, UpdatesInvariantHolds, PTL
===============================================================================
