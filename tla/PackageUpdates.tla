---------------------------- MODULE PackageUpdates ----------------------------
(***************************************************************************)
(* Who updates packages: the body of an update job, the elevated worker it *)
(* starts for a batch or for one Chocolatey package, and the scheduled     *)
(* task.  Each goes through a list of packages with the attempts of        *)
(* PackageAction, whose commands run under the locks of MutationLock.      *)
(***************************************************************************)
EXTENDS MutationLock, PackageAction, Sequences, FiniteSets

CONSTANTS Body, Task, Worker,  \* the three threads
          Machines,            \* what is asked of them, with the bounds
          NoResult

\* No command prints the sentences in which PatchBoard itself asks for the
\* user's consent, and a job is asked for every package once (selectedKeys).
\* Of two requested packages the inventory may know only one: `matches` has
\* the others, of the same manager, a request may be matched with.
ASSUME UpdatesAssumption ==
    /\ Threads = {Body, Task, Worker}
    /\ Body # Task /\ Task # Worker /\ Worker # Body
    /\ \A s, t \in Threads : Home[s] = Home[t] => s = t
    /\ \A m \in Machines :
         /\ m.job \in Seq(Packages) /\ m.task \in Seq(Packages)
         /\ m.admin \in BOOLEAN /\ m.sameUser \in BOOLEAN
         /\ m.texts \subseteq SUBSET (Signs \ {"consent"}) /\ m.codes \subseteq Codes
         /\ \A i, j \in DOMAIN m.job : m.job[i] = m.job[j] => i = j
         /\ m.mayCancel \subseteq {Body, Task} /\ m.deaths \in Nat
         /\ m.matches \in [Packages -> SUBSET Packages]
         /\ \A p \in Packages : \A q \in m.matches[p] : Kind[q] = Kind[p]

VARIABLES
    machine,  \* one of Machines
    deaths,   \* processes that died so far
    run,      \* thread -> its way through its packages
    call,     \* the invocation of the elevated worker by the job body
    job,      \* the job body: the packages after the batch, the outcome, and
              \* the package of the inventory that each request became
    earned    \* history: packages a command succeeded for, or found current

vars == <<machine, deaths, run, call, job, earned, lockVars>>

\* `doing` is the attempt being made, `got` what came back for it, `before`
\* the text of the try that preceded a fresh look at the inventory.
Run(pc, todo) ==
    [pc |-> pc, live |-> TRUE, todo |-> todo, results |-> << >>,
     doing |-> NoResult, got |-> NoResult, again |-> FALSE, before |-> {}]

NoCall == [at |-> "none", packages |-> << >>, batch |-> FALSE, cancelled |-> FALSE,
           reply |-> NoResult]

Call(packages, batch) == [NoCall EXCEPT !.at = "launching", !.packages = packages, !.batch = batch]

Entry(p, r) == [package |-> p, ok |-> r.ok, code |-> r.code, says |-> r.says]
EachGets(packages, r) == [i \in DOMAIN packages |-> Entry(packages[i], r)]
Skipped(packages) == EachGets(packages, Result("skipped", {}))

Init ==
    /\ LockInit /\ alive = [p \in Processes |-> p # Home[Worker]]
    /\ machine \in Machines
    /\ deaths = 0
    /\ run = [t \in Threads |->
                CASE t = Body -> Run("preflight", machine.job)
                  [] t = Task -> Run("loop", machine.task)
                  [] OTHER    -> Run("absent", << >>)]
    /\ call = NoCall
    /\ job = [rest |-> << >>, state |-> "running", found |-> [p \in Packages |-> p]]
    /\ earned = {}

At(t, pc) == run[t].pc = pc /\ alive[Home[t]]
Set(t, r) == run' = [run EXCEPT ![t] = r]
ToCommand(t, attempt) ==
    [run[t] EXCEPT !.pc = "command", !.doing = attempt, !.got = NoResult]

-----------------------------------------------------------------------------
(* One command: the lock, the process, and what comes back. *)

NeedsWinget(t) == ByWinget(run[t].doing)

\* commandContextDoneResult: a job is cancelled, a scheduled run has a deadline.
DoneCodes(t) == {"cancelled"} \cup IF t = Task THEN {"timeout"} ELSE {}

\* A command whose context is done returns before it asks for the lock.
BeginCommand(t) ==
    /\ At(t, "command") /\ run[t].got = NoResult /\ at[t] = "out"
    /\ \/ run[t].live /\ Ask(t) /\ UNCHANGED run
       \/ /\ ~run[t].live
          /\ \E code \in DoneCodes(t) : Set(t, [run[t] EXCEPT !.got = Result(code, {})])
          /\ UNCHANGED lockVars
    /\ UNCHANGED <<machine, deaths, call, job, earned>>

Acquire(t) ==
    /\ \/ TakeMutex(t) \/ TakeNamed(t, NeedsWinget(t)) \/ TakeWinget(t) \/ Launch(t)
    /\ UNCHANGED <<machine, deaths, run, call, job, earned>>

\* Cancelled, its own time limit reached, or the wait or the launch failed.
CommandFails(t) ==
    /\ GiveUp(t) \/ LaunchFails(t)
    /\ \E code \in ({"timeout", "failed"} \cap machine.codes) \cup DoneCodes(t) :
         /\ code \notin machine.codes \/ code = "cancelled" => ~run[t].live
         /\ code = "failed" => at[t] \in {"named", "launch"}
         /\ Set(t, [run[t] EXCEPT !.got = Result(code, {})])
    /\ UNCHANGED <<machine, deaths, call, job, earned>>

\* It ended by itself, with any output, or was terminated: with exit code 130
\* even a command nobody cancelled looks cancelled.
CommandEnds(t) ==
    /\ CommandReturns(t)
    /\ \E code \in IF run[t].live THEN machine.codes
                   ELSE DoneCodes(t) \cup (machine.codes \cap {"timeout"}),
          text \in machine.texts :
         LET r == Normalized(Result(code, text))
         IN /\ Set(t, [run[t] EXCEPT !.got = r])
            /\ earned' = IF Succeeds(run[t].doing, r)
                         THEN earned \cup {run[t].doing.package} ELSE earned
    /\ UNCHANGED <<machine, deaths, call, job>>

Release(t) ==
    /\ CloseJob(t) \/ UnlockWinget(t) \/ UnlockNamed(t) \/ UnlockMutex(t)
    /\ UNCHANGED <<machine, deaths, run, call, job, earned>>

\* What the loop does with the result of a package: stop, skip or go on.
\* The scheduled task only looks at the code, and a worker for one package
\* has no others to skip.
AfterLoop(t) == IF t = Body THEN "refresh" ELSE IF t = Worker THEN "answer" ELSE "ended"

Finish(t, r) ==
    LET entry == Entry(Head(run[t].todo), [r EXCEPT !.says = IF t = Worker THEN @ ELSE {}])
        rest == Tail(run[t].todo)
        halted == ~run[t].live \/ r.code = "cancelled"
        stops == halted \/ r.code = "timeout" \/ (t # Task /\ StopReason(r))
        skips == StopReason(r) /\ (t = Body \/ (t = Worker /\ ~halted))
    IN [run[t] EXCEPT !.results = Append(@, entry) \o (IF skips THEN Skipped(rest) ELSE << >>),
                      !.todo = IF stops THEN << >> ELSE rest,
                      !.pc = IF stops THEN AfterLoop(t) ELSE "loop",
                      !.doing = NoResult, !.got = NoResult, !.again = FALSE, !.before = {}]

\* The result of a package goes into the list; a job notices a cancel.
Record(t, r) ==
    LET all == [r EXCEPT !.says = @ \cup run[t].before]
    IN /\ Set(t, Finish(t, all))
       /\ job' = IF t = Body /\ (~run[t].live \/ r.code = "cancelled")
                 THEN [job EXCEPT !.state = "cancelled"] ELSE job

\* updatePackageWithInventoryRetry: a target that was not accepted is looked
\* up again, by the job body and once.
LooksAgain(t, r) ==
    /\ t = Body /\ ~run[t].again /\ run[t].live /\ Alternate(r)
    /\ Kind[Head(run[t].todo)] # "store"

\* One try of the package is over with result r: the inventory is looked at
\* again, or it is the package's result, which for a Store package still
\* needs verification.
TryEnds(t, r) ==
    \/ /\ LooksAgain(t, r)
       /\ Set(t, [run[t] EXCEPT !.pc = "look again", !.got = r, !.doing = NoResult])
       /\ UNCHANGED job
    \/ ~LooksAgain(t, r) /\ Kind[Head(run[t].todo)] # "store" /\ Record(t, r)
    \/ /\ Kind[Head(run[t].todo)] = "store"
       /\ \E result \in StoreResults(r, run[t].live) : Record(t, result)

\* The attempt is over: another one, or the end of the try.
Decide(t) ==
    /\ At(t, "command") /\ run[t].got # NoResult /\ at[t] = "out"
    /\ LET after == AfterAttempt(run[t].doing, run[t].got, run[t].live)
       IN \/ ~after.over /\ Set(t, ToCommand(t, after.next)) /\ UNCHANGED job
          \/ after.over /\ TryEnds(t, after.result)
    /\ UNCHANGED <<machine, deaths, call, earned, lockVars>>

\* Not the administrator: Chocolatey goes through the worker, also outside
\* of a batch.
Elevates(t, p) == t = Body /\ ~machine.admin /\ Kind[p] = "choco"

\* updatePackageWithMetadataContext.  A Store package may be found updated
\* already, or unfit for the update, before any command is run.
Try(t, p) ==
    \/ /\ Elevates(t, p)
       /\ Set(t, [run[t] EXCEPT !.pc = "worker", !.got = NoResult])
       /\ call' = Call(<<p>>, FALSE)
       /\ UNCHANGED <<job, earned>>
    \/ /\ ~Elevates(t, p)
       /\ \E attempt \in FirstAttempts(p) : Set(t, ToCommand(t, attempt))
       /\ UNCHANGED <<call, job, earned>>
    \/ /\ Kind[p] = "store"
       /\ \E code \in {"ok", "failed"} :
            /\ Record(t, Result(code, {}))
            /\ earned' = IF code = "ok" THEN earned \cup {p} ELSE earned
       /\ UNCHANGED call

\* The refreshed inventory lacks the package or has the same target, has no
\* update for it, or has a new target that is tried.
LookAgain ==
    /\ At(Body, "look again")
    /\ LET r == run[Body].got
           p == Head(run[Body].todo)
       IN \/ Record(Body, r) /\ UNCHANGED <<earned, call>>
          \/ /\ Record(Body, Result("ok", r.says))
             /\ earned' = earned \cup {p}
             /\ UNCHANGED call
          \/ /\ IF Elevates(Body, p)
                THEN /\ Set(Body, [run[Body] EXCEPT !.pc = "worker", !.got = NoResult,
                                                    !.again = TRUE, !.before = r.says])
                     /\ call' = Call(<<p>>, FALSE)
                ELSE /\ Set(Body, [ToCommand(Body, Attempt(p, 1, {})) EXCEPT
                                                    !.again = TRUE, !.before = r.says])
                     /\ UNCHANGED call
             /\ UNCHANGED <<job, earned>>
    /\ UNCHANGED <<machine, deaths, lockVars>>

-----------------------------------------------------------------------------
(* The loops. *)

\* The loops of the job and of a batch look at the context first.
Halts(t) == ~run[t].live /\ (t = Body \/ (t = Worker /\ call.batch))

NextPackage(t) ==
    /\ At(t, "loop")
    /\ \/ /\ run[t].todo = << >> \/ Halts(t)
          /\ Set(t, [run[t] EXCEPT !.pc = AfterLoop(t), !.todo = << >>])
          /\ job' = IF t = Body /\ run[t].todo # << >>
                    THEN [job EXCEPT !.state = "cancelled"] ELSE job
          /\ UNCHANGED <<call, earned>>
       \/ /\ run[t].todo # << >> /\ ~Halts(t)
          /\ Try(t, Head(run[t].todo))
    /\ UNCHANGED <<machine, deaths, lockVars>>

InBatch(p) == ~machine.admin /\ (Kind[p] = "choco" \/ (Kind[p] = "winget" /\ machine.sameUser))

\* The members of a sequence that are in S, in their order.
Only(s, S) ==
    LET places == {i \in DOMAIN s : s[i] \in S}
        Rank(i) == Cardinality({j \in places : j <= i})
    IN [k \in 1 .. Cardinality(places) |-> s[CHOOSE i \in places : Rank(i) = k]]

Batch(packages) ==
    IF Len(packages) < 2 THEN << >> ELSE Only(packages, {p \in Packages : InBatch(p)})

\* startUpdatePackagesOperation before its first package: without a Store
\* package the inventory is refreshed, every request becomes the package found
\* for it, those gone or current are skipped; a batch is planned.
Preflight ==
    /\ At(Body, "preflight")
    /\ LET now == run[Body]
           asked == {now.todo[i] : i \in DOMAIN now.todo}
           store == \E p \in asked : Kind[p] = "store"
       IN \E kept \in SUBSET asked, found \in [asked -> Packages] :
            LET packages == Only(now.todo, kept)
                gone == Only(now.todo, asked \ kept)
                batch == Batch(packages)
                rest == IF batch = << >> THEN packages
                        ELSE Only(packages, {p \in Packages : ~InBatch(p)})
            IN /\ \A p \in asked : found[p] \in {p} \cup machine.matches[p]
               /\ store \/ ~now.live => kept = asked /\ \A p \in asked : found[p] = p
               /\ job' = [job EXCEPT !.rest = rest, !.found = [p \in Packages |->
                                      IF p \in asked THEN found[p] ELSE p]]
               /\ \/ /\ now.live /\ batch # << >>
                     /\ Set(Body, [now EXCEPT !.pc = "worker", !.todo = batch,
                                              !.results = Skipped(gone)])
                     /\ call' = Call(batch, TRUE)
                  \/ /\ ~now.live \/ batch = << >>
                     /\ Set(Body, [now EXCEPT !.pc = IF now.live THEN "loop" ELSE "refresh",
                                              !.todo = IF now.live THEN rest ELSE << >>,
                                              !.results = Skipped(gone)])
                     /\ UNCHANGED call
    /\ UNCHANGED <<machine, deaths, earned, lockVars>>

\* The refresh after the commands, and the outcome.
Conclude ==
    /\ At(Body, "refresh")
    /\ Set(Body, [run[Body] EXCEPT !.pc = "ended"])
    /\ \E refreshed \in BOOLEAN :
         LET entries == {run[Body].results[i] : i \in DOMAIN run[Body].results}
             accepted == \E e \in entries : e.code = "accepted"
             failed == \E e \in entries : ~e.ok /\ e.code # "skipped"
         IN job' = [job EXCEPT !.state =
               CASE job.state = "cancelled" \/ ~run[Body].live -> "cancelled"
                 [] job.state # "cancelled" /\ run[Body].live ->
                      IF accepted THEN "not verified"
                      ELSE IF failed THEN "failed"
                      ELSE IF refreshed THEN "succeeded" ELSE "not verified"]
    /\ UNCHANGED <<machine, deaths, call, earned, lockVars>>

-----------------------------------------------------------------------------
(* The elevated worker. *)

\* The launch blocks in the UAC prompt, which no cancel ends.
LaunchWorker ==
    /\ At(Body, "worker") /\ call.at = "launching"
    /\ ProcessStarts(Home[Worker])
    /\ call' = [call EXCEPT !.at = "accepting"]
    /\ Set(Worker, Run("connecting", << >>))
    /\ UNCHANGED <<machine, deaths, job, earned>>

\* It joins the job object, connects, and is sent the request.
WorkerReceives ==
    /\ call.at = "accepting" /\ alive[Home[Body]] /\ At(Worker, "connecting")
    /\ call' = [call EXCEPT !.at = "exchanging"]
    /\ Set(Worker, Run("loop", call.packages))
    /\ UNCHANGED <<machine, deaths, job, earned, lockVars>>

\* aggregatePackageUpdateBatchResult: the code of the first failure, the
\* text of all.
Aggregate(results, live) ==
    LET failures == {i \in DOMAIN results : ~results[i].ok /\ results[i].code # "skipped"}
        first == CHOOSE i \in failures : \A j \in failures : i <= j
    IN Result(IF ~live THEN "cancelled"
              ELSE IF failures = {} THEN "ok" ELSE results[first].code,
              UNION {results[i].says : i \in DOMAIN results})

WorkerAnswers ==
    /\ At(Worker, "answer")
    /\ LET w == run[Worker]
           r == IF call.batch THEN Aggregate(w.results, w.live)
            ELSE [ok |-> w.results[1].ok, code |-> w.results[1].code, says |-> w.results[1].says]
       IN call' = [call EXCEPT !.reply = [result |-> r, results |-> w.results]]
    /\ Set(Worker, [run[Worker] EXCEPT !.pc = "answered"])
    /\ UNCHANGED <<machine, deaths, job, earned, lockVars>>

\* The owner waits and its context ends: the cancel event is set.
SignalCancel ==
    /\ call.at = "exchanging" /\ At(Body, "worker") /\ ~run[Body].live
    /\ call' = [call EXCEPT !.at = "acking", !.cancelled = TRUE]
    /\ UNCHANGED <<machine, deaths, run, job, earned, lockVars>>

SeeCancel ==
    /\ call.cancelled /\ run[Worker].live /\ alive[Home[Worker]]
    /\ run[Worker].pc \notin {"absent", "answered"}
    /\ Set(Worker, [run[Worker] EXCEPT !.live = FALSE])
    /\ UNCHANGED <<machine, deaths, call, job, earned, lockVars>>

\* As Completed, with the worker that reported nothing forgotten.
ReportedOnly(packages, results, r) ==
    IF StopReason(r)
    THEN results \o Skipped(SubSeq(packages, Len(results) + 1, Len(packages)))
    ELSE results

\* completePartialBatchResults.
Completed(packages, results, r) ==
    IF results = << >> THEN EachGets(packages, [r EXCEPT !.says = {}])
    ELSE IF StopReason(r)
    THEN results \o Skipped(SubSeq(packages, Len(results) + 1, Len(packages)))
    ELSE results

\* What a batch leaves: its results, and the loop over the other packages
\* unless the job is cancelled.
BatchEnds(results, r) ==
    LET now == run[Body]
        cancelled == ~now.live \/ r.code = "cancelled"
        Trimmed(e) == [e EXCEPT !.says = {}]
        all == Completed(call.packages, results, r)
    IN /\ run' = [run EXCEPT
            ![Worker] = Run("absent", << >>),
            ![Body] = [now EXCEPT
                !.pc = IF cancelled THEN "refresh" ELSE "loop",
                !.todo = IF cancelled THEN << >> ELSE job.rest,
                !.results = @ \o [i \in DOMAIN all |-> Trimmed(all[i])]]]
       /\ job' = IF cancelled THEN [job EXCEPT !.state = "cancelled"] ELSE job

\* The invocation is over with result r: the worker and what it started are
\* terminated, and the job goes on.
EndCall(r, results) ==
    /\ JobTerminated(Home[Worker])
    /\ call' = NoCall
    /\ \/ call.batch /\ BatchEnds(results, r)
       \/ /\ ~call.batch
          /\ run' = [run EXCEPT ![Worker] = Run("absent", << >>),
                                ![Body] = [@ EXCEPT !.pc = "returned", !.got = r]]
          /\ UNCHANGED job
    /\ UNCHANGED <<machine, deaths, earned>>

Returned ==
    /\ At(Body, "returned")
    /\ TryEnds(Body, run[Body].got)
    /\ UNCHANGED <<machine, deaths, call, earned, lockVars>>

Failure(code) == EndCall(Result(code, {}), << >>)

\* The prompt was declined, or the launch failed.
LaunchRefused ==
    /\ At(Body, "worker") /\ call.at = "launching"
    /\ Failure("cancelled") \/ Failure("failed")

\* It exited first, did not connect in time, or the job is cancelled.
ConnectFails ==
    /\ At(Body, "worker") /\ call.at = "accepting"
    /\ \/ ~alive[Home[Worker]] /\ Failure("failed")
       \/ Failure("timeout")
       \/ ~run[Body].live /\ Failure("cancelled")

TakeReply ==
    /\ At(Body, "worker") /\ call.reply # NoResult
    /\ EndCall(call.reply.result, call.reply.results)

\* The connection broke.
WorkerLost ==
    /\ At(Body, "worker") /\ call.at \in {"exchanging", "acking"}
    /\ ~alive[Home[Worker]] /\ call.reply = NoResult
    /\ Failure("failed")

\* The cancelled worker did not answer in time.
AckTimesOut ==
    /\ At(Body, "worker") /\ call.at = "acking" /\ call.reply = NoResult
    /\ Failure("cancelled")

\* The owner's process ended, and with it the last handle of the job object.
OwnerGone ==
    /\ call # NoCall /\ ~alive[Home[Body]]
    /\ JobTerminated(Home[Worker])
    /\ call' = NoCall
    /\ Set(Worker, Run("absent", << >>))
    /\ UNCHANGED <<machine, deaths, job, earned>>

-----------------------------------------------------------------------------

\* The job is cancelled, or the deadline of the scheduled task is reached.
Cancel(t) ==
    /\ t \in machine.mayCancel /\ run[t].live /\ run[t].pc # "ended"
    /\ Set(t, [run[t] EXCEPT !.live = FALSE])
    /\ UNCHANGED <<machine, deaths, call, job, earned, lockVars>>

Die(p) ==
    /\ deaths < machine.deaths
    /\ ProcessDies(p)
    /\ deaths' = deaths + 1
    /\ UNCHANGED <<machine, run, call, job, earned>>

System(t) ==
    /\ AbandonMutex(t) \/ KillTree(t)
    /\ UNCHANGED <<machine, deaths, run, call, job, earned>>

Step(t) ==
    \/ BeginCommand(t) \/ Acquire(t) \/ CommandFails(t) \/ CommandEnds(t)
    \/ Release(t) \/ Decide(t) \/ NextPackage(t)

BodyStep ==
    \/ Step(Body) \/ Preflight \/ Conclude \/ LookAgain \/ Returned
    \/ LaunchWorker \/ LaunchRefused \/ ConnectFails \/ TakeReply \/ WorkerLost
    \/ SignalCancel \/ AckTimesOut

WorkerStep == Step(Worker) \/ WorkerReceives \/ WorkerAnswers \/ SeeCancel

Next ==
    \/ BodyStep \/ WorkerStep \/ Step(Task) \/ OwnerGone
    \/ \E t \in Threads : Cancel(t) \/ System(t)
    \/ \E p \in Processes : Die(p)

\* The code goes on by itself, and commands have time limits; nothing has to
\* be cancelled, to die or to fail.
Fairness ==
    /\ WF_vars(BodyStep) /\ WF_vars(WorkerStep) /\ WF_vars(Step(Task)) /\ WF_vars(OwnerGone)
    /\ \A t \in Threads : WF_vars(System(t))

Spec == Init /\ [][Next]_vars /\ Fairness

-----------------------------------------------------------------------------

\* Whatever the worker came to, no command of it is left when the job goes on
\* to other packages, and none at all is left when the job is over
\* (Terminate and Close of the worker; the deferred calls of runCommandSpec).
NothingRunsBehind ==
    /\ tree[Worker] => call # NoCall
    /\ run[Body].pc \in {"loop", "refresh", "ended"} => ~tree[Body] /\ ~tree[Worker]

\* A job that is not cancelled answers every request with exactly one result,
\* through partial batches and lost workers, under the key of the package the
\* request became: a package that two requests became has two.  Excepted: in
\* a batch, an installer that ends with the code of a cancel after an earlier
\* failure.
ResultsAreComplete ==
    LET results == run[Body].results
        ToldFor(p) == {i \in DOMAIN results : job.found[results[i].package] = p}
        AskedFor(p) == {i \in DOMAIN machine.job : job.found[machine.job[i]] = p}
    IN /\ run[Body].pc = "ended" /\ job.state # "cancelled"
       /\ \A i \in DOMAIN results : results[i].code # "cancelled"
       => \A p \in Packages : Cardinality(ToldFor(p)) = Cardinality(AskedFor(p))

\* A package is told to be updated only if one of its commands succeeded or
\* the inventory shows it current: repairing winget's sources is not enough.
\* Excepted: a repair during which the run was cancelled.
SuccessIsEarned ==
    \A t \in {Body, Task} : run[t].live =>
        \A i \in DOMAIN run[t].results :
            run[t].results[i].ok => run[t].results[i].package \in earned

\* Once the user's consent was found missing, no other target, name, or
\* option of the package is tried.
RefusalIsFinal ==
    \A t \in Threads : run[t].pc = "command" =>
        "consent" \notin run[t].doing.plan \cup run[t].doing.earlier \cup run[t].before

\* Every job and every scheduled run ends, whatever the commands, the worker
\* and the other process do.
UpdatesEnd ==
    \A t \in {Body, Task} : <>(run[t].pc = "ended" \/ ~alive[Home[t]])
=============================================================================
