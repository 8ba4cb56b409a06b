----------------------------- MODULE MutationLock -----------------------------
(***************************************************************************)
(* The package mutation lock: every command that changes packages takes    *)
(* the mutex of its process, then a machine-wide named mutex, then, for    *)
(* winget, a third mutex; it runs in a job object that is closed (which    *)
(* kills what is left of the process tree) before the locks are released   *)
(* in the opposite order.  Processes die at any time; the system then      *)
(* abandons their named mutex and closes their job objects in any order.   *)
(***************************************************************************)
EXTENDS Naturals

CONSTANTS Threads,   \* goroutines that run package commands
          Home,      \* the process of each
          NoThread   \* nobody

ASSUME LockAssumption == NoThread \notin Threads

VARIABLES
    alive,   \* process -> it exists
    mutex,   \* process -> the owner of PackageMutationCoordinator.mu
    winget,  \* process -> the owner of wingetCommandMu
    named,   \* the owner of Global\PatchBoardPackageMutation
    tree,    \* thread -> processes of its command exist
    at       \* thread -> how far its command has come

lockVars == <<alive, mutex, winget, named, tree, at>>

Processes == {Home[t] : t \in Threads}

\* Where a command is when it owns each lock.
Inside   == {"winget", "launch", "running", "close", "unlock winget", "unlock named"}
InMutex  == Inside \cup {"named", "unlock mutex"}
InWinget == {"launch", "running", "close", "unlock winget"}
Places   == InMutex \cup {"out", "mutex"}

LockInit ==
    /\ alive \in [Processes -> BOOLEAN]
    /\ mutex = [p \in Processes |-> NoThread]
    /\ winget = [p \in Processes |-> NoThread]
    /\ named = NoThread
    /\ tree = [t \in Threads |-> FALSE]
    /\ at = [t \in Threads |-> "out"]

Moves(t, from, to) ==
    /\ at[t] = from
    /\ alive[Home[t]]
    /\ at' = [at EXCEPT ![t] = to]

-----------------------------------------------------------------------------
(* Acquire. *)

Ask(t) ==
    /\ Moves(t, "out", "mutex")
    /\ UNCHANGED <<alive, mutex, winget, named, tree>>

TakeMutex(t) ==
    /\ Moves(t, "mutex", "named")
    /\ mutex[Home[t]] = NoThread
    /\ mutex' = [mutex EXCEPT ![Home[t]] = t]
    /\ UNCHANGED <<alive, winget, named, tree>>

\* An abandoned mutex counts as acquired.
TakeNamed(t, forWinget) ==
    /\ Moves(t, "named", IF forWinget THEN "winget" ELSE "launch")
    /\ named = NoThread
    /\ named' = t
    /\ UNCHANGED <<alive, mutex, winget, tree>>

TakeWinget(t) ==
    /\ Moves(t, "winget", "launch")
    /\ winget[Home[t]] = NoThread
    /\ winget' = [winget EXCEPT ![Home[t]] = t]
    /\ UNCHANGED <<alive, mutex, named, tree>>

\* The context of the command ended, or the wait failed.
GiveUp(t) ==
    /\ \/ Moves(t, "mutex", "out") \/ Moves(t, "named", "unlock mutex")
       \/ Moves(t, "winget", "unlock named")
    /\ UNCHANGED <<alive, mutex, winget, named, tree>>

-----------------------------------------------------------------------------
(* Run and release. *)

\* Created suspended, assigned to the job object, then resumed.
Launch(t) ==
    /\ Moves(t, "launch", "running")
    /\ tree' = [tree EXCEPT ![t] = TRUE]
    /\ UNCHANGED <<alive, mutex, winget, named>>

LaunchFails(t) ==
    /\ Moves(t, "launch", "close")
    /\ UNCHANGED <<alive, mutex, winget, named, tree>>

\* The command's own process ended or was given up; descendants may go on.
CommandReturns(t) ==
    /\ Moves(t, "running", "close")
    /\ UNCHANGED <<alive, mutex, winget, named, tree>>

\* As CloseJob, with the job object left to the garbage collector.
ForgetJob(t) ==
    /\ Moves(t, "close", IF winget[Home[t]] = t THEN "unlock winget" ELSE "unlock named")
    /\ UNCHANGED <<alive, mutex, winget, named, tree>>

\* The deferred calls of runCommandSpec, last one first.
CloseJob(t) ==
    /\ Moves(t, "close", IF winget[Home[t]] = t THEN "unlock winget" ELSE "unlock named")
    /\ tree' = [tree EXCEPT ![t] = FALSE]
    /\ UNCHANGED <<alive, mutex, winget, named>>

UnlockWinget(t) ==
    /\ Moves(t, "unlock winget", "unlock named")
    /\ winget' = [winget EXCEPT ![Home[t]] = NoThread]
    /\ UNCHANGED <<alive, mutex, named, tree>>

UnlockNamed(t) ==
    /\ Moves(t, "unlock named", "unlock mutex")
    /\ named' = NoThread
    /\ UNCHANGED <<alive, mutex, winget, tree>>

UnlockMutex(t) ==
    /\ Moves(t, "unlock mutex", "out")
    /\ mutex' = [mutex EXCEPT ![Home[t]] = NoThread]
    /\ UNCHANGED <<alive, winget, named, tree>>

-----------------------------------------------------------------------------
(* Processes. *)

ProcessDies(p) ==
    /\ alive[p]
    /\ alive' = [alive EXCEPT ![p] = FALSE]
    /\ mutex' = [mutex EXCEPT ![p] = NoThread]
    /\ winget' = [winget EXCEPT ![p] = NoThread]
    /\ at' = [t \in Threads |-> IF Home[t] = p THEN "out" ELSE at[t]]
    /\ UNCHANGED <<named, tree>>

\* As JobTerminated, with only the process itself terminated.
ProcessTerminated(p) ==
    /\ alive' = [alive EXCEPT ![p] = FALSE]
    /\ mutex' = [mutex EXCEPT ![p] = NoThread]
    /\ winget' = [winget EXCEPT ![p] = NoThread]
    /\ at' = [t \in Threads |-> IF Home[t] = p THEN "out" ELSE at[t]]
    /\ UNCHANGED <<named, tree>>

\* Its job object, which its commands' processes are in as well, is terminated.
JobTerminated(p) ==
    /\ alive' = [alive EXCEPT ![p] = FALSE]
    /\ mutex' = [mutex EXCEPT ![p] = NoThread]
    /\ winget' = [winget EXCEPT ![p] = NoThread]
    /\ at' = [t \in Threads |-> IF Home[t] = p THEN "out" ELSE at[t]]
    /\ tree' = [t \in Threads |-> tree[t] /\ Home[t] # p]
    /\ UNCHANGED named

\* What the system does for a process that is gone.
AbandonMutex(t) ==
    /\ named = t
    /\ ~alive[Home[t]]
    /\ named' = NoThread
    /\ UNCHANGED <<alive, mutex, winget, tree, at>>

KillTree(t) ==
    /\ tree[t]
    /\ ~alive[Home[t]]
    /\ tree' = [tree EXCEPT ![t] = FALSE]
    /\ UNCHANGED <<alive, mutex, winget, named, at>>

\* A new process only shares its name with one that is cleaned up.
ProcessStarts(p) ==
    /\ ~alive[p]
    /\ \A t \in Threads : Home[t] = p => named # t /\ ~tree[t]
    /\ alive' = [alive EXCEPT ![p] = TRUE]
    /\ UNCHANGED <<mutex, winget, named, tree, at>>

-----------------------------------------------------------------------------

LockStep(t) ==
    \/ Ask(t) \/ TakeMutex(t) \/ TakeNamed(t, TRUE) \/ TakeNamed(t, FALSE)
    \/ TakeWinget(t) \/ GiveUp(t) \/ Launch(t) \/ LaunchFails(t)
    \/ CommandReturns(t) \/ CloseJob(t)
    \/ UnlockWinget(t) \/ UnlockNamed(t) \/ UnlockMutex(t)
    \/ AbandonMutex(t) \/ KillTree(t)

LockNext ==
    \/ \E t \in Threads : LockStep(t)
    \/ \E p \in Processes : ProcessDies(p) \/ JobTerminated(p) \/ ProcessStarts(p)

LockSpec == LockInit /\ [][LockNext]_lockVars

\* Two package commands have processes at the same time only while the
\* system still cleans up after one whose PatchBoard process died.
OneMutation ==
    \A t, u \in Threads :
        tree[t] /\ tree[u] /\ t # u => ~alive[Home[t]] \/ ~alive[Home[u]]

\* The inductive invariant behind it: the place of a command says which
\* locks it owns and whether its processes may exist.
LockTypes ==
    /\ alive \in [Processes -> BOOLEAN]
    /\ mutex \in [Processes -> Threads \cup {NoThread}]
    /\ winget \in [Processes -> Threads \cup {NoThread}]
    /\ named \in Threads \cup {NoThread}
    /\ tree \in [Threads -> BOOLEAN]
    /\ at \in [Threads -> Places]

Owns(t) ==
    /\ ~alive[Home[t]] => at[t] = "out"
    /\ (mutex[Home[t]] = t) <=> (at[t] \in InMutex)
    /\ alive[Home[t]] => ((named = t) <=> (at[t] \in Inside))
    /\ alive[Home[t]] /\ tree[t] => at[t] \in {"running", "close"}

LockOwnership == LockTypes /\ \A t \in Threads : Owns(t)
=============================================================================
