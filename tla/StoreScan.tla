------------------------------ MODULE StoreScan ------------------------------
(***************************************************************************)
(* The life of a Store scan: one scan per user across all processes, the   *)
(* steps of the pipeline, and the snapshot repository that keeps immutable *)
(* generations and a current pointer under crashes and damaged files.      *)
(*                                                                         *)
(* A scan is identified by its start time (its scan ID is derived from     *)
(* it).  `machine` is chosen once: what the computer has installed and how *)
(* much may happen on it in one behaviour.                                 *)
(***************************************************************************)
EXTENDS StoreEvidence, Sequences

CONSTANTS Scanners,     \* goroutines that run Store scans
          Home,         \* the process of each scanner
          Machines,     \* the computers considered, with their bounds
          Retention,    \* generations kept by pruning
          NoScanner     \* nobody

ASSUME ScanAssumption ==
    /\ NoScanner \notin Scanners
    /\ Retention \in Nat \ {0}
    /\ \A m \in Machines :
         /\ m.deployed \subseteq Providers /\ m.offers \subseteq Offers
         /\ m.scanners \subseteq Scanners
         /\ m.maxTime \in Nat /\ m.faults \in Nat /\ m.versions \subseteq Nat

VARIABLES
    machine,    \* one of Machines
    clock,      \* wall clock: the start times of scans
    faults,     \* crashes, damaged files and clock steps so far
    installed,  \* family -> installed version, 0 when not installed
    running,    \* process -> storeScanCoordinator.running
    scanMutex,  \* the owner of the named process mutex
    scanner,    \* scanner -> its pipeline run
    gens,       \* generation files: a set of snapshots
    pointer,    \* current.json
    committed,  \* history: the scans the pointer was replaced with
    proven      \* history: <<scan, family, product>> a scan's own evidence offered

scanVars == <<machine, clock, faults, installed, running, scanMutex, scanner,
              gens, pointer, committed, proven>>

Processes == {Home[s] : s \in Scanners}

\* A snapshot on disk: when, how complete, whether published, the verified
\* mappings and one assessment per installed family.
Snapshot(t, status, published, mapped, assess) ==
    [scan |-> t, status |-> status, published |-> published, mapped |-> mapped,
     assess |-> assess, damaged |-> FALSE]

NoFamilies == [f \in {} |-> 0]
NoSnapshot == Snapshot(0, "failed", FALSE, {}, NoFamilies)
Pointer(state, t) == [state |-> state, scan |-> t]

\* A run keeps the versions its inventory saw and the snapshot it compares with.
IdleScan == [pc |-> "idle", scan |-> 0, whole |-> TRUE, listed |-> FALSE,
             seen |-> NoFamilies, base |-> NoSnapshot, recovered |-> FALSE,
             result |-> NoSnapshot]

ScanInit ==
    /\ machine \in Machines
    /\ clock = 1 /\ faults = 0
    /\ installed \in [Families -> machine.versions]
    /\ running = [p \in Processes |-> FALSE]
    /\ scanMutex = NoScanner
    /\ scanner = [s \in Scanners |-> IdleScan]
    /\ gens = {} /\ pointer = Pointer("missing", 0)
    /\ committed = << >> /\ proven = {}

-----------------------------------------------------------------------------
(* The repository: what a load answers. *)

Usable == {g \in gens : ~g.damaged}
Rejected == {g \in gens : g.damaged}

\* snapshotSortsAfter: by start time.
Latest(S) == CHOOSE g \in S : \A h \in S : h.scan <= g.scan

NotFound == [found |-> FALSE, recovered |-> FALSE, snap |-> NoSnapshot]

\* Without a usable pointer the newest published generation is only a
\* fallback: whatever it says is flagged as recovered.
RecoverLatest ==
    LET published == {g \in Usable : g.published}
    IN IF published = {} THEN NotFound
       ELSE [found |-> TRUE, recovered |-> TRUE, snap |-> Latest(published)]

\* readPointedGeneration: the pointed file, its checksum verified.
ReadThrough(ptr) ==
    LET pointed == {g \in Usable : ptr.state = "ok" /\ g.scan = ptr.scan}
    IN IF pointed = {} THEN RecoverLatest
       ELSE [found |-> TRUE, recovered |-> FALSE,
             snap |-> [Latest(pointed) EXCEPT !.published = TRUE]]

LoadLatestPublished == ReadThrough(pointer)

-----------------------------------------------------------------------------
(* The coordinator and the pipeline. *)

\* Within one process a flag refuses a second scan ...
Begin(s) ==
    /\ s \in machine.scanners
    /\ scanner[s].pc = "idle"
    /\ clock <= machine.maxTime
    /\ ~running[Home[s]]
    /\ running' = [running EXCEPT ![Home[s]] = TRUE]
    /\ scanner' = [scanner EXCEPT ![s].pc = "locking"]
    /\ UNCHANGED <<machine, clock, faults, installed, scanMutex, gens, pointer,
                   committed, proven>>

\* As Lock, by a scan that does not find the mutex of another process.
LockNothing(s) ==
    /\ scanner[s].pc = "locking"
    /\ clock <= machine.maxTime
    /\ scanMutex' = s
    /\ scanner' = [scanner EXCEPT ![s].pc = "collecting", ![s].scan = clock]
    /\ clock' = clock + 1
    /\ UNCHANGED <<machine, faults, installed, running, gens, pointer, committed, proven>>

\* ... across processes the named mutex, which is tried and never awaited.
\* The scan that gets it starts now; time has moved on when the next one starts.
Lock(s) ==
    /\ scanner[s].pc = "locking"
    /\ clock <= machine.maxTime
    /\ IF scanMutex = NoScanner
       THEN /\ scanMutex' = s
            /\ scanner' = [scanner EXCEPT ![s].pc = "collecting", ![s].scan = clock]
            /\ clock' = clock + 1
            /\ UNCHANGED running
       ELSE /\ scanner' = [scanner EXCEPT ![s] = IdleScan]
            /\ running' = [running EXCEPT ![Home[s]] = FALSE]
            /\ UNCHANGED <<scanMutex, clock>>
    /\ UNCHANGED <<machine, faults, installed, gens, pointer, committed, proven>>

\* The packaged inventory (whole, or what a failing enumeration returned: some
\* of the families, or only packages that are no products) and the published
\* snapshot the hysteresis relies on.
Collect(s) ==
    /\ scanner[s].pc = "collecting"
    /\ \E whole, listed \in BOOLEAN, fams \in SUBSET {f \in Families : installed[f] > 0} :
         /\ fams # {} => listed
         /\ whole => fams = {f \in Families : installed[f] > 0}
         /\ LET loaded == LoadLatestPublished
            IN scanner' = [scanner EXCEPT
                 ![s] = [@ EXCEPT !.pc = "checking", !.whole = whole, !.listed = listed,
                                  !.seen = [f \in fams |-> installed[f]],
                                  !.base = loaded.snap, !.recovered = loaded.recovered]]
    /\ UNCHANGED <<machine, clock, faults, installed, running, scanMutex, gens,
                   pointer, committed, proven>>

Answers(p, runs) == IF p \in machine.deployed THEN runs ELSE {Unavailable}

\* A provider that ran into its time limit keeps what it had.
Outcomes(p, runs, fams) ==
    {Sanitized(p, r, fams) : r \in runs \union {TimedOut(r) : r \in runs}}

ReusableMappings(s) ==
    IF scanner[s].recovered THEN {{}} ELSE SUBSET scanner[s].base.mapped

\* What the exact provider is asked, given the aggregate runs, the scan mode
\* and the auto-update choices of the user.
ExactPlans(s, runs) ==
    LET fams == DOMAIN scanner[s].seen
    IN {[checked |-> StateChecks(runs, fams, deep, auto),
         planned |-> ExactFamilies(runs, fams, deep, auto, reusable)] :
          deep \in BOOLEAN, auto \in {{}, fams}, reusable \in ReusableMappings(s)}

Conclude(s, runs) ==
    LET scan == scanner[s]
        fams == DOMAIN scan.seen
        status == CompletionStatus(scan.listed, scan.whole, runs)
        own == [f \in fams |-> Assessment(Evidence(runs, f), MappedProducts(runs, f),
                                               status, scan.seen[f])]
        before(f) == IF f \in DOMAIN scan.base.assess THEN {scan.base.assess[f]} ELSE {}
    IN /\ scanner' = [scanner EXCEPT
            ![s].pc = "persisting",
            ![s].result = Snapshot(scan.scan, status, ShouldPublish(status, scan.listed),
                                   {f \in fams : runs["exact"].maps[f] # NoProduct},
                                   [f \in fams |-> Published(own[f], before(f), status)])]
       /\ proven' = proven \union {<<scan.scan, f, own[f].product>> :
                                     f \in {g \in fams : own[g].state = "available"}}

\* The providers in their order: the aggregate ones, the exact checks they
\* call for, WinRT discovery last.
Check(s) ==
    /\ scanner[s].pc = "checking"
    /\ LET fams == DOMAIN scanner[s].seen
           ask(p, runs, of) == Outcomes(p, Answers(p, runs), of)
       IN \E u \in ask("updates", UpdatesRuns(fams, machine.offers), fams),
             w \in ask("winget", WingetRuns(fams, machine.offers), fams) :
            LET aggregate == [p \in Providers |-> CASE p = "updates" -> u [] p = "winget" -> w
                                                    [] OTHER -> NotRun]
            IN \E plan \in ExactPlans(s, aggregate) :
               \E e \in IF plan.planned = {} THEN {NotRun}
                        ELSE ask("exact", ExactRuns(plan.planned, plan.checked, machine.offers),
                                 plan.planned),
                  r \in ask("winrt", WinRTRuns(fams, machine.offers), fams) :
                 Conclude(s, [aggregate EXCEPT !["exact"] = e, !["winrt"] = r])
    /\ UNCHANGED <<machine, clock, faults, installed, running, scanMutex, gens,
                   pointer, committed>>

\* A cancelled context, a previous snapshot that cannot be read or a file
\* system error ends the run without publishing.
Abort(s) ==
    /\ scanner[s].pc \in {"collecting", "checking", "persisting"}
    /\ scanner' = [scanner EXCEPT ![s].pc = "releasing"]
    /\ UNCHANGED <<machine, clock, faults, installed, running, scanMutex, gens,
                   pointer, committed, proven>>

-----------------------------------------------------------------------------
(* PersistCompletedScanSnapshot. *)

\* The generation is renamed into place; it is to be published only if it is
\* newer than what is published now.
WriteGeneration(s) ==
    /\ scanner[s].pc = "persisting"
    /\ LET new == scanner[s].result
           latest == LoadLatestPublished
           published == new.published /\ (~latest.found \/ new.scan > latest.snap.scan)
       IN IF \E g \in gens : g.scan = new.scan
          THEN /\ scanner' = [scanner EXCEPT ![s].pc = "releasing"]
               /\ UNCHANGED gens
          ELSE /\ gens' = gens \union {[new EXCEPT !.published = published]}
               /\ scanner' = [scanner EXCEPT
                                ![s].pc = IF published THEN "committing" ELSE "pruning",
                                ![s].result.published = published]
    /\ UNCHANGED <<machine, clock, faults, installed, running, scanMutex, pointer,
                   committed, proven>>

ReplacePointer(s) ==
    /\ scanner[s].pc = "committing"
    /\ pointer' = Pointer("ok", scanner[s].result.scan)
    /\ committed' = Append(committed, scanner[s].result.scan)
    /\ scanner' = [scanner EXCEPT ![s].pc = "pruning"]
    /\ UNCHANGED <<machine, clock, faults, installed, running, scanMutex, gens, proven>>

\* The pointer cannot be replaced: the generation is rewritten as unpublished,
\* which may fail too, or leave a torn file.
PointerFails(s) ==
    /\ scanner[s].pc = "committing"
    /\ faults < machine.faults
    /\ \E rewritten \in {TRUE, FALSE}, torn \in BOOLEAN :
         gens' = {IF g.scan # scanner[s].result.scan THEN g
                  ELSE [g EXCEPT !.published = ~rewritten, !.damaged = torn] : g \in gens}
    /\ faults' = faults + 1
    /\ scanner' = [scanner EXCEPT ![s].pc = "releasing"]
    /\ UNCHANGED <<machine, clock, installed, running, scanMutex, pointer, committed, proven>>

\* Retention removes old generations, never the current one; a file that
\* cannot be removed stops it.
NewestKept == {g \in Usable : Cardinality({h \in Usable : h.scan > g.scan}) < Retention}

Kept == LET loaded == LoadLatestPublished
        IN NewestKept \union {g \in Usable : loaded.found /\ g.scan = loaded.snap.scan}

Prune(s) ==
    /\ scanner[s].pc = "pruning"
    /\ \E removed \in {Usable \ Kept, {}} : gens' = gens \ removed
    /\ scanner' = [scanner EXCEPT ![s].pc = "releasing"]
    /\ UNCHANGED <<machine, clock, faults, installed, running, scanMutex, pointer,
                   committed, proven>>

Release(s) ==
    /\ scanner[s].pc = "releasing"
    /\ scanMutex' = NoScanner
    /\ running' = [running EXCEPT ![Home[s]] = FALSE]
    /\ scanner' = [scanner EXCEPT ![s] = IdleScan]
    /\ UNCHANGED <<machine, clock, faults, installed, gens, pointer, committed, proven>>

-----------------------------------------------------------------------------
(* The world around the scans. *)

\* A process dies: its scans with it, and Windows abandons the mutex.
Crash(p) ==
    /\ faults < machine.faults
    /\ \E s \in Scanners : Home[s] = p /\ scanner[s].pc # "idle"
    /\ faults' = faults + 1
    /\ scanner' = [s \in Scanners |-> IF Home[s] = p THEN IdleScan ELSE scanner[s]]
    /\ scanMutex' = IF scanMutex # NoScanner /\ Home[scanMutex] = p THEN NoScanner ELSE scanMutex
    /\ running' = [running EXCEPT ![p] = FALSE]
    /\ UNCHANGED <<machine, clock, installed, gens, pointer, committed, proven>>

\* A file is damaged behind the repository's back.
DamageGeneration ==
    /\ faults < machine.faults
    /\ \E g \in Usable : gens' = (gens \ {g}) \union {[g EXCEPT !.damaged = TRUE]}
    /\ faults' = faults + 1
    /\ UNCHANGED <<machine, clock, installed, running, scanMutex, scanner, pointer,
                   committed, proven>>

DamagePointer ==
    /\ faults < machine.faults
    /\ pointer.state = "ok"
    /\ \E state \in {"missing", "malformed"} : pointer' = Pointer(state, 0)
    /\ faults' = faults + 1
    /\ UNCHANGED <<machine, clock, installed, running, scanMutex, scanner, gens,
                   committed, proven>>

ClockStepsBack ==
    /\ faults < machine.faults
    /\ clock > 1
    /\ clock' = clock - 1
    /\ faults' = faults + 1
    /\ UNCHANGED <<machine, installed, running, scanMutex, scanner, gens, pointer,
                   committed, proven>>

\* Windows installs, updates and removes packages on its own.
PackageChanges ==
    /\ \E f \in Families, v \in machine.versions :
         v # installed[f] /\ installed' = [installed EXCEPT ![f] = v]
    /\ UNCHANGED <<machine, clock, faults, running, scanMutex, scanner, gens, pointer,
                   committed, proven>>

ScannerStep(s) ==
    \/ Begin(s) \/ Lock(s) \/ Collect(s) \/ Check(s) \/ Abort(s)
    \/ WriteGeneration(s) \/ ReplacePointer(s) \/ PointerFails(s) \/ Prune(s) \/ Release(s)

WorldStep ==
    \/ \E p \in Processes : Crash(p)
    \/ DamageGeneration \/ DamagePointer \/ ClockStepsBack \/ PackageChanges

ScanNext == WorldStep \/ \E s \in Scanners : ScannerStep(s)

ScanSafety == ScanInit /\ [][ScanNext]_scanVars
=============================================================================
