----------------------------- MODULE StoreUpdate -----------------------------
(***************************************************************************)
(* The exact Store update of one package family: selected from the         *)
(* published projection, authorized against the repository, checked against *)
(* the installed package, run, and verified before it is called a success. *)
(* It runs beside the scans of StoreScan and shares the repository and the *)
(* installed packages with them.                                           *)
(***************************************************************************)
EXTENDS StoreScan

CONSTANTS Updaters      \* goroutines that run exact Store updates

VARIABLES
    updater,    \* updater -> the update it runs
    reached     \* history: updater -> versions its family had since it was authorized

updateVars == <<updater, reached>>
storeVars == <<scanVars, updateVars>>

\* The request built from the selected package row.
Request(f, scan, product, offered, assessed) ==
    [family |-> f, scan |-> scan, product |-> product, offered |-> offered,
     assessed |-> assessed]

NoRequest == Request(CHOOSE f \in Families : TRUE, 0, NoProduct, 0, 0)

IdleUpdate == [pc |-> "idle", request |-> NoRequest, seen |-> Pointer("missing", 0),
               baseline |-> 0, post |-> 0, late |-> FALSE, result |-> "none"]

StoreInit ==
    /\ ScanInit
    /\ updater = [u \in Updaters |-> IdleUpdate]
    /\ reached = [u \in Updaters |-> {}]

To(u, pc) == updater' = [updater EXCEPT ![u].pc = pc]

Finish(u, result) ==
    updater' = [updater EXCEPT ![u] =
        [IdleUpdate EXCEPT !.request = updater[u].request, !.result = result]]

\* As FreshFor, without the check for fallback recovery.
FreshForAny(loaded, f, version) ==
    /\ loaded.found
    /\ f \in DOMAIN loaded.snap.assess
    /\ ~loaded.snap.assess[f].stale
    /\ loaded.snap.assess[f].installed = version

\* evaluatePublishedStoreAssessmentFreshness, its time limit apart: evidence
\* that is published, read through the pointer, its own, and about the version
\* the inventory shows.
FreshFor(loaded, f, version) ==
    /\ loaded.found /\ ~loaded.recovered
    /\ f \in DOMAIN loaded.snap.assess
    /\ ~loaded.snap.assess[f].stale
    /\ loaded.snap.assess[f].installed = version

\* packageUpdatePolicy for a Store row.
CanUpdateNow(loaded, f, version) ==
    /\ FreshFor(loaded, f, version)
    /\ loaded.snap.assess[f].state = "available"
    /\ loaded.snap.assess[f].exact

\* A user or a batch selects a row of the projection.  The row shows the
\* version of the cached inventory, which may be behind the machine.
Select(u) ==
    /\ u \in machine.updaters
    /\ updater[u].pc = "idle"
    /\ \E f \in Families, version \in machine.versions \ {0} :
         /\ CanUpdateNow(LoadLatestPublished, f, version)
         /\ LET snap == LoadLatestPublished.snap
                a == snap.assess[f]
            IN updater' = [updater EXCEPT ![u] =
                 [IdleUpdate EXCEPT !.pc = "selected",
                    !.request = Request(f, snap.scan, a.product, a.version, a.installed)]]
    /\ UNCHANGED <<scanVars, reached>>

\* The repository is read again, from any process: pointer first ...
ReadPointer(u) ==
    /\ updater[u].pc = "selected"
    /\ updater' = [updater EXCEPT ![u].pc = "authorizing", ![u].seen = pointer]
    /\ reached' = [reached EXCEPT ![u] = {}]
    /\ UNCHANGED scanVars

Authorized(request, loaded) ==
    /\ CanUpdateNow(loaded, request.family, request.assessed)
    /\ loaded.snap.scan = request.scan
    /\ request.product # NoProduct => loaded.snap.assess[request.family].product = request.product

\* ... then the generation it points at: the request must be about the
\* latest published scan and name the target that scan verified.
Authorize(u) ==
    /\ updater[u].pc = "authorizing"
    /\ IF Authorized(updater[u].request, ReadThrough(updater[u].seen))
       THEN /\ To(u, "enumerating")
            /\ reached' = [reached EXCEPT ![u] = {installed[updater[u].request.family]}]
       ELSE /\ Finish(u, "refused")
            /\ UNCHANGED reached
    /\ UNCHANGED scanVars

\* Evidence that ran out of its two hours, an executor that is gone, a
\* cancelled context or a failing enumeration refuse the update.
Refuse(u) ==
    /\ updater[u].pc \in {"authorizing", "enumerating"}
    /\ Finish(u, "refused")
    /\ UNCHANGED <<scanVars, reached>>

AlreadyUpdated(request, version) ==
    version > request.assessed /\ (request.offered > 0 => version >= request.offered)

\* The exact package is enumerated: already updated, changed since it was
\* assessed, or as assessed.
PreAction(u) ==
    /\ updater[u].pc = "enumerating"
    /\ LET request == updater[u].request
           version == installed[request.family]
       IN \/ /\ version > 0 /\ AlreadyUpdated(request, version)
             /\ Finish(u, "already updated")
          \/ /\ ~AlreadyUpdated(request, version) /\ version # request.assessed
             /\ Finish(u, "refused")
          \/ /\ version = request.assessed
             /\ updater' = [updater EXCEPT ![u].pc = "running", ![u].baseline = version]
    /\ UNCHANGED <<scanVars, reached>>

\* The command ends: cancelled, failed or accepted.  The verification window
\* was opened before it started, so it may be over by now.
CommandEnds(u) ==
    /\ updater[u].pc = "running"
    /\ \/ Finish(u, "cancelled")
       \/ Finish(u, "failed")
       \/ \E late \in BOOLEAN :
            updater' = [updater EXCEPT ![u].pc = "verifying", ![u].late = late]
    /\ UNCHANGED <<scanVars, reached>>

SnapshotVerifies(u, version) ==
    /\ version > updater[u].baseline
    /\ updater[u].request.offered > 0 => version >= updater[u].request.offered

\* The package is enumerated again, which may fail ...
VerifyInstalled(u) ==
    /\ updater[u].pc = "verifying" /\ ~updater[u].late
    /\ \E version \in {installed[updater[u].request.family], 0} :
         IF version > 0 /\ SnapshotVerifies(u, version)
         THEN Finish(u, "verified")
         ELSE updater' = [updater EXCEPT ![u].pc = "asking", ![u].post = version]
    /\ UNCHANGED <<scanVars, reached>>

\* As CatalogVerifies, content with a vanished offer.
OfferVanished(u, gone) ==
    gone /\ updater[u].post > 0 /\ updater[u].post >= updater[u].baseline

CatalogVerifies(u, gone) ==
    /\ gone /\ updater[u].post > 0
    /\ updater[u].post >= updater[u].baseline
    /\ updater[u].post >= updater[u].request.offered

\* ... and the exact catalog is asked whether the offer disappeared.
VerifyCatalog(u) ==
    /\ updater[u].pc = "asking"
    /\ \E gone \in BOOLEAN :
         IF CatalogVerifies(u, gone) THEN Finish(u, "verified")
         ELSE To(u, "waiting")
    /\ UNCHANGED <<scanVars, reached>>

\* A package event or the ticker starts the next round; the deadline or a
\* cancellation ends the verification.
Wait(u) ==
    /\ updater[u].pc = "waiting" \/ (updater[u].pc = "verifying" /\ updater[u].late)
    /\ \/ updater[u].pc = "waiting" /\ To(u, "verifying")
       \/ Finish(u, "accepted, not verified")
       \/ Finish(u, "cancelled")
    /\ UNCHANGED <<scanVars, reached>>

UpdaterStep(u) ==
    \/ Select(u) \/ ReadPointer(u) \/ Authorize(u) \/ Refuse(u) \/ PreAction(u)
    \/ CommandEnds(u) \/ VerifyInstalled(u) \/ VerifyCatalog(u) \/ Wait(u)

\* The package may change under an update: the history notes it.
Observe ==
    reached' = [u \in Updaters |->
                  IF updater[u].pc \in {"idle", "selected", "authorizing"} THEN reached[u]
                  ELSE reached[u] \union {installed'[updater[u].request.family]}]

StoreNext ==
    \/ \E u \in Updaters : UpdaterStep(u)
    \/ ScanNext /\ Observe /\ UNCHANGED updater

StoreSafety == StoreInit /\ [][StoreNext]_storeVars

-----------------------------------------------------------------------------
(* Properties. *)

ScanPCs == {"idle", "locking", "collecting", "checking", "persisting", "committing",
            "pruning", "releasing"}
UpdatePCs == {"idle", "selected", "authorizing", "enumerating", "running", "verifying",
              "asking", "waiting"}
Results == {"none", "refused", "already updated", "cancelled", "failed", "verified",
            "accepted, not verified"}

Times == 0..(machine.maxTime + 1)

SnapshotOK(g) ==
    /\ g.scan \in Times /\ g.status \in {"completed", "incomplete", "failed"}
    /\ {g.published, g.damaged} \subseteq BOOLEAN /\ g.mapped \subseteq Families
    /\ DOMAIN g.assess \subseteq Families
    /\ \A f \in DOMAIN g.assess : g.assess[f] \in Assessments

PointerOK(p) == p.state \in {"ok", "missing", "malformed"} /\ p.scan \in Times

\* Every variable keeps its type.
StoreTypeOK ==
    /\ machine \in Machines /\ clock \in Times /\ faults \in 0..machine.faults
    /\ installed \in [Families -> machine.versions]
    /\ running \in [Processes -> BOOLEAN] /\ scanMutex \in Scanners \union {NoScanner}
    /\ \A s \in Scanners :
         /\ scanner[s].pc \in ScanPCs /\ scanner[s].scan \in Times
         /\ SnapshotOK(scanner[s].base) /\ SnapshotOK(scanner[s].result)
         /\ {scanner[s].whole, scanner[s].listed, scanner[s].recovered} \subseteq BOOLEAN
         /\ \A f \in DOMAIN scanner[s].seen : scanner[s].seen[f] \in machine.versions
    /\ \A g \in gens : SnapshotOK(g)
    /\ PointerOK(pointer) /\ committed \in Seq(Times)
    /\ proven \subseteq Times \X Families \X (Products \union {NoProduct})
    /\ \A u \in Updaters :
         /\ updater[u].pc \in UpdatePCs /\ updater[u].result \in Results
         /\ PointerOK(updater[u].seen) /\ updater[u].late \in BOOLEAN
         /\ {updater[u].baseline, updater[u].post} \subseteq machine.versions \union {0}
         /\ reached[u] \subseteq machine.versions

LastCommitted == IF committed = << >> THEN 0 ELSE committed[Len(committed)]

\* What a reader is given as authoritative is exactly what was committed last:
\* neither a crash between the two files of a commit, nor a failed commit, nor
\* pruning, nor a clock that steps back makes it lose or replace that.  Only a
\* damaged pointer or generation does, and then the answer is flagged.
CommittedIsRead ==
    LET loaded == LoadLatestPublished
    IN /\ loaded.found /\ ~loaded.recovered => loaded.snap.scan = LastCommitted
       /\ pointer.state = "ok" /\ LastCommitted \notin {g.scan : g \in Rejected}
            => loaded.found /\ ~loaded.recovered

\* The snapshot a scan replaces is the one its hysteresis was computed from:
\* no other scan, of this or of another process, published in between.
HysteresisBaseIsCurrent ==
    [][\A s \in Scanners :
         scanner[s].pc = "committing" /\ scanner'[s].pc = "pruning"
           => LET loaded == LoadLatestPublished
              IN loaded.found /\ ~loaded.recovered => loaded.snap.scan = scanner[s].base.scan
      ]_storeVars

\* A provider failure, missing coverage or a partial inventory never makes a
\* family current: only complete scans say so, in whatever they write.
CurrentIsEarned ==
    \A s \in Scanners : scanner[s].pc = "persisting" =>
        \A f \in DOMAIN scanner[s].result.assess :
            scanner[s].result.assess[f].state = "current"
              => scanner[s].result.status = "completed"

\* A scan that did not complete never clears an update that the snapshot
\* before it offered for a family its inventory lists, and keeps it only as
\* stale unless its own evidence offers it too.
PositiveSurvivesIncompleteScan ==
    \A s \in Scanners : scanner[s].pc = "persisting" /\ scanner[s].result.status # "completed" =>
        \A f \in DOMAIN scanner[s].seen \intersect DOMAIN scanner[s].base.assess :
            scanner[s].base.assess[f].state = "available" =>
                /\ f \in DOMAIN scanner[s].result.assess
                /\ LET after == scanner[s].result.assess[f]
                   IN /\ after.state \in {"available", "conflict", "pending"}
                      /\ after.state = "available" /\ ~after.stale
                           => <<scanner[s].scan, f, after.product>> \in proven


\* What the comment at the retention says: it keeps a previously seen positive.
\* A family shown as available, stale, was available in the snapshot before.
RetainedWasAvailable ==
    \A s \in Scanners : scanner[s].pc = "persisting" =>
        \A f \in DOMAIN scanner[s].result.assess :
            scanner[s].result.assess[f].stale => scanner[s].base.assess[f].state = "available"

\* A Store command runs only for a product that the evidence of one committed
\* scan itself offered for that family: never for a retained, recovered or
\* conflicting offer, nor for a mixture of two scans.
CommandIsProven ==
    \A u \in Updaters : updater[u].pc = "running" =>
        LET r == updater[u].request
        IN /\ <<r.scan, r.family, r.product>> \in proven
           /\ \E i \in DOMAIN committed : committed[i] = r.scan

\* An update that ends as a success was one: the family was seen installed,
\* after the update was authorized, in the offered version or a newer one (when
\* no version was offered, in no older one than was assessed).
VerifiedIsInstalled ==
    \A u \in Updaters : updater[u].result \in {"verified", "already updated"} =>
        \E v \in reached[u] : v > 0 /\ v >= updater[u].request.offered
                                     /\ v >= updater[u].request.assessed

=============================================================================
