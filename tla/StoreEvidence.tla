---------------------------- MODULE StoreEvidence ----------------------------
(***************************************************************************)
(* How one Store scan turns the evidence of its providers into one state   *)
(* per installed package family: the runs a provider can return, the plan  *)
(* of the exact checks, and the reconciliation with its hysteresis.  No    *)
(* state: StoreScan runs it and keeps the results on disk.                 *)
(*                                                                         *)
(* An observation keeps what the reconciliation tells apart.  Its health   *)
(* and the five kinds that block an assessment are one kind, "blocked";    *)
(* every positive offer of a default provider carries an exact target      *)
(* whose update ID is the package family name, so only its Product ID (or  *)
(* NoProduct) and its offered version (0 when unknown) are kept.           *)
(***************************************************************************)
EXTENDS Naturals, FiniteSets

CONSTANTS Families,     \* product-like package families of the current user
          Products,     \* Store Product IDs
          NoProduct,    \* an offer or a mapping without Product ID
          Offers        \* <<product, version>> pairs a catalog can offer

ASSUME EvidenceAssumption ==
    /\ IsFiniteSet(Families)
    /\ NoProduct \notin Products
    /\ Offers \subseteq (Products \union {NoProduct}) \X Nat

Providers == {"updates", "winget", "exact", "winrt"}
Kinds == {"positive", "negative", "noInstaller", "pending", "blocked"}
Healths == {"healthy", "incomplete", "unsupported"}
States == {"unknown", "current", "available", "conflict", "inapplicable", "pending"}

OfferedVersions == {o[2] : o \in Offers} \union {0}

\* What one provider says of one family in one scan.
Observations ==
    [provider: Providers, kind: Kinds, product: Products \union {NoProduct},
     version: OfferedVersions]

Observation(p, kind) ==
    [provider |-> p, kind |-> kind, product |-> NoProduct, version |-> 0]

Offer(p, o) == [Observation(p, "positive") EXCEPT !.product = o[1], !.version = o[2]]

\* A provider's run: its health, at most one observation per family, the
\* verified Product ID mappings, and the hint that updates exist.
Run(health, obs, maps, hint) ==
    [health |-> health, obs |-> obs, maps |-> maps, hint |-> hint]

Silent == [f \in Families |-> {}]
Unmapped == [f \in Families |-> NoProduct]
NotRun == Run("healthy", Silent, Unmapped, FALSE)
FailedRun(hint) == Run("incomplete", Silent, Unmapped, hint)
Unavailable == Run("unsupported", Silent, Unmapped, FALSE)

-----------------------------------------------------------------------------
(* The runs of the four default providers over the families they are given. *)

\* The aggregate update listing.  Rows it cannot match make the run
\* incomplete; only complete coverage speaks for the families not listed.
UpdatesRow(f, row, complete) ==
    CASE row.kind = "offer" -> {Offer("updates", row.offer)}
      [] row.kind = "inapplicable" -> {Observation("updates", "noInstaller")}
      [] row.kind = "absent" /\ complete -> {Observation("updates", "negative")}
      [] OTHER -> {}

UpdatesListing(fams, rows, complete, hint) ==
    Run(IF complete THEN "healthy" ELSE "incomplete",
        [f \in Families |-> IF f \in fams THEN UpdatesRow(f, rows[f], complete) ELSE {}],
        [f \in Families |-> IF f \in fams /\ rows[f].kind # "absent"
                            THEN rows[f].offer[1] ELSE NoProduct],
        hint)

UpdatesRows(offers) ==
    [kind: {"offer", "inapplicable"}, offer: {o \in offers : o[1] \in Products}]
        \union {[kind |-> "absent", offer |-> <<NoProduct, 0>>]}

UpdatesRuns(fams, offers) ==
    {Unavailable, FailedRun(TRUE), FailedRun(FALSE)}
        \union {UpdatesListing(fams, rows, complete, hint) :
                  rows \in [fams -> UpdatesRows(offers)], complete \in BOOLEAN, hint \in BOOLEAN}

\* WinGet lists updates only: no row is no evidence.  An unmatched row makes
\* the run incomplete and keeps the matched ones.
WingetRows(offers) == [offer: offers] \union {[offer |-> <<NoProduct, 0>>]}

WingetRuns(fams, offers) ==
    {Unavailable, FailedRun(FALSE)}
        \union {Run(health,
                    [f \in Families |-> IF f \in fams /\ rows[f].offer[2] > 0
                                        THEN {Offer("winget", rows[f].offer)} ELSE {}],
                    [f \in Families |-> IF f \in fams THEN rows[f].offer[1] ELSE NoProduct],
                    FALSE) :
                  rows \in [fams -> WingetRows(offers)], health \in {"healthy", "incomplete"}}

\* `store show` must map the family to a Product ID before its update state
\* is asked; a family that is not state-checked yields a mapping only.
ExactAnswer(f, checked, row) ==
    CASE row.kind = "blocked" -> {Observation("exact", "blocked")}
      [] row.kind # "blocked" /\ f \notin checked -> {}
      [] row.kind = "unclear" /\ f \in checked -> {Observation("exact", "blocked")}
      [] row.kind = "positive" /\ f \in checked -> {Offer("exact", <<row.product, 0>>)}
      [] OTHER -> {Observation("exact", row.kind)}

ExactRows(offers) ==
    [kind: {"positive", "negative", "noInstaller", "unclear"},
     product: {o[1] : o \in offers} \ {NoProduct}]
        \union {[kind |-> "blocked", product |-> NoProduct]}

ExactRuns(planned, checked, offers) ==
    IF planned = {} THEN {NotRun}
    ELSE {Unavailable}
           \union {Run(health,
                       [f \in Families |-> IF f \in planned
                                           THEN ExactAnswer(f, checked, rows[f]) ELSE {}],
                       [f \in Families |-> IF f \in planned THEN rows[f].product ELSE NoProduct],
                       FALSE) :
                     rows \in [planned -> ExactRows(offers)], health \in {"healthy", "incomplete"}}

\* WinRT reports offers and queue states of families that are installed; a
\* response that is refused or partial carries no evidence at all.
WinRTRows(offers) == {Offer("winrt", o) : o \in offers} \union {Observation("winrt", "pending")}

WinRTRuns(fams, offers) ==
    {Unavailable, FailedRun(FALSE)}
        \union {Run("healthy",
                    [f \in Families |-> IF f \in fams THEN rows[f] ELSE {}],
                    [f \in Families |-> IF f \in fams /\ \E o \in rows[f] : o.kind = "positive"
                                        THEN (CHOOSE o \in rows[f] : TRUE).product
                                        ELSE NoProduct],
                    FALSE) :
                  rows \in [fams -> {{}} \union {{r} : r \in WinRTRows(offers)}]}

-----------------------------------------------------------------------------
(* From runs to evidence. *)

\* A run that timed out keeps its observations and loses its health.
TimedOut(run) == [run EXCEPT !.health = "incomplete"]

\* One blocked family makes the whole run incomplete.
Downgraded(run) ==
    IF run.health = "healthy" /\ \E f \in Families : \E o \in run.obs[f] : o.kind = "blocked"
    THEN [run EXCEPT !.health = "incomplete"] ELSE run

\* An unhealthy provider blocks every family it should have covered and said
\* nothing about; WinRT discovery only accelerates and is exempt.
Synthesized(p, run, fams) ==
    IF run.health = "healthy" \/ p = "winrt" THEN run
    ELSE [run EXCEPT !.obs = [f \in Families |->
            IF f \in fams /\ run.obs[f] = {} THEN {Observation(p, "blocked")}
            ELSE run.obs[f]]]

Sanitized(p, run, fams) == Downgraded(Synthesized(p, Downgraded(run), fams))

\* Only the aggregate listing must be healthy for a scan to be complete.
Required == {"updates"}

\* A failing enumeration that listed packages all the same, be they products
\* or not, makes the scan incomplete and no failure: it is published.
CompletionStatus(listed, inventoryOK, runs) ==
    CASE ~listed /\ ~inventoryOK -> "failed"
      [] listed /\ ~inventoryOK -> "incomplete"
      [] OTHER -> IF \A p \in Required : runs[p].health = "healthy"
                  THEN "completed" ELSE "incomplete"

ShouldPublish(status, listed) ==
    status # "failed" /\ (listed \/ status = "completed")

Evidence(runs, f) == UNION {runs[p].obs[f] : p \in Providers}
MappedProducts(runs, f) == {runs[p].maps[f] : p \in Providers} \ {NoProduct}

-----------------------------------------------------------------------------
(* The plan of the exact checks. *)

AggregateIncomplete(runs) == runs["updates"].health # "healthy"

PositiveHint(runs) == runs["updates"].hint /\ runs["updates"].health # "unsupported"

AggregateNegative(runs) ==
    /\ runs["updates"].health = "healthy"
    /\ \E f \in Families : Observation("updates", "negative") \in runs["updates"].obs[f]

StateChecks(runs, fams, deep, autoUpdated) ==
    IF deep \/ PositiveHint(runs) \/ AggregateNegative(runs) THEN fams
    ELSE IF AggregateIncomplete(runs) THEN fams \intersect autoUpdated
    ELSE {}

ExactFamilies(runs, fams, deep, autoUpdated, reusable) ==
    IF deep THEN fams
    ELSE StateChecks(runs, fams, deep, autoUpdated) \union (fams \ reusable)

-----------------------------------------------------------------------------
(* Reconciliation. *)

OfKind(ev, kind) == {o \in ev : o.kind = kind}

FalseNegativeProviders == {"updates", "exact", "winget"}
ExactCatalogs == {"exact", "winget", "winrt"}

\* Known false negatives yield to an exact offer of an exact catalog.
NegativesYield(ev) ==
    \/ OfKind(ev, "negative") = {}
    \/ /\ \E o \in OfKind(ev, "positive") : o.provider \in ExactCatalogs
       /\ \A n \in OfKind(ev, "negative") : n.provider \in FalseNegativeProviders

OfferedProducts(ev) == {o.product : o \in OfKind(ev, "positive")} \ {NoProduct}
KnownVersions(ev) == {o.version : o \in OfKind(ev, "positive")} \ {0}

Consensus(ev) == Cardinality(OfferedProducts(ev)) <= 1 /\ Cardinality(KnownVersions(ev)) <= 1

OffersAgree(ev) ==
    NegativesYield(ev) /\ OfKind(ev, "noInstaller") = {} /\ Consensus(ev)

RequiredSpoke(ev, kind) == \A p \in Required : \E o \in OfKind(ev, kind) : o.provider = p
RequiredSeen(ev) == \A p \in Required : \E o \in ev : o.provider = p

\* As ReconciledState, trusting a negative of a scan that did not complete.
HastyState(ev, status) ==
    IF OfKind(ev, "positive") # {}
    THEN IF OffersAgree(ev) THEN "available" ELSE "conflict"
    ELSE IF RequiredSpoke(ev, "negative") THEN "current" ELSE "unknown"

ReconciledState(ev, status) ==
    IF OfKind(ev, "positive") # {}
    THEN IF OffersAgree(ev) THEN "available" ELSE "conflict"
    ELSE IF OfKind(ev, "blocked") # {} \/ ~RequiredSeen(ev) THEN "unknown"
    ELSE IF OfKind(ev, "pending") # {} THEN "pending"
    ELSE IF OfKind(ev, "noInstaller") # {} THEN "inapplicable"
    ELSE IF status = "completed" /\ RequiredSpoke(ev, "negative") THEN "current"
    ELSE "unknown"

\* Two verified Product IDs for one family turn an offer into a conflict.
ReconcileStoreUpdate(ev, mapped, status) ==
    LET state == ReconciledState(ev, status)
    IN IF state = "available" /\ Cardinality(mapped) > 1 THEN "conflict" ELSE state

TheOnly(S, none) == IF S = {} THEN none ELSE CHOOSE x \in S : TRUE

Assessments ==
    [state: States, product: Products \union {NoProduct}, version: OfferedVersions,
     installed: Nat, exact: BOOLEAN, stale: BOOLEAN]

\* The Product ID is that of the offer, or else the only verified one.
Assessment(ev, mapped, status, installed) ==
    LET state == ReconcileStoreUpdate(ev, mapped, status)
        offered == state = "available"
    IN [state |-> state,
        product |-> IF offered /\ OfferedProducts(ev) # {}
                    THEN TheOnly(OfferedProducts(ev), NoProduct)
                    ELSE IF Cardinality(mapped) = 1 THEN TheOnly(mapped, NoProduct)
                    ELSE NoProduct,
        version |-> IF offered THEN TheOnly(KnownVersions(ev), 0) ELSE 0,
        installed |-> installed, exact |-> offered, stale |-> FALSE]

\* As ShouldRetain, taking "not applicable" of an incomplete scan for granted.
RetainUnclear(assessment, status) ==
    status # "completed" /\ assessment.state \in {"unknown", "current"}

\* Hysteresis: a scan that did not complete keeps what the previous one said.
ShouldRetain(assessment, status) ==
    status # "completed" /\ assessment.state \in {"unknown", "current", "inapplicable"}

\* As Retained, with the wrong one of two version fields.
RetainedInstalled(assessment, previous) ==
    [assessment EXCEPT !.state = "available", !.product = previous.product,
                       !.version = previous.installed, !.exact = previous.exact,
                       !.stale = TRUE]

Retained(assessment, previous) ==
    [assessment EXCEPT !.state = "available", !.product = previous.product,
                       !.version = previous.version, !.exact = previous.exact,
                       !.stale = TRUE]

Published(assessment, previous, status) ==
    IF previous # {} /\ ShouldRetain(assessment, status)
    THEN Retained(assessment, CHOOSE a \in previous : TRUE)
    ELSE assessment
=============================================================================
