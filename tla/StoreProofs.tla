------------------------------ MODULE StoreProofs ------------------------------
(***************************************************************************)
(* The Store scans, their repository and the exact updates, for every      *)
(* number of scanners, processes, families, products and updates, every    *)
(* machine and every retention.                                            *)
(***************************************************************************)
EXTENDS StoreUpdate, FiniteSetTheorems, WellFoundedInduction, TLAPS

AnyProduct == Products \union {NoProduct}

\* What a provider's run is made of.
Runs == [health: Healths, obs: [Families -> SUBSET Observations],
         maps: [Families -> AnyProduct], hint: BOOLEAN]

AssessmentMaps == UNION {[D -> Assessments] : D \in SUBSET Families}

Snapshots ==
    [scan: Times, status: {"completed", "incomplete", "failed"}, published: BOOLEAN,
     mapped: SUBSET Families, assess: AssessmentMaps, damaged: BOOLEAN]

Inventories == UNION {[D -> machine.versions] : D \in SUBSET Families}

ScanRuns ==
    [pc: ScanPCs, scan: Times, whole: BOOLEAN, listed: BOOLEAN, seen: Inventories,
     base: Snapshots, recovered: BOOLEAN, result: Snapshots]

Pointers == [state: {"ok", "missing", "malformed"}, scan: Times]

Requests ==
    [family: Families \union {NoRequest.family}, scan: Times, product: AnyProduct,
     offered: Nat, assessed: Nat]

Versions == machine.versions \union {0}

UpdateRuns ==
    [pc: UpdatePCs, request: Requests, seen: Pointers, baseline: Versions,
     post: Versions, late: BOOLEAN, result: Results]

ScanTypes ==
    /\ machine \in Machines /\ clock \in Times /\ faults \in 0..machine.faults
    /\ installed \in [Families -> machine.versions]
    /\ running \in [Processes -> BOOLEAN] /\ scanMutex \in Scanners \union {NoScanner}
    /\ scanner \in [Scanners -> ScanRuns]
    /\ gens \subseteq Snapshots
    /\ pointer \in Pointers /\ committed \in Seq(Times)
    /\ proven \subseteq Times \X Families \X AnyProduct

UpdateTypes ==
    /\ updater \in [Updaters -> UpdateRuns]
    /\ reached \in [Updaters -> SUBSET machine.versions]

\* Who has the mutex is who works on the repository.
Working == {"collecting", "checking", "persisting", "committing", "pruning", "releasing"}
Exclusive == \A s \in Scanners : scanMutex = s <=> scanner[s].pc \in Working

\* A scan number names one generation; the pointer names one that is there,
\* and so does a commit that is under way.
Repository ==
    /\ \A g, h \in gens : g.scan = h.scan => g = h
    /\ pointer.state = "ok" =>
         /\ committed # << >> /\ pointer.scan = LastCommitted
         /\ \E g \in gens : g.scan = pointer.scan
    /\ \A s \in Scanners :
         scanner[s].pc = "committing" => \E g \in gens : g.scan = scanner[s].result.scan

\* Between its start and its commit nobody else replaced what a scan read.
Pointed(g) == pointer.state = "ok" /\ ~g.damaged /\ g.scan = pointer.scan
BaseIsPointed ==
    \A s \in Scanners : scanner[s].pc \in {"checking", "persisting", "committing"} =>
        \A g \in gens : Pointed(g) => scanner[s].base.scan = pointer.scan

\* An offer that is not marked stale was in the scan's own evidence.
OwnOffers(g) ==
    \A f \in DOMAIN g.assess :
        g.assess[f].state = "available" /\ ~g.assess[f].stale
            => <<g.scan, f, g.assess[f].product>> \in proven
OffersAreProven ==
    /\ \A g \in gens : OwnOffers(g)
    /\ \A s \in Scanners : OwnOffers(scanner[s].result)

ScanInvariant ==
    /\ ScanTypes /\ Exclusive /\ Repository /\ BaseIsPointed /\ OffersAreProven
    /\ CurrentIsEarned /\ PositiveSurvivesIncompleteScan

\* What an update knows at each place of its code.
Verifying == {"running", "verifying", "asking", "waiting"}
UpdateKnows(u) ==
    LET now == updater[u]
        r == now.request
    IN /\ now.pc # "idle" =>
            /\ r.family \in Families /\ r.assessed > 0
            /\ now.result = "none"
            /\ <<r.scan, r.family, r.product>> \in proven
            /\ \E i \in DOMAIN committed : committed[i] = r.scan
       /\ now.pc \in Verifying \union {"enumerating"} => installed[r.family] \in reached[u]
       /\ now.pc \in Verifying => now.baseline = r.assessed
       /\ now.pc = "asking" => now.post \in reached[u] \union {0}
       /\ now.result \in {"verified", "already updated"} =>
            \E v \in reached[u] : v > 0 /\ v >= r.offered /\ v >= r.assessed

StoreInvariant == ScanInvariant /\ UpdateTypes /\ \A u \in Updaters : UpdateKnows(u)

-----------------------------------------------------------------------------
(* What providers return, and what reconciliation makes of it. *)

LEMMA OffersAreTyped ==
    ASSUME NEW o \in Offers
    PROVE  o[1] \in AnyProduct /\ o[2] \in OfferedVersions /\ o = <<o[1], o[2]>>
    BY EvidenceAssumption DEF AnyProduct, OfferedVersions

LEMMA VersionsAreNumbers == OfferedVersions \subseteq Nat
    BY EvidenceAssumption DEF OfferedVersions

\* An observation without an offer, and one with it, are observations.
LEMMA ObservationsAreTyped ==
    ASSUME NEW p \in Providers
    PROVE  /\ \A kind \in Kinds : Observation(p, kind) \in Observations
           /\ \A o \in AnyProduct \X OfferedVersions :
                /\ Offer(p, o) \in Observations
                /\ Offer(p, o).kind = "positive" /\ Offer(p, o).product = o[1]
<1>0. 0 \in OfferedVersions /\ NoProduct \in AnyProduct
    BY DEF OfferedVersions, AnyProduct
<1>1. ASSUME NEW kind \in Kinds PROVE Observation(p, kind) \in Observations
    BY <1>0 DEF Observation, Observations, AnyProduct
<1>2. ASSUME NEW o \in AnyProduct \X OfferedVersions
      PROVE  /\ Offer(p, o) \in Observations
             /\ Offer(p, o).kind = "positive" /\ Offer(p, o).product = o[1]
  <2>1. Observation(p, "positive") \in Observations /\ Observation(p, "positive").kind = "positive"
    BY <1>1 DEF Kinds, Observation
  <2>2. o[1] \in AnyProduct /\ o[2] \in OfferedVersions
    OBVIOUS
  <2>3. ASSUME NEW r \in Observations
        PROVE  /\ [r EXCEPT !.product = o[1], !.version = o[2]] \in Observations
               /\ [r EXCEPT !.product = o[1], !.version = o[2]].kind = r.kind
               /\ [r EXCEPT !.product = o[1], !.version = o[2]].product = o[1]
    BY <2>2 DEF Observations, AnyProduct
  <2> QED
    BY <2>1, <2>3 DEF Offer
<1> QED
    BY <1>1, <1>2

\* A run put together from typed parts is a run.
LEMMA RunsAreTyped ==
    ASSUME NEW health \in Healths, NEW hint \in BOOLEAN,
           NEW obs \in [Families -> SUBSET Observations], NEW maps \in [Families -> AnyProduct]
    PROVE  Run(health, obs, maps, hint) \in Runs
    BY DEF Run, Runs

LEMMA PlainRunsAreTyped ==
    /\ NotRun \in Runs /\ Unavailable \in Runs
    /\ \A hint \in BOOLEAN : FailedRun(hint) \in Runs
<1>1. Silent \in [Families -> SUBSET Observations] /\ Unmapped \in [Families -> AnyProduct]
    BY DEF Silent, Unmapped, AnyProduct
<1> QED
    BY <1>1, RunsAreTyped DEF NotRun, Unavailable, FailedRun, Healths

LEMMA UpdatesRunsAreTyped ==
    ASSUME NEW fams \in SUBSET Families, NEW offers \in SUBSET Offers
    PROVE  UpdatesRuns(fams, offers) \subseteq Runs
<1>1. ASSUME NEW rows \in [fams -> UpdatesRows(offers)],
             NEW complete \in BOOLEAN, NEW hint \in BOOLEAN
      PROVE  UpdatesListing(fams, rows, complete, hint) \in Runs
  <2> DEFINE obs == [f \in Families |-> IF f \in fams THEN UpdatesRow(f, rows[f], complete) ELSE {}]
             maps == [f \in Families |-> IF f \in fams /\ rows[f].kind # "absent"
                                         THEN rows[f].offer[1] ELSE NoProduct]
  <2>1. ASSUME NEW f \in fams
        PROVE  /\ UpdatesRow(f, rows[f], complete) \subseteq Observations
               /\ rows[f].kind # "absent" => rows[f].offer[1] \in AnyProduct
    <3>1. rows[f] \in UpdatesRows(offers)
      OBVIOUS
    <3>2. CASE rows[f].kind = "absent"
      BY <3>2, ObservationsAreTyped DEF UpdatesRow, Kinds, Providers
    <3>3. CASE rows[f].kind # "absent"
      <4>1. rows[f].offer \in Offers /\ rows[f].kind \in {"offer", "inapplicable"}
        BY <3>1, <3>3 DEF UpdatesRows
      <4>2. rows[f].offer \in AnyProduct \X OfferedVersions /\ rows[f].offer[1] \in AnyProduct
        BY <4>1, OffersAreTyped
      <4>3. UpdatesRow(f, rows[f], complete)
              \in {{Offer("updates", rows[f].offer)}, {Observation("updates", "noInstaller")}}
        BY <4>1, <3>3 DEF UpdatesRow
      <4> QED
        BY <4>2, <4>3, ObservationsAreTyped DEF Kinds, Providers
    <3> QED
      BY <3>2, <3>3
  <2>2. obs \in [Families -> SUBSET Observations] /\ maps \in [Families -> AnyProduct]
    BY <2>1 DEF AnyProduct
  <2> HIDE DEF obs, maps
  <2>3. Run(IF complete THEN "healthy" ELSE "incomplete", obs, maps, hint) \in Runs
    BY <2>2, RunsAreTyped DEF Healths
  <2> QED
    BY <2>3 DEF UpdatesListing, obs, maps
<1> DEFINE hinted == FailedRun(TRUE)
           silent == FailedRun(FALSE)
           Listing(rows, complete, hint) == UpdatesListing(fams, rows, complete, hint)
<1>2. {Unavailable, hinted, silent} \subseteq Runs
    BY PlainRunsAreTyped
<1>3. \A rows \in [fams -> UpdatesRows(offers)], complete \in BOOLEAN, hint \in BOOLEAN :
        Listing(rows, complete, hint) \in Runs
    BY <1>1
<1>4. UpdatesRuns(fams, offers) =
        {Unavailable, hinted, silent} \union
          {Listing(rows, complete, hint) : rows \in [fams -> UpdatesRows(offers)],
                                           complete \in BOOLEAN, hint \in BOOLEAN}
    BY DEF UpdatesRuns
<1> HIDE DEF hinted, silent, Listing
<1> QED
    BY <1>2, <1>3, <1>4

LEMMA WingetRunsAreTyped ==
    ASSUME NEW fams \in SUBSET Families, NEW offers \in SUBSET Offers
    PROVE  WingetRuns(fams, offers) \subseteq Runs
<1> DEFINE R(rows, health) ==
             Run(health,
                 [f \in Families |-> IF f \in fams /\ rows[f].offer[2] > 0
                                     THEN {Offer("winget", rows[f].offer)} ELSE {}],
                 [f \in Families |-> IF f \in fams THEN rows[f].offer[1] ELSE NoProduct],
                 FALSE)
<1>1. ASSUME NEW rows \in [fams -> WingetRows(offers)], NEW health \in {"healthy", "incomplete"}
      PROVE  R(rows, health) \in Runs
  <2> DEFINE obs == [f \in Families |-> IF f \in fams /\ rows[f].offer[2] > 0
                                        THEN {Offer("winget", rows[f].offer)} ELSE {}]
             maps == [f \in Families |-> IF f \in fams THEN rows[f].offer[1] ELSE NoProduct]
  <2>1. ASSUME NEW f \in fams
        PROVE  /\ Offer("winget", rows[f].offer) \in Observations
               /\ rows[f].offer[1] \in AnyProduct
    <3>1. rows[f] \in WingetRows(offers)
      OBVIOUS
    <3>2. rows[f].offer \in Offers \/ rows[f].offer = <<NoProduct, 0>>
      BY <3>1 DEF WingetRows
    <3>3. rows[f].offer \in AnyProduct \X OfferedVersions
      BY <3>2, OffersAreTyped DEF AnyProduct, OfferedVersions
    <3> QED
      BY <3>3, ObservationsAreTyped DEF Providers
  <2>2. obs \in [Families -> SUBSET Observations] /\ maps \in [Families -> AnyProduct]
    BY <2>1 DEF AnyProduct
  <2> HIDE DEF obs, maps
  <2>3. Run(health, obs, maps, FALSE) \in Runs
    BY <2>2, RunsAreTyped DEF Healths
  <2> QED
    BY <2>3 DEF obs, maps, R
<1> DEFINE silent == FailedRun(FALSE)
<1>2. {Unavailable, silent} \subseteq Runs
    BY PlainRunsAreTyped
<1>3. WingetRuns(fams, offers) =
        {Unavailable, silent} \union
          {R(rows, health) : rows \in [fams -> WingetRows(offers)],
                             health \in {"healthy", "incomplete"}}
    BY DEF WingetRuns, R
<1> HIDE DEF R, silent
<1> QED
    BY <1>1, <1>2, <1>3

LEMMA ExactRunsAreTyped ==
    ASSUME NEW planned \in SUBSET Families, NEW checked, NEW offers \in SUBSET Offers
    PROVE  ExactRuns(planned, checked, offers) \subseteq Runs
<1> DEFINE R(rows, health) ==
             Run(health,
                 [f \in Families |-> IF f \in planned
                                     THEN ExactAnswer(f, checked, rows[f]) ELSE {}],
                 [f \in Families |-> IF f \in planned THEN rows[f].product ELSE NoProduct],
                 FALSE)
<1>1. ASSUME NEW rows \in [planned -> ExactRows(offers)], NEW health \in {"healthy", "incomplete"}
      PROVE  R(rows, health) \in Runs
  <2> DEFINE obs == [f \in Families |-> IF f \in planned
                                        THEN ExactAnswer(f, checked, rows[f]) ELSE {}]
             maps == [f \in Families |-> IF f \in planned THEN rows[f].product ELSE NoProduct]
  <2>1. ASSUME NEW f \in planned
        PROVE  /\ ExactAnswer(f, checked, rows[f]) \subseteq Observations
               /\ rows[f].product \in AnyProduct
    <3>1. rows[f] \in ExactRows(offers)
      OBVIOUS
    <3>2. /\ rows[f].kind \in {"positive", "negative", "noInstaller", "unclear", "blocked"}
          /\ rows[f].product \in AnyProduct
      BY <3>1, OffersAreTyped DEF ExactRows, AnyProduct
    <3>3. <<rows[f].product, 0>> \in AnyProduct \X OfferedVersions
      BY <3>2 DEF OfferedVersions
    <3>4. ExactAnswer(f, checked, rows[f])
            \in {{}, {Observation("exact", "blocked")}, {Offer("exact", <<rows[f].product, 0>>)},
                 {Observation("exact", "negative")}, {Observation("exact", "noInstaller")}}
      <4>1. CASE rows[f].kind = "blocked"
        BY <4>1 DEF ExactAnswer
      <4>2. CASE rows[f].kind # "blocked" /\ f \notin checked
        BY <4>2 DEF ExactAnswer
      <4>3. CASE rows[f].kind = "unclear" /\ f \in checked
        BY <4>3 DEF ExactAnswer
      <4>4. CASE rows[f].kind = "positive" /\ f \in checked
        BY <4>4 DEF ExactAnswer
      <4>5. CASE rows[f].kind \in {"negative", "noInstaller"} /\ f \in checked
        BY <4>5 DEF ExactAnswer
      <4> QED
        BY <3>2, <4>1, <4>2, <4>3, <4>4, <4>5
    <3> QED
      BY <3>2, <3>3, <3>4, ObservationsAreTyped DEF Providers, Kinds
  <2>2. obs \in [Families -> SUBSET Observations] /\ maps \in [Families -> AnyProduct]
    BY <2>1 DEF AnyProduct
  <2> HIDE DEF obs, maps
  <2>3. Run(health, obs, maps, FALSE) \in Runs
    BY <2>2, RunsAreTyped DEF Healths
  <2> QED
    BY <2>3 DEF obs, maps, R
<1>3. ExactRuns(planned, checked, offers) =
        IF planned = {} THEN {NotRun} ELSE {Unavailable} \union {R(rows, health) : rows \in [planned -> ExactRows(offers)], health \in {"healthy", "incomplete"}}
    BY DEF ExactRuns, R
<1> HIDE DEF R
<1> QED
    BY <1>1, PlainRunsAreTyped, <1>3

LEMMA WinRTRunsAreTyped ==
    ASSUME NEW fams \in SUBSET Families, NEW offers \in SUBSET Offers
    PROVE  WinRTRuns(fams, offers) \subseteq Runs
<1> DEFINE R(rows) ==
             Run("healthy",
                 [f \in Families |-> IF f \in fams THEN rows[f] ELSE {}],
                 [f \in Families |-> IF f \in fams /\ \E o \in rows[f] : o.kind = "positive"
                                     THEN (CHOOSE o \in rows[f] : TRUE).product
                                     ELSE NoProduct],
                 FALSE)
<1>1. ASSUME NEW rows \in [fams -> {{}} \union {{r} : r \in WinRTRows(offers)}]
      PROVE  R(rows) \in Runs
  <2> DEFINE obs == [f \in Families |-> IF f \in fams THEN rows[f] ELSE {}]
             maps == [f \in Families |-> IF f \in fams /\ \E o \in rows[f] : o.kind = "positive"
                                         THEN (CHOOSE o \in rows[f] : TRUE).product
                                         ELSE NoProduct]
  <2>0. WinRTRows(offers) \subseteq Observations
    <3>1. ASSUME NEW o \in offers PROVE Offer("winrt", o) \in Observations
      BY OffersAreTyped, ObservationsAreTyped DEF Providers
    <3> QED
      BY <3>1, ObservationsAreTyped DEF WinRTRows, Providers, Kinds
  <2>1. ASSUME NEW f \in fams
        PROVE  /\ rows[f] \subseteq Observations
               /\ (\E o \in rows[f] : o.kind = "positive")
                    => (CHOOSE o \in rows[f] : TRUE).product \in AnyProduct
    <3>1. rows[f] = {} \/ \E r \in WinRTRows(offers) : rows[f] = {r}
      OBVIOUS
    <3>2. rows[f] \subseteq Observations
      BY <3>1, <2>0
    <3>3. \A o \in Observations : o.product \in AnyProduct
      BY DEF Observations, AnyProduct
    <3> QED
      BY <3>2, <3>3
  <2>2. obs \in [Families -> SUBSET Observations] /\ maps \in [Families -> AnyProduct]
    BY <2>1 DEF AnyProduct
  <2> HIDE DEF obs, maps
  <2>3. Run("healthy", obs, maps, FALSE) \in Runs
    BY <2>2, RunsAreTyped DEF Healths
  <2> QED
    BY <2>3 DEF obs, maps, R
<1>2. {Unavailable, FailedRun(FALSE)} \subseteq Runs
    BY PlainRunsAreTyped
<1>3. WinRTRuns(fams, offers) =
        {Unavailable, FailedRun(FALSE)} \union {R(rows) : rows \in [fams -> {{}} \union {{r} : r \in WinRTRows(offers)}]}
    BY DEF WinRTRuns, R
<1> HIDE DEF R
<1> QED
    BY <1>1, <1>2, <1>3

\* Time limits, downgrades and synthesized observations keep a run a run.
LEMMA SanitizedRunsAreTyped ==
    ASSUME NEW p \in Providers, NEW run \in Runs, NEW fams
    PROVE  Sanitized(p, run, fams) \in Runs /\ TimedOut(run) \in Runs
<1>1. ASSUME NEW r \in Runs PROVE [r EXCEPT !.health = "incomplete"] \in Runs
    BY <1>1 DEF Runs, Healths
<1>2. ASSUME NEW r \in Runs PROVE Downgraded(r) \in Runs
    BY <1>1 DEF Downgraded
<1>3. ASSUME NEW r \in Runs PROVE Synthesized(p, r, fams) \in Runs
  <2> DEFINE obs == [f \in Families |-> IF f \in fams /\ r.obs[f] = {}
                                        THEN {Observation(p, "blocked")} ELSE r.obs[f]]
  <2>1. obs \in [Families -> SUBSET Observations]
    <3>1. r.obs \in [Families -> SUBSET Observations]
      BY DEF Runs
    <3>2. Observation(p, "blocked") \in Observations
      BY ObservationsAreTyped DEF Kinds
    <3> QED
      BY <3>1, <3>2
  <2> HIDE DEF obs
  <2>2. [r EXCEPT !.obs = obs] \in Runs
    BY <2>1 DEF Runs
  <2> QED
    BY <2>2 DEF Synthesized, obs
<1> QED
    BY <1>1, <1>2, <1>3 DEF Sanitized, TimedOut

LEMMA OutcomesAreTyped ==
    ASSUME NEW p \in Providers, NEW runs \in SUBSET Runs, NEW fams
    PROVE  Outcomes(p, Answers(p, runs), fams) \subseteq Runs
<1>1. Answers(p, runs) \subseteq Runs
    BY PlainRunsAreTyped DEF Answers
<1> DEFINE answers == Answers(p, runs)
           both == answers \union {TimedOut(r) : r \in answers}
<1>2. both \subseteq Runs
    BY <1>1, SanitizedRunsAreTyped
<1>3. Outcomes(p, answers, fams) = {Sanitized(p, r, fams) : r \in both}
    BY DEF Outcomes
<1> HIDE DEF answers, both
<1>4. Outcomes(p, answers, fams) \subseteq Runs
    BY <1>2, <1>3, SanitizedRunsAreTyped
<1> QED
    BY <1>4 DEF answers

LEMMA EvidenceIsTyped ==
    ASSUME NEW runs \in [Providers -> Runs], NEW f \in Families
    PROVE  Evidence(runs, f) \subseteq Observations
<1>1. \A p \in Providers : runs[p].obs[f] \in SUBSET Observations
    BY DEF Runs
<1> QED
    BY <1>1 DEF Evidence

LEMMA MappingsAreTyped ==
    ASSUME NEW runs \in [Providers -> Runs], NEW f \in Families
    PROVE  MappedProducts(runs, f) \subseteq AnyProduct
<1>1. \A p \in Providers : runs[p].maps[f] \in AnyProduct
    BY DEF Runs
<1> QED
    BY <1>1 DEF MappedProducts

LEMMA StatesOfAssessments ==
    ASSUME NEW ev, NEW mapped, NEW status, NEW number
    PROVE  LET a == Assessment(ev, mapped, status, number)
           IN /\ a.state \in States /\ ~a.stale
              /\ a.state = "current" => status = "completed"
<1>1. /\ ReconciledState(ev, status) \in States
      /\ ReconciledState(ev, status) = "current" => status = "completed"
    BY DEF ReconciledState, States
<1>2. ReconcileStoreUpdate(ev, mapped, status) \in {"conflict", ReconciledState(ev, status)}
    BY DEF ReconcileStoreUpdate
<1> QED
    BY <1>1, <1>2 DEF Assessment, States

LEMMA AssessmentsAreTyped ==
    ASSUME NEW ev \in SUBSET Observations, NEW mapped \in SUBSET AnyProduct, NEW status,
           NEW number \in Nat
    PROVE  Assessment(ev, mapped, status, number) \in Assessments
<1> DEFINE state == ReconcileStoreUpdate(ev, mapped, status)
           offered == state = "available"
           product == IF offered /\ OfferedProducts(ev) # {}
                      THEN TheOnly(OfferedProducts(ev), NoProduct)
                      ELSE IF Cardinality(mapped) = 1 THEN TheOnly(mapped, NoProduct)
                      ELSE NoProduct
           version == IF offered THEN TheOnly(KnownVersions(ev), 0) ELSE 0
<1>1. state \in States
    BY StatesOfAssessments DEF Assessment
<1>2. product \in AnyProduct
  <2>1. OfferedProducts(ev) \subseteq AnyProduct /\ NoProduct \in AnyProduct
    BY DEF OfferedProducts, OfKind, Observations, AnyProduct
  <2>2. \A S \in SUBSET AnyProduct : TheOnly(S, NoProduct) \in AnyProduct
    BY <2>1 DEF TheOnly
  <2> QED
    BY <2>1, <2>2
<1>3. version \in OfferedVersions
    BY DEF TheOnly, KnownVersions, OfKind, Observations, OfferedVersions
<1>4. offered \in BOOLEAN
    OBVIOUS
<1>5. Assessment(ev, mapped, status, number) =
        [state |-> state, product |-> product, version |-> version,
         installed |-> number, exact |-> offered, stale |-> FALSE]
    BY DEF Assessment
<1> HIDE DEF state, product, version, offered
<1> QED
    BY <1>1, <1>2, <1>3, <1>4, <1>5 DEF Assessments, AnyProduct

\* Hysteresis keeps an offer, marks what it kept, and adds nothing else.
LEMMA PublishedAssessments ==
    ASSUME NEW own \in Assessments, NEW previous \in SUBSET Assessments, NEW status, ~own.stale
    PROVE  LET after == Published(own, previous, status)
           IN /\ after \in Assessments
              /\ after.state = "current" => own.state = "current"
              /\ previous # {} /\ status # "completed"
                   => after.state \in {"available", "conflict", "pending"}
              /\ after.state = "available" /\ ~after.stale
                   => own.state = "available" /\ after.product = own.product
<1>1. CASE previous # {} /\ ShouldRetain(own, status)
  <2> DEFINE before == CHOOSE a \in previous : TRUE
  <2>1. before \in Assessments
    BY <1>1
  <2>2. Published(own, previous, status) = Retained(own, before)
    BY <1>1 DEF Published
  <2> HIDE DEF before
  <2>3. Retained(own, before) \in Assessments
    BY <2>1 DEF Retained, Assessments, States
  <2>4. Retained(own, before).state = "available" /\ Retained(own, before).stale = TRUE
    BY DEF Retained, Assessments
  <2> QED
    BY <2>2, <2>3, <2>4
<1>2. CASE ~(previous # {} /\ ShouldRetain(own, status))
  <2>1. Published(own, previous, status) = own
    BY <1>2 DEF Published
  <2>2. own.state \in States
    BY DEF Assessments
  <2> QED
    BY <1>2, <2>1, <2>2 DEF ShouldRetain, States
<1> QED
    BY <1>1, <1>2

-----------------------------------------------------------------------------
(* The repository as a reader sees it. *)

LEMMA LargestExists ==
    ASSUME NEW n \in Nat, NEW S \in SUBSET (0..n), S # {}
    PROVE  \E m \in S : \A k \in S : k <= m
<1>1. \A F \in SUBSET SUBSET S : F # {} =>
         \E T \in F : \A U \in F : ~(U \subseteq T /\ U # T)
  <2> SUFFICES ASSUME NEW F \in SUBSET SUBSET S, F # {}
               PROVE  \E T \in F : \A U \in F : ~(U \subseteq T /\ U # T)
    OBVIOUS
  <2> DEFINE R == StrictSubsetOrdering(S)
  <2>1. IsFiniteSet(S)
    <3>1. IsFiniteSet(0..n)
      BY FS_Interval
    <3> QED
      BY <3>1, FS_Subset
  <2>2. IsWellFoundedOn(R, SUBSET S)
    BY <2>1, FS_FiniteSubsetsOfFinite, FS_StrictSubsetOrderingWellFounded
  <2>3. \E T \in F : \A U \in F : ~(<<U, T>> \in R)
    <3> HIDE DEF R
    <3> QED
      BY <2>2, WFMin
  <2> QED
    BY <2>3 DEF StrictSubsetOrdering
<1>2. \A i \in S : i \in Nat
    OBVIOUS
<1> DEFINE From(x) == {i \in S : x <= i}
           F == {From(x) : x \in S}
<1>3. F \in SUBSET SUBSET S /\ F # {}
    OBVIOUS
<1>4. PICK T \in F : \A U \in F : ~(U \subseteq T /\ U # T)
    BY <1>1, <1>3
<1>5. PICK m \in S : T = From(m)
    OBVIOUS
<1>6. ASSUME NEW k \in S, m < k PROVE FALSE
  <2>1. From(k) \in F
    OBVIOUS
  <2>2. \A i \in S : k <= i => m <= i
    BY <1>2, <1>6
  <2>3. m <= m /\ ~(k <= m)
    BY <1>2, <1>6
  <2>4. From(k) \subseteq T /\ m \in T /\ m \notin From(k)
    BY <1>5, <2>2, <2>3
  <2> HIDE DEF From, F
  <2> QED
    BY <1>4, <2>1, <2>4
<1> QED
    BY <1>2, <1>6

LEMMA TimesAreNumbers ==
    ASSUME machine \in Machines
    PROVE  machine.maxTime \in Nat /\ machine.faults \in Nat /\ Times \subseteq Nat /\ 0 \in Times
    BY ScanAssumption DEF Times

\* snapshotSortsAfter picks one of the snapshots it is given, the newest.
LEMMA LatestIsNewest ==
    ASSUME machine \in Machines, NEW G \in SUBSET Snapshots, G # {}
    PROVE  Latest(G) \in G /\ \A h \in G : h.scan <= Latest(G).scan
<1> DEFINE n == machine.maxTime + 1
           S == {g.scan : g \in G}
<1>1. n \in Nat
    BY TimesAreNumbers
<1>2. S \in SUBSET (0..n) /\ S # {}
    BY DEF Snapshots, Times
<1>3. \E m \in S : \A k \in S : k <= m
  <2> HIDE DEF n, S
  <2> QED
    BY <1>1, <1>2, LargestExists
<1>4. \E g \in G : \A h \in G : h.scan <= g.scan
    BY <1>3
<1> QED
    BY <1>4 DEF Latest

\* What is not flagged as recovered came from the generation pointed at.
LEMMA LoadsFollowThePointer ==
    ASSUME ScanTypes, NEW ptr \in Pointers
    PROVE  LET loaded == ReadThrough(ptr)
           IN /\ loaded.found \in BOOLEAN /\ loaded.recovered \in BOOLEAN
              /\ loaded.snap \in Snapshots
              /\ (loaded.found /\ ~loaded.recovered) =>
                   /\ ptr.state = "ok" /\ loaded.snap.scan = ptr.scan
                   /\ \E g \in gens : /\ ~g.damaged /\ g.scan = ptr.scan
                                      /\ loaded.snap.assess = g.assess
              /\ (ptr.state = "ok" /\ \E g \in gens : ~g.damaged /\ g.scan = ptr.scan)
                   => loaded.found /\ ~loaded.recovered
<1> DEFINE pointed == {g \in Usable : ptr.state = "ok" /\ g.scan = ptr.scan}
           published == {g \in Usable : g.published}
           loaded == ReadThrough(ptr)
<1>t. machine \in Machines /\ gens \subseteq Snapshots
    BY DEF ScanTypes
<1>1. pointed \in SUBSET Snapshots /\ published \in SUBSET Snapshots
    BY <1>t DEF Usable
<1>2. CASE pointed # {}
  <2>1. Latest(pointed) \in pointed
    BY <1>1, <1>2, <1>t, LatestIsNewest
  <2> DEFINE g == Latest(pointed)
             snap == [g EXCEPT !.published = TRUE]
  <2>2. loaded = [found |-> TRUE, recovered |-> FALSE, snap |-> snap]
    BY <1>2 DEF ReadThrough
  <2>3. g \in gens /\ ~g.damaged /\ ptr.state = "ok" /\ g.scan = ptr.scan /\ g \in Snapshots
    BY <2>1, <1>t DEF Usable
  <2> HIDE DEF g, loaded
  <2>4. snap \in Snapshots /\ snap.scan = g.scan /\ snap.assess = g.assess
    BY <2>3 DEF Snapshots
  <2> HIDE DEF snap
  <2> QED
    BY <2>2, <2>3, <2>4 DEF loaded
<1>3. CASE pointed = {} /\ published = {}
  <2>1. loaded = NotFound
    BY <1>3 DEF ReadThrough, RecoverLatest
  <2>2. NoSnapshot \in Snapshots
    <3>1. NoFamilies \in [{} -> Assessments]
      BY DEF NoFamilies
    <3>2. NoFamilies \in AssessmentMaps
      BY <3>1 DEF AssessmentMaps
    <3> QED
      BY <1>t, <3>2, TimesAreNumbers DEF NoSnapshot, Snapshot, Snapshots
  <2>3. \A g \in gens : ~(ptr.state = "ok" /\ ~g.damaged /\ g.scan = ptr.scan)
    BY <1>3 DEF Usable
  <2> QED
    BY <2>1, <2>2, <2>3 DEF NotFound
<1>4. CASE pointed = {} /\ published # {}
  <2>1. loaded = [found |-> TRUE, recovered |-> TRUE, snap |-> Latest(published)]
    BY <1>4 DEF ReadThrough, RecoverLatest
  <2>2. Latest(published) \in Snapshots
    BY <1>1, <1>4, <1>t, LatestIsNewest
  <2>3. \A g \in gens : ~(ptr.state = "ok" /\ ~g.damaged /\ g.scan = ptr.scan)
    BY <1>4 DEF Usable
  <2> QED
    BY <2>1, <2>2, <2>3
<1> QED
    BY <1>2, <1>3, <1>4

-----------------------------------------------------------------------------
(* How each step moves the scan that takes it, and that types are kept. *)

LEMMA SetsOfTheMachine ==
    ASSUME machine' = machine
    PROVE  /\ Times' = Times /\ Snapshots' = Snapshots /\ ScanRuns' = ScanRuns
           /\ Pointers' = Pointers /\ UpdateRuns' = UpdateRuns
<1>1. Times' = Times
    BY DEF Times
<1>2. Inventories' = Inventories /\ Versions' = Versions
    BY DEF Inventories, Versions
<1>3. Snapshots' = Snapshots /\ Pointers' = Pointers
    BY <1>1 DEF Snapshots, Pointers
<1>4. Requests' = Requests
    BY <1>1 DEF Requests
<1> QED
    BY <1>1, <1>2, <1>3, <1>4 DEF ScanRuns, UpdateRuns

LEMMA NoSnapshotIsTyped ==
    ASSUME machine \in Machines
    PROVE  NoSnapshot \in Snapshots /\ NoSnapshot.assess = NoFamilies /\ DOMAIN NoFamilies = {}
<1>1. NoFamilies \in [{} -> Assessments]
    BY DEF NoFamilies
<1>2. NoFamilies \in AssessmentMaps
    BY <1>1 DEF AssessmentMaps
<1> QED
    BY <1>1, <1>2, TimesAreNumbers DEF NoSnapshot, Snapshot, Snapshots

LEMMA IdleScanIsTyped ==
    ASSUME machine \in Machines
    PROVE  IdleScan \in ScanRuns /\ IdleScan.pc = "idle" /\ IdleScan.result = NoSnapshot
<1>1. NoFamilies \in [{} -> machine.versions]
    BY DEF NoFamilies
<1>2. NoFamilies \in Inventories
    BY <1>1 DEF Inventories
<1> QED
    BY <1>2, TimesAreNumbers, NoSnapshotIsTyped DEF IdleScan, ScanRuns, ScanPCs

LEMMA RunsChange ==
    ASSUME NEW r \in ScanRuns, NEW pc \in ScanPCs
    PROVE  /\ [r EXCEPT !.pc = pc] \in ScanRuns
           /\ \A t \in Times : [r EXCEPT !.pc = pc, !.scan = t] \in ScanRuns
           /\ \A whole, listed \in BOOLEAN, seen \in Inventories, base \in Snapshots,
                 rec \in BOOLEAN :
                [r EXCEPT !.pc = pc, !.whole = whole, !.listed = listed, !.seen = seen,
                          !.base = base, !.recovered = rec] \in ScanRuns
           /\ \A res \in Snapshots : [r EXCEPT !.pc = pc, !.result = res] \in ScanRuns
    BY DEF ScanRuns

\* Only scan s moved, and it is a scan again.
OnlyMoves(s) ==
    /\ scanner' \in [Scanners -> ScanRuns]
    /\ \A t \in Scanners : t # s => scanner'[t] = scanner[t]

LEMMA RunReplaced ==
    ASSUME ScanTypes, NEW s \in Scanners, NEW r \in ScanRuns, scanner' = [scanner EXCEPT ![s] = r]
    PROVE  OnlyMoves(s) /\ scanner'[s] = r
    BY DEF ScanTypes, OnlyMoves

\* The steps that only move the program counter.
LEMMA PlaceMoves ==
    ASSUME ScanTypes, NEW s \in Scanners, NEW pc \in ScanPCs,
           scanner' = [scanner EXCEPT ![s].pc = pc]
    PROVE  /\ OnlyMoves(s) /\ scanner'[s].pc = pc
           /\ scanner'[s].scan = scanner[s].scan /\ scanner'[s].base = scanner[s].base
           /\ scanner'[s].result = scanner[s].result
<1> DEFINE r == [scanner[s] EXCEPT !.pc = pc]
<1>1. scanner[s] \in ScanRuns
    BY DEF ScanTypes
<1>2. r \in ScanRuns
    BY <1>1, RunsChange
<1>3. scanner' = [scanner EXCEPT ![s] = r]
    OBVIOUS
<1>4. /\ r.pc = pc /\ r.scan = scanner[s].scan /\ r.base = scanner[s].base
      /\ r.result = scanner[s].result
    BY <1>1 DEF ScanRuns
<1> HIDE DEF r
<1>5. OnlyMoves(s) /\ scanner'[s] = r
    BY <1>2, <1>3, RunReplaced
<1> QED
    BY <1>4, <1>5

LEMMA LockMoves ==
    ASSUME ScanTypes, NEW s \in Scanners, Lock(s)
    PROVE  /\ OnlyMoves(s)
           /\ \/ /\ scanMutex = NoScanner /\ scanMutex' = s /\ clock' = clock + 1
                 /\ scanner'[s].pc = "collecting" /\ scanner'[s].result = scanner[s].result
                 /\ UNCHANGED running
              \/ /\ scanMutex # NoScanner /\ scanner'[s] = IdleScan
                 /\ running' = [running EXCEPT ![Home[s]] = FALSE]
                 /\ UNCHANGED <<scanMutex, clock>>
<1>0. scanner[s] \in ScanRuns /\ clock \in Times /\ machine \in Machines
    BY DEF ScanTypes
<1>1. CASE scanMutex = NoScanner
  <2> DEFINE r == [scanner[s] EXCEPT !.pc = "collecting", !.scan = clock]
  <2>1. r \in ScanRuns
    BY <1>0, RunsChange DEF ScanPCs
  <2>2. scanner' = [scanner EXCEPT ![s] = r]
    BY <1>0, <1>1 DEF Lock, ScanTypes
  <2>3. r.pc = "collecting" /\ r.result = scanner[s].result
    BY <1>0 DEF ScanRuns
  <2> HIDE DEF r
  <2>4. OnlyMoves(s) /\ scanner'[s] = r
    BY <2>1, <2>2, RunReplaced
  <2> QED
    BY <1>1, <2>3, <2>4 DEF Lock
<1>2. CASE scanMutex # NoScanner
  <2>1. scanner' = [scanner EXCEPT ![s] = IdleScan]
    BY <1>2 DEF Lock
  <2>2. OnlyMoves(s) /\ scanner'[s] = IdleScan
    BY <1>0, <2>1, IdleScanIsTyped, RunReplaced
  <2> QED
    BY <1>2, <2>2 DEF Lock
<1> QED
    BY <1>1, <1>2

LEMMA CollectMoves ==
    ASSUME ScanTypes, NEW s \in Scanners, Collect(s)
    PROVE  /\ OnlyMoves(s) /\ scanner'[s].pc = "checking"
           /\ scanner'[s].base = LoadLatestPublished.snap
           /\ scanner'[s].result = scanner[s].result
<1>0. scanner[s] \in ScanRuns /\ installed \in [Families -> machine.versions] /\ pointer \in Pointers
    BY DEF ScanTypes
<1> DEFINE loaded == LoadLatestPublished
           R(whole, listed, fams) ==
             [scanner[s] EXCEPT !.pc = "checking", !.whole = whole, !.listed = listed,
                                !.seen = [f \in fams |-> installed[f]],
                                !.base = loaded.snap, !.recovered = loaded.recovered]
<1>1. PICK whole \in BOOLEAN, listed \in BOOLEAN, fams \in SUBSET Families :
        scanner' = [scanner EXCEPT ![s] = R(whole, listed, fams)]
    BY DEF Collect
<1> DEFINE seen == [f \in fams |-> installed[f]]
           r == [scanner[s] EXCEPT !.pc = "checking", !.whole = whole, !.listed = listed,
                                !.seen = seen, !.base = loaded.snap, !.recovered = loaded.recovered]
<1>2. seen \in Inventories
    BY <1>0 DEF Inventories
<1>3. loaded.snap \in Snapshots /\ loaded.recovered \in BOOLEAN
    BY <1>0, LoadsFollowThePointer DEF LoadLatestPublished
<1>4. scanner' = [scanner EXCEPT ![s] = r]
    BY <1>1
<1> HIDE DEF seen, loaded
<1>5. r \in ScanRuns
  <2>1. "checking" \in ScanPCs
    BY DEF ScanPCs
  <2>2. \A w, l \in BOOLEAN, i \in Inventories, g \in Snapshots, b \in BOOLEAN :
          [scanner[s] EXCEPT !.pc = "checking", !.whole = w, !.listed = l, !.seen = i,
                             !.base = g, !.recovered = b] \in ScanRuns
    BY <1>0, <2>1, RunsChange, Zenon
  <2> QED
    BY <1>2, <1>3, <2>2, Zenon
<1>6. r.pc = "checking" /\ r.base = loaded.snap /\ r.result = scanner[s].result
    BY <1>0 DEF ScanRuns
<1> HIDE DEF r
<1> QED
    BY <1>4, <1>5, <1>6, RunReplaced DEF loaded

LEMMA PlansAreTyped ==
    ASSUME ScanTypes, NEW s \in Scanners, NEW runs, NEW plan \in ExactPlans(s, runs)
    PROVE  plan.planned \in SUBSET Families /\ DOMAIN scanner[s].seen \in SUBSET Families
<1>1. DOMAIN scanner[s].seen \in SUBSET Families
    BY DEF ScanTypes, ScanRuns, Inventories
<1> DEFINE fams == DOMAIN scanner[s].seen
<1>2. PICK deep \in BOOLEAN, auto \in {{}, fams}, reusable \in ReusableMappings(s) :
        plan = [checked |-> StateChecks(runs, fams, deep, auto),
                planned |-> ExactFamilies(runs, fams, deep, auto, reusable)]
    BY DEF ExactPlans
<1>3. plan.planned = ExactFamilies(runs, fams, deep, auto, reusable)
    BY <1>2
<1>4. StateChecks(runs, fams, deep, auto) \subseteq fams
    BY DEF StateChecks
<1>5. ExactFamilies(runs, fams, deep, auto, reusable) \subseteq fams
    BY <1>4 DEF ExactFamilies
<1> QED
    BY <1>1, <1>3, <1>5

\* A scan concludes from four runs of the providers.
LEMMA CheckConcludes ==
    ASSUME ScanTypes, NEW s \in Scanners, Check(s)
    PROVE  \E runs \in [Providers -> Runs] : Conclude(s, runs)
<1> DEFINE fams == DOMAIN scanner[s].seen
           Ask(p, runs, of) == Outcomes(p, Answers(p, runs), of)
           Aggregate(u, w) == [p \in Providers |-> CASE p = "updates" -> u [] p = "winget" -> w
                                                      [] OTHER -> NotRun]
<1>0. fams \in SUBSET Families /\ machine.offers \in SUBSET Offers
    BY ScanAssumption DEF ScanTypes, ScanRuns, Inventories
<1>1. PICK u \in Ask("updates", UpdatesRuns(fams, machine.offers), fams),
           w \in Ask("winget", WingetRuns(fams, machine.offers), fams) :
        \E plan \in ExactPlans(s, Aggregate(u, w)) :
        \E e \in IF plan.planned = {} THEN {NotRun}
                 ELSE Ask("exact", ExactRuns(plan.planned, plan.checked, machine.offers),
                          plan.planned),
           r \in Ask("winrt", WinRTRuns(fams, machine.offers), fams) :
          Conclude(s, [Aggregate(u, w) EXCEPT !["exact"] = e, !["winrt"] = r])
    BY DEF Check
<1>2. PICK plan \in ExactPlans(s, Aggregate(u, w)) :
        \E e \in IF plan.planned = {} THEN {NotRun}
                 ELSE Ask("exact", ExactRuns(plan.planned, plan.checked, machine.offers),
                          plan.planned),
           r \in Ask("winrt", WinRTRuns(fams, machine.offers), fams) :
          Conclude(s, [Aggregate(u, w) EXCEPT !["exact"] = e, !["winrt"] = r])
    BY <1>1
<1>3. PICK e \in IF plan.planned = {} THEN {NotRun}
                 ELSE Ask("exact", ExactRuns(plan.planned, plan.checked, machine.offers),
                          plan.planned),
           r \in Ask("winrt", WinRTRuns(fams, machine.offers), fams) :
          Conclude(s, [Aggregate(u, w) EXCEPT !["exact"] = e, !["winrt"] = r])
    BY <1>2
<1>4. u \in Runs /\ w \in Runs /\ r \in Runs
    BY <1>0, UpdatesRunsAreTyped, WingetRunsAreTyped, WinRTRunsAreTyped, OutcomesAreTyped
       DEF Providers
<1>5. e \in Runs
  <2>1. plan.planned \in SUBSET Families
    BY <1>2, PlansAreTyped
  <2>2. ExactRuns(plan.planned, plan.checked, machine.offers) \in SUBSET Runs
    BY <1>0, <2>1, ExactRunsAreTyped
  <2>3. Ask("exact", ExactRuns(plan.planned, plan.checked, machine.offers), plan.planned) \subseteq Runs
    BY <2>2, OutcomesAreTyped DEF Providers
  <2> QED
    BY <2>3, PlainRunsAreTyped
<1> DEFINE runs == [Aggregate(u, w) EXCEPT !["exact"] = e, !["winrt"] = r]
<1>6. Aggregate(u, w) \in [Providers -> Runs]
    BY <1>4, PlainRunsAreTyped
<1>7. runs \in [Providers -> Runs]
  <2> HIDE DEF Aggregate
  <2> QED
    BY <1>4, <1>5, <1>6 DEF Providers
<1>8. Conclude(s, runs)
    BY <1>3
<1> HIDE DEF runs
<1> QED
    BY <1>7, <1>8

\* What a scan may write, with the evidence it had and the snapshot before.
Concluded(s) ==
    LET new == scanner'[s].result
        old == scanner[s].base
    IN /\ DOMAIN new.assess = DOMAIN scanner'[s].seen
       /\ \A f \in DOMAIN new.assess :
            /\ new.assess[f].state = "current" => new.status = "completed"
            /\ new.assess[f].state = "available" /\ ~new.assess[f].stale
                 => <<new.scan, f, new.assess[f].product>> \in proven'
            /\ f \in DOMAIN old.assess /\ new.status # "completed"
                 => new.assess[f].state \in {"available", "conflict", "pending"}

LEMMA ConcludeMoves ==
    ASSUME ScanTypes, NEW s \in Scanners, NEW runs \in [Providers -> Runs], Conclude(s, runs)
    PROVE  /\ OnlyMoves(s) /\ scanner'[s].pc = "persisting"
           /\ scanner'[s].scan = scanner[s].scan /\ scanner'[s].base = scanner[s].base
           /\ scanner'[s].result.scan = scanner[s].scan
           /\ proven \subseteq proven' /\ proven' \subseteq Times \X Families \X AnyProduct
           /\ Concluded(s)
<1> DEFINE scan == scanner[s]
           fams == DOMAIN scan.seen
           status == CompletionStatus(scan.listed, scan.whole, runs)
           Own(f) == Assessment(Evidence(runs, f), MappedProducts(runs, f), status, scan.seen[f])
           own == [f \in fams |-> Own(f)]
           Before(f) == IF f \in DOMAIN scan.base.assess THEN {scan.base.assess[f]} ELSE {}
           assess == [f \in fams |-> Published(own[f], Before(f), status)]
           mapped == {f \in fams : runs["exact"].maps[f] # NoProduct}
           publish == ShouldPublish(status, scan.listed)
           result == Snapshot(scan.scan, status, publish, mapped, assess)
           new == {<<scan.scan, f, own[f].product>> : f \in {g \in fams : own[g].state = "available"}}
<1>1. /\ scanner' = [scanner EXCEPT ![s].pc = "persisting", ![s].result = result]
      /\ proven' = proven \union new
    BY DEF Conclude
<1>2. /\ scan \in ScanRuns /\ fams \in SUBSET Families /\ machine \in Machines
      /\ \A f \in fams : scan.seen[f] \in Nat
    BY ScanAssumption DEF ScanTypes, ScanRuns, Inventories
<1>3. status \in {"completed", "incomplete", "failed"}
    BY DEF CompletionStatus
<1>4. publish \in BOOLEAN
    BY DEF ShouldPublish
<1>5. \A f \in DOMAIN scan.base.assess : scan.base.assess[f] \in Assessments
    BY <1>2 DEF ScanRuns, Snapshots, AssessmentMaps
<1> HIDE DEF status, publish, scan
<1>6. ASSUME NEW f \in fams
      PROVE  /\ own[f] \in Assessments /\ ~own[f].stale
             /\ own[f].state = "current" => status = "completed"
  <2>1. Own(f) \in Assessments
    BY <1>2, EvidenceIsTyped, MappingsAreTyped, AssessmentsAreTyped
  <2>2. ~Own(f).stale /\ (Own(f).state = "current" => status = "completed")
    BY StatesOfAssessments
  <2>3. own[f] = Own(f)
    OBVIOUS
  <2> HIDE DEF Own, own
  <2> QED
    BY <2>1, <2>2, <2>3
<1> HIDE DEF Own, own
<1>7. ASSUME NEW f \in fams
      PROVE  /\ assess[f] \in Assessments
             /\ assess[f].state = "current" => status = "completed"
             /\ f \in DOMAIN scan.base.assess /\ status # "completed"
                  => assess[f].state \in {"available", "conflict", "pending"}
             /\ assess[f].state = "available" /\ ~assess[f].stale
                  => own[f].state = "available" /\ assess[f].product = own[f].product
  <2>1. Before(f) \in SUBSET Assessments
    BY <1>5
  <2>2. assess[f] = Published(own[f], Before(f), status)
    OBVIOUS
  <2>3. f \in DOMAIN scan.base.assess => Before(f) # {}
    OBVIOUS
  <2> HIDE DEF assess, Before
  <2> QED
    BY <1>6, <2>1, <2>2, <2>3, PublishedAssessments
<1>8. assess \in AssessmentMaps /\ DOMAIN assess = fams
  <2>1. assess \in [fams -> Assessments]
    BY <1>7
  <2> QED
    BY <1>2, <2>1 DEF AssessmentMaps
<1>9. mapped \in SUBSET Families
    BY <1>2
<1>10. scan.scan \in Times
    BY <1>2 DEF ScanRuns
<1> HIDE DEF assess, mapped
<1>11. /\ result \in Snapshots /\ result.scan = scan.scan /\ result.status = status
       /\ result.assess = assess
    BY <1>3, <1>4, <1>8, <1>9, <1>10 DEF Snapshots, Snapshot
<1>12. new \subseteq Times \X Families \X AnyProduct
  <2>1. \A f \in fams : own[f].product \in AnyProduct
    BY <1>6 DEF Assessments, AnyProduct
  <2> QED
    BY <1>2, <1>10, <2>1
<1>13. \A f \in fams : own[f].state = "available" => <<scan.scan, f, own[f].product>> \in new
    OBVIOUS
<1>14. proven \subseteq Times \X Families \X AnyProduct
    BY DEF ScanTypes
<1> DEFINE r == [scan EXCEPT !.pc = "persisting", !.result = result]
<1>15. scanner' = [scanner EXCEPT ![s] = r]
    BY <1>1 DEF scan
<1> HIDE DEF result, new
<1>16. r \in ScanRuns
    BY <1>2, <1>11, RunsChange DEF ScanPCs
<1>17. /\ r.pc = "persisting" /\ r.scan = scan.scan /\ r.seen = scan.seen
       /\ r.base = scan.base /\ r.result = result
    BY <1>2 DEF ScanRuns
<1> HIDE DEF r
<1>18. OnlyMoves(s) /\ scanner'[s] = r
    BY <1>15, <1>16, RunReplaced
<1>19. Concluded(s)
  <2> SUFFICES ASSUME NEW f \in fams
               PROVE  /\ assess[f].state = "current" => status = "completed"
                      /\ assess[f].state = "available" /\ ~assess[f].stale
                           => <<scan.scan, f, assess[f].product>> \in proven'
                      /\ f \in DOMAIN scan.base.assess /\ status # "completed"
                           => assess[f].state \in {"available", "conflict", "pending"}
    BY <1>8, <1>11, <1>17, <1>18 DEF Concluded, scan
  <2>1. assess[f].state = "available" /\ ~assess[f].stale
          => <<scan.scan, f, assess[f].product>> \in new
    BY <1>7, <1>13
  <2> QED
    BY <1>1, <1>7, <2>1
<1> QED
    BY <1>1, <1>11, <1>12, <1>14, <1>17, <1>18, <1>19 DEF scan

\* A generation is written once, and only the one that may be published goes
\* on to the pointer.
LEMMA WriteMoves ==
    ASSUME ScanTypes, NEW s \in Scanners, WriteGeneration(s)
    PROVE  /\ OnlyMoves(s) /\ scanner[s].pc = "persisting"
           /\ scanner'[s].scan = scanner[s].scan /\ scanner'[s].base = scanner[s].base
           /\ scanner'[s].result.scan = scanner[s].result.scan
           /\ scanner'[s].result.assess = scanner[s].result.assess
           /\ \/ scanner'[s].pc = "releasing" /\ gens' = gens
              \/ /\ \A g \in gens : g.scan # scanner[s].result.scan
                 /\ scanner'[s].pc \in {"committing", "pruning"}
                 /\ \E g \in Snapshots :
                      /\ gens' = gens \union {g}
                      /\ g.scan = scanner[s].result.scan
                      /\ g.assess = scanner[s].result.assess
<1> DEFINE new == scanner[s].result
           latest == LoadLatestPublished
           published == new.published /\ (~latest.found \/ new.scan > latest.snap.scan)
           pc == IF published THEN "committing" ELSE "pruning"
<1>0. /\ scanner[s] \in ScanRuns /\ scanner \in [Scanners -> ScanRuns] /\ new \in Snapshots
      /\ scanner[s].pc = "persisting"
    BY DEF ScanTypes, ScanRuns, WriteGeneration
<1>1. CASE \E g \in gens : g.scan = new.scan
  <2>1. scanner' = [scanner EXCEPT ![s].pc = "releasing"] /\ gens' = gens
    BY <1>1 DEF WriteGeneration
  <2> QED
    BY <1>0, <2>1, PlaceMoves DEF ScanPCs
<1>2. CASE ~\E g \in gens : g.scan = new.scan
  <2>1. /\ gens' = gens \union {[new EXCEPT !.published = published]}
        /\ scanner' = [scanner EXCEPT ![s].pc = pc, ![s].result.published = published]
    BY <1>2 DEF WriteGeneration
  <2>2. published \in BOOLEAN /\ pc \in {"committing", "pruning"}
    OBVIOUS
  <2> HIDE DEF published, pc
  <2> DEFINE g == [new EXCEPT !.published = published]
             r == [scanner[s] EXCEPT !.pc = pc, !.result = g]
  <2>3. g \in Snapshots /\ g.scan = new.scan /\ g.assess = new.assess
    BY <1>0, <2>2 DEF Snapshots
  <2>4. scanner' = [scanner EXCEPT ![s] = r]
    BY <1>0, <2>1 DEF ScanRuns
  <2> HIDE DEF g
  <2>5. r \in ScanRuns
    BY <1>0, <2>2, <2>3, RunsChange DEF ScanPCs
  <2>6. r.pc = pc /\ r.scan = scanner[s].scan /\ r.base = scanner[s].base /\ r.result = g
    BY <1>0 DEF ScanRuns
  <2> HIDE DEF r
  <2>7. OnlyMoves(s) /\ scanner'[s] = r
    BY <2>4, <2>5, RunReplaced
  <2>8. gens' = gens \union {g}
    BY <2>1 DEF g
  <2> QED
    BY <1>0, <1>2, <2>2, <2>3, <2>6, <2>7, <2>8
<1> QED
    BY <1>1, <1>2

\* A damaged or rewritten file never changes what it says: every file of the
\* next state was there under the same number.
SameFile(g, h) == h.scan = g.scan /\ h.assess = g.assess
FilesKept ==
    /\ gens' \subseteq Snapshots
    /\ \A h \in gens' : \E g \in gens : SameFile(g, h)
    /\ \A g \in gens : \E h \in gens' : SameFile(g, h)
    /\ (\A g, h \in gens : g.scan = h.scan => g = h)
         => (\A g, h \in gens' : g.scan = h.scan => g = h)

LEMMA PointerFailsKeepsFiles ==
    ASSUME ScanTypes, NEW s \in Scanners, PointerFails(s)
    PROVE  FilesKept
<1>1. PICK published \in BOOLEAN, torn \in BOOLEAN :
        gens' = {IF g.scan # scanner[s].result.scan THEN g
                 ELSE [g EXCEPT !.published = published, !.damaged = torn] : g \in gens}
    BY DEF PointerFails
<1> DEFINE F(g) == IF g.scan # scanner[s].result.scan THEN g
                   ELSE [g EXCEPT !.published = published, !.damaged = torn]
<1>2. ASSUME NEW g \in gens PROVE F(g) \in Snapshots /\ SameFile(g, F(g))
  <2>1. g \in Snapshots
    BY DEF ScanTypes
  <2> QED
    BY <2>1 DEF Snapshots, SameFile
<1>3. gens' = {F(g) : g \in gens}
    BY <1>1
<1> HIDE DEF F
<1> QED
    BY <1>2, <1>3 DEF FilesKept, SameFile

LEMMA DamageKeepsFiles ==
    ASSUME ScanTypes, DamageGeneration
    PROVE  FilesKept /\ \A h \in gens' : ~h.damaged => h \in gens
<1>1. PICK g \in Usable : gens' = (gens \ {g}) \union {[g EXCEPT !.damaged = TRUE]}
    BY DEF DamageGeneration
<1> DEFINE d == [g EXCEPT !.damaged = TRUE]
<1>2. g \in gens /\ g \in Snapshots /\ gens \subseteq Snapshots
    BY <1>1 DEF Usable, ScanTypes
<1>3. d \in Snapshots /\ d.damaged = TRUE /\ SameFile(g, d)
    BY <1>2 DEF Snapshots, SameFile
<1>4. gens' = (gens \ {g}) \union {d}
    BY <1>1
<1> HIDE DEF d
<1>5. \A h \in gens' : h \in gens \/ h = d
    BY <1>4
<1>6. \A h \in gens : h \in gens' \/ h = g
    BY <1>4
<1> QED
    BY <1>2, <1>3, <1>4, <1>5, <1>6 DEF SameFile, FilesKept

\* Pruning keeps the generation the pointer names.
LEMMA PruneKeepsPointed ==
    ASSUME ScanTypes, NEW s \in Scanners, Prune(s)
    PROVE  /\ gens' \subseteq gens
           /\ \A g \in gens : pointer.state = "ok" /\ g.scan = pointer.scan => g \in gens'
<1>1. PICK removed \in {Usable \ Kept, {}} : gens' = gens \ removed
    BY DEF Prune
<1>2. ASSUME NEW g \in gens, pointer.state = "ok", g.scan = pointer.scan, g \in Usable
      PROVE  g \in Kept
  <2>1. pointer \in Pointers
    BY DEF ScanTypes
  <2>2. LoadLatestPublished.found /\ ~LoadLatestPublished.recovered
    BY <1>2, <2>1, LoadsFollowThePointer DEF LoadLatestPublished, Usable
  <2>3. LoadLatestPublished.snap.scan = pointer.scan
    BY <2>1, <2>2, LoadsFollowThePointer DEF LoadLatestPublished
  <2> QED
    BY <1>2, <2>2, <2>3 DEF Kept
<1> QED
    BY <1>1, <1>2

LEMMA CrashMoves ==
    ASSUME ScanTypes, NEW p \in Processes, Crash(p)
    PROVE  /\ scanner' \in [Scanners -> ScanRuns]
           /\ \A s \in Scanners : scanner'[s] = IF Home[s] = p THEN IdleScan ELSE scanner[s]
           /\ scanMutex' = IF scanMutex # NoScanner /\ Home[scanMutex] = p THEN NoScanner ELSE scanMutex
    BY IdleScanIsTyped DEF ScanTypes, Crash

LEMMA TypesKept ==
    ASSUME ScanTypes, machine' = machine, clock' \in Times, faults' \in 0..machine.faults,
           installed' \in [Families -> machine.versions], running' \in [Processes -> BOOLEAN],
           scanMutex' \in Scanners \union {NoScanner}, scanner' \in [Scanners -> ScanRuns],
           gens' \subseteq Snapshots, pointer' \in Pointers, committed' \in Seq(Times),
           proven' \subseteq Times \X Families \X AnyProduct
    PROVE  ScanTypes'
<1>1. Times' = Times /\ Snapshots' = Snapshots /\ ScanRuns' = ScanRuns /\ Pointers' = Pointers
    BY SetsOfTheMachine
<1> QED
    BY <1>1 DEF ScanTypes

LEMMA ScannerKeepsTypes ==
    ASSUME ScanTypes, NEW s \in Scanners, ScannerStep(s)
    PROVE  ScanTypes'
<1>t. /\ machine \in Machines /\ clock \in Times /\ faults \in 0..machine.faults
      /\ installed \in [Families -> machine.versions] /\ running \in [Processes -> BOOLEAN]
      /\ scanMutex \in Scanners \union {NoScanner} /\ scanner \in [Scanners -> ScanRuns]
      /\ gens \subseteq Snapshots /\ pointer \in Pointers /\ committed \in Seq(Times)
      /\ proven \subseteq Times \X Families \X AnyProduct
    BY DEF ScanTypes
<1>h. Home[s] \in Processes
    BY DEF Processes
<1>m. machine.maxTime \in Nat /\ machine.faults \in Nat /\ Times \subseteq Nat
    BY <1>t, TimesAreNumbers
<1>r. scanner[s].result.scan \in Times
    BY <1>t DEF ScanRuns, Snapshots
<1>1. CASE Begin(s)
  <2>1. scanner' \in [Scanners -> ScanRuns]
    BY <1>1, PlaceMoves DEF Begin, OnlyMoves, ScanPCs
  <2>2. running' \in [Processes -> BOOLEAN]
    BY <1>1, <1>t, <1>h DEF Begin
  <2> QED
    BY <1>1, <1>t, <2>1, <2>2, TypesKept DEF Begin
<1>2. CASE Lock(s)
  <2>1. scanner' \in [Scanners -> ScanRuns]
    BY <1>2, LockMoves DEF OnlyMoves
  <2>2. running' \in [Processes -> BOOLEAN] /\ scanMutex' \in Scanners \union {NoScanner}
    BY <1>2, <1>t, <1>h DEF Lock
  <2>3. clock' \in Times
    <3>1. clock \in Nat /\ clock <= machine.maxTime
      BY <1>2, <1>t, <1>m DEF Lock
    <3>2. clock + 1 \in Times
      BY <1>m, <3>1 DEF Times
    <3> QED
      BY <1>2, <1>t, <3>2 DEF Lock
  <2> QED
    BY <1>2, <1>t, <2>1, <2>2, <2>3, TypesKept DEF Lock
<1>3. CASE Collect(s)
  <2>1. scanner' \in [Scanners -> ScanRuns]
    BY <1>3, CollectMoves DEF OnlyMoves
  <2> QED
    BY <1>3, <1>t, <2>1, TypesKept DEF Collect
<1>4. CASE Check(s)
  <2>1. PICK runs \in [Providers -> Runs] : Conclude(s, runs)
    BY <1>4, CheckConcludes
  <2>2. scanner' \in [Scanners -> ScanRuns] /\ proven' \subseteq Times \X Families \X AnyProduct
    BY <2>1, ConcludeMoves DEF OnlyMoves
  <2> QED
    BY <1>4, <1>t, <2>2, TypesKept DEF Check
<1>5. CASE Abort(s)
  <2>1. scanner' \in [Scanners -> ScanRuns]
    BY <1>5, PlaceMoves DEF Abort, OnlyMoves, ScanPCs
  <2> QED
    BY <1>5, <1>t, <2>1, TypesKept DEF Abort
<1>6. CASE WriteGeneration(s)
  <2>1. scanner' \in [Scanners -> ScanRuns] /\ gens' \subseteq Snapshots
    BY <1>6, <1>t, WriteMoves DEF OnlyMoves
  <2> QED
    BY <1>6, <1>t, <2>1, TypesKept DEF WriteGeneration
<1>7. CASE ReplacePointer(s)
  <2>1. scanner' \in [Scanners -> ScanRuns]
    BY <1>7, PlaceMoves DEF ReplacePointer, OnlyMoves, ScanPCs
  <2>2. pointer' \in Pointers
    BY <1>7, <1>r DEF ReplacePointer, Pointer, Pointers
  <2>3. committed' \in Seq(Times)
    BY <1>7, <1>r, <1>t DEF ReplacePointer
  <2> QED
    BY <1>7, <1>t, <2>1, <2>2, <2>3, TypesKept DEF ReplacePointer
<1>8. CASE PointerFails(s)
  <2>1. scanner' \in [Scanners -> ScanRuns]
    BY <1>8, PlaceMoves DEF PointerFails, OnlyMoves, ScanPCs
  <2>2. gens' \subseteq Snapshots
    BY <1>8, PointerFailsKeepsFiles DEF FilesKept
  <2>3. faults' \in 0..machine.faults
    <3>1. faults < machine.faults /\ faults' = faults + 1
      BY <1>8 DEF PointerFails
    <3> QED
      BY <1>t, <1>m, <3>1
  <2> QED
    BY <1>8, <1>t, <2>1, <2>2, <2>3, TypesKept DEF PointerFails
<1>9. CASE Prune(s)
  <2>1. scanner' \in [Scanners -> ScanRuns]
    BY <1>9, PlaceMoves DEF Prune, OnlyMoves, ScanPCs
  <2>2. gens' \subseteq Snapshots
    BY <1>9, <1>t, PruneKeepsPointed
  <2> QED
    BY <1>9, <1>t, <2>1, <2>2, TypesKept DEF Prune
<1>10. CASE Release(s)
  <2>1. scanner' \in [Scanners -> ScanRuns]
    BY <1>10, <1>t, IdleScanIsTyped, RunReplaced DEF Release, OnlyMoves
  <2>2. running' \in [Processes -> BOOLEAN] /\ scanMutex' \in Scanners \union {NoScanner}
    BY <1>10, <1>t, <1>h DEF Release
  <2> QED
    BY <1>10, <1>t, <2>1, <2>2, TypesKept DEF Release
<1> QED
    BY <1>1, <1>2, <1>3, <1>4, <1>5, <1>6, <1>7, <1>8, <1>9, <1>10 DEF ScannerStep

LEMMA WorldKeepsTypes ==
    ASSUME ScanTypes, WorldStep
    PROVE  ScanTypes'
<1>t. /\ machine \in Machines /\ clock \in Times /\ faults \in 0..machine.faults
      /\ installed \in [Families -> machine.versions] /\ running \in [Processes -> BOOLEAN]
      /\ scanMutex \in Scanners \union {NoScanner} /\ scanner \in [Scanners -> ScanRuns]
      /\ gens \subseteq Snapshots /\ pointer \in Pointers /\ committed \in Seq(Times)
      /\ proven \subseteq Times \X Families \X AnyProduct
    BY DEF ScanTypes
<1>m. machine.maxTime \in Nat /\ machine.faults \in Nat /\ Times \subseteq Nat /\ 0 \in Times
    BY <1>t, TimesAreNumbers
<1>1. ASSUME NEW p \in Processes, Crash(p) PROVE ScanTypes'
  <2>1. scanner' \in [Scanners -> ScanRuns] /\ scanMutex' \in Scanners \union {NoScanner}
    BY <1>1, <1>t, CrashMoves
  <2>2. running' \in [Processes -> BOOLEAN]
    BY <1>1, <1>t DEF Crash
  <2>3. faults' \in 0..machine.faults
    <3>1. faults < machine.faults /\ faults' = faults + 1
      BY <1>1 DEF Crash
    <3> QED
      BY <1>t, <1>m, <3>1
  <2> QED
    BY <1>1, <1>t, <2>1, <2>2, <2>3, TypesKept DEF Crash
<1>2. CASE DamageGeneration
  <2>1. gens' \subseteq Snapshots
    BY <1>2, DamageKeepsFiles DEF FilesKept
  <2>2. faults' \in 0..machine.faults
    <3>1. faults < machine.faults /\ faults' = faults + 1
      BY <1>2 DEF DamageGeneration
    <3> QED
      BY <1>t, <1>m, <3>1
  <2> QED
    BY <1>2, <1>t, <2>1, <2>2, TypesKept DEF DamageGeneration
<1>3. CASE DamagePointer
  <2>1. pointer' \in Pointers
    BY <1>3, <1>m DEF DamagePointer, Pointer, Pointers
  <2>2. faults' \in 0..machine.faults
    <3>1. faults < machine.faults /\ faults' = faults + 1
      BY <1>3 DEF DamagePointer
    <3> QED
      BY <1>t, <1>m, <3>1
  <2> QED
    BY <1>3, <1>t, <2>1, <2>2, TypesKept DEF DamagePointer
<1>4. CASE ClockStepsBack
  <2>1. clock' \in Times
    BY <1>4, <1>t, <1>m DEF ClockStepsBack, Times
  <2>2. faults' \in 0..machine.faults
    <3>1. faults < machine.faults /\ faults' = faults + 1
      BY <1>4 DEF ClockStepsBack
    <3> QED
      BY <1>t, <1>m, <3>1
  <2> QED
    BY <1>4, <1>t, <2>1, <2>2, TypesKept DEF ClockStepsBack
<1>5. CASE PackageChanges
  <2>1. installed' \in [Families -> machine.versions]
    BY <1>5, <1>t DEF PackageChanges
  <2> QED
    BY <1>5, <1>t, <2>1, TypesKept DEF PackageChanges
<1> QED
    BY <1>1, <1>2, <1>3, <1>4, <1>5 DEF WorldStep

LEMMA ScansStartTyped == ScanInit => ScanTypes
<1> SUFFICES ASSUME ScanInit PROVE ScanTypes
    OBVIOUS
<1>1. machine \in Machines
    BY DEF ScanInit
<1>2. machine.maxTime \in Nat /\ machine.faults \in Nat /\ 0 \in Times
    BY <1>1, TimesAreNumbers
<1>3. clock \in Times
    BY <1>2 DEF ScanInit, Times
<1>4. scanner \in [Scanners -> ScanRuns]
    BY <1>1, IdleScanIsTyped DEF ScanInit
<1>5. pointer \in Pointers
    BY <1>2 DEF ScanInit, Pointer, Pointers
<1>6. committed \in Seq(Times)
    BY DEF ScanInit
<1>7. running \in [Processes -> BOOLEAN] /\ scanMutex \in Scanners \union {NoScanner}
    BY DEF ScanInit
<1>8. faults \in 0..machine.faults /\ installed \in [Families -> machine.versions]
    BY <1>2 DEF ScanInit
<1>9. gens \subseteq Snapshots /\ proven \subseteq Times \X Families \X AnyProduct
    BY DEF ScanInit
<1> QED
    BY <1>1, <1>3, <1>4, <1>5, <1>6, <1>7, <1>8, <1>9 DEF ScanTypes

-----------------------------------------------------------------------------
(* The mutex, the repository and the evidence. *)

LEMMA MutexHolderWorks ==
    ASSUME Exclusive, NEW s \in Scanners, scanner[s].pc \in Working,
           NEW t \in Scanners, scanner[t].pc \in Working
    PROVE  t = s
    BY DEF Exclusive

LEMMA ScannerKeepsExclusion ==
    ASSUME ScanTypes, Exclusive, NEW s \in Scanners, ScannerStep(s)
    PROVE  Exclusive'
<1> USE DEF Working, ScanPCs
<1>0. NoScanner \notin Scanners /\ scanMutex \in Scanners \union {NoScanner} /\ machine \in Machines
    BY ScanAssumption DEF ScanTypes
<1>w. \A t \in Scanners : scanMutex = t <=> scanner[t].pc \in Working
    BY DEF Exclusive
<1>1. CASE Begin(s)
  <2>1. scanner[s].pc = "idle" /\ scanMutex' = scanMutex /\ OnlyMoves(s) /\ scanner'[s].pc = "locking"
    BY <1>1, PlaceMoves DEF Begin
  <2> QED
    BY <1>w, <2>1 DEF OnlyMoves, Exclusive
<1>2. CASE Lock(s)
  <2>1. scanner[s].pc = "locking" /\ OnlyMoves(s)
    BY <1>2, LockMoves DEF Lock
  <2>2. CASE scanMutex' = s /\ scanMutex = NoScanner /\ scanner'[s].pc = "collecting"
    BY <1>0, <1>w, <2>1, <2>2 DEF OnlyMoves, Exclusive
  <2>3. CASE scanMutex' = scanMutex /\ scanner'[s] = IdleScan
    BY <1>0, <1>w, <2>1, <2>3, IdleScanIsTyped DEF OnlyMoves, Exclusive
  <2> QED
    BY <1>2, <2>2, <2>3, LockMoves
<1>3. CASE Collect(s)
  <2>1. scanner[s].pc \in Working /\ scanMutex' = scanMutex
    BY <1>3 DEF Collect
  <2>2. OnlyMoves(s) /\ scanner'[s].pc \in Working
    BY <1>3, CollectMoves
  <2> QED
    BY <1>w, <2>1, <2>2 DEF OnlyMoves, Exclusive
<1>4. CASE Check(s)
  <2>1. scanner[s].pc \in Working /\ scanMutex' = scanMutex
    BY <1>4 DEF Check
  <2>2. OnlyMoves(s) /\ scanner'[s].pc \in Working
    BY <1>4, CheckConcludes, ConcludeMoves
  <2> QED
    BY <1>w, <2>1, <2>2 DEF OnlyMoves, Exclusive
<1>5. CASE Abort(s)
  <2>1. scanner[s].pc \in Working /\ scanMutex' = scanMutex
    BY <1>5 DEF Abort
  <2>2. OnlyMoves(s) /\ scanner'[s].pc \in Working
    BY <1>5, PlaceMoves DEF Abort
  <2> QED
    BY <1>w, <2>1, <2>2 DEF OnlyMoves, Exclusive
<1>6. CASE WriteGeneration(s)
  <2>1. scanner[s].pc \in Working /\ scanMutex' = scanMutex
    BY <1>6 DEF WriteGeneration
  <2>2. OnlyMoves(s) /\ scanner'[s].pc \in Working
    BY <1>6, WriteMoves
  <2> QED
    BY <1>w, <2>1, <2>2 DEF OnlyMoves, Exclusive
<1>7. CASE ReplacePointer(s)
  <2>1. scanner[s].pc \in Working /\ scanMutex' = scanMutex
    BY <1>7 DEF ReplacePointer
  <2>2. OnlyMoves(s) /\ scanner'[s].pc \in Working
    BY <1>7, PlaceMoves DEF ReplacePointer
  <2> QED
    BY <1>w, <2>1, <2>2 DEF OnlyMoves, Exclusive
<1>8. CASE PointerFails(s)
  <2>1. scanner[s].pc \in Working /\ scanMutex' = scanMutex
    BY <1>8 DEF PointerFails
  <2>2. OnlyMoves(s) /\ scanner'[s].pc \in Working
    BY <1>8, PlaceMoves DEF PointerFails
  <2> QED
    BY <1>w, <2>1, <2>2 DEF OnlyMoves, Exclusive
<1>9. CASE Prune(s)
  <2>1. scanner[s].pc \in Working /\ scanMutex' = scanMutex
    BY <1>9 DEF Prune
  <2>2. OnlyMoves(s) /\ scanner'[s].pc \in Working
    BY <1>9, PlaceMoves DEF Prune
  <2> QED
    BY <1>w, <2>1, <2>2 DEF OnlyMoves, Exclusive
<1>10. CASE Release(s)
  <2>1. scanner[s].pc \in Working /\ scanMutex' = NoScanner
    BY <1>10 DEF Release
  <2>2. OnlyMoves(s) /\ scanner'[s].pc = "idle"
    BY <1>0, <1>10, IdleScanIsTyped, RunReplaced DEF Release
  <2> QED
    BY <1>0, <1>w, <2>1, <2>2 DEF OnlyMoves, Exclusive
<1> QED
    BY <1>1, <1>2, <1>3, <1>4, <1>5, <1>6, <1>7, <1>8, <1>9, <1>10 DEF ScannerStep

LEMMA WorldKeepsExclusion ==
    ASSUME ScanTypes, Exclusive, WorldStep
    PROVE  Exclusive'
<1>0. NoScanner \notin Scanners /\ scanMutex \in Scanners \union {NoScanner} /\ machine \in Machines
    BY ScanAssumption DEF ScanTypes
<1>1. ASSUME NEW p \in Processes, Crash(p) PROVE Exclusive'
  <2>1. IdleScan.pc \notin Working
    BY <1>0, IdleScanIsTyped DEF Working
  <2> QED
    BY <1>0, <1>1, <2>1, CrashMoves DEF Exclusive
<1>2. CASE UNCHANGED <<scanMutex, scanner>>
    BY <1>2 DEF Exclusive
<1> QED
    BY <1>1, <1>2 DEF WorldStep, DamageGeneration, DamagePointer, ClockStepsBack, PackageChanges

\* Steps that leave the files and the pointer alone, and bring no scan to the
\* commit or between its start and its commit.
LEMMA RepositoryKept ==
    ASSUME Repository, gens' = gens, pointer' = pointer, committed' = committed,
           \A t \in Scanners : scanner'[t].pc # "committing" \/ scanner'[t] = scanner[t]
    PROVE  Repository'
    BY DEF Repository, LastCommitted

LEMMA ScannerKeepsRepository ==
    ASSUME ScanTypes, Exclusive, Repository, NEW s \in Scanners, ScannerStep(s)
    PROVE  Repository'
<1>0. scanner[s].pc \in Working =>
        \A t \in Scanners : t # s => scanner[t].pc # "committing"
    BY MutexHolderWorks DEF Working
<1>t. machine \in Machines /\ committed \in Seq(Times) /\ gens \subseteq Snapshots
    BY DEF ScanTypes
<1>1. CASE Begin(s)
  <2>1. OnlyMoves(s) /\ scanner'[s].pc = "locking"
    BY <1>1, PlaceMoves DEF Begin, ScanPCs
  <2> QED
    BY <1>1, <2>1, RepositoryKept DEF Begin, OnlyMoves
<1>2. CASE Lock(s)
  <2>1. OnlyMoves(s) /\ scanner'[s].pc # "committing"
    BY <1>2, <1>t, LockMoves, IdleScanIsTyped
  <2> QED
    BY <1>2, <2>1, RepositoryKept DEF Lock, OnlyMoves
<1>3. CASE Collect(s)
  <2>1. OnlyMoves(s) /\ scanner'[s].pc = "checking"
    BY <1>3, CollectMoves
  <2> QED
    BY <1>3, <2>1, RepositoryKept DEF Collect, OnlyMoves
<1>4. CASE Check(s)
  <2>1. OnlyMoves(s) /\ scanner'[s].pc = "persisting"
    BY <1>4, CheckConcludes, ConcludeMoves
  <2> QED
    BY <1>4, <2>1, RepositoryKept DEF Check, OnlyMoves
<1>5. CASE Abort(s)
  <2>1. OnlyMoves(s) /\ scanner'[s].pc = "releasing"
    BY <1>5, PlaceMoves DEF Abort, ScanPCs
  <2> QED
    BY <1>5, <2>1, RepositoryKept DEF Abort, OnlyMoves
<1>6. CASE WriteGeneration(s)
  <2>0. pointer' = pointer /\ committed' = committed /\ scanner[s].pc \in Working
    BY <1>6 DEF WriteGeneration, Working
  <2>1. CASE scanner'[s].pc = "releasing" /\ gens' = gens
    BY <1>6, <2>0, <2>1, WriteMoves, RepositoryKept DEF OnlyMoves
  <2>2. CASE /\ \A g \in gens : g.scan # scanner[s].result.scan
             /\ \E g \in Snapshots :
                  /\ gens' = gens \union {g}
                  /\ g.scan = scanner[s].result.scan
    <3>1. PICK g \in Snapshots : gens' = gens \union {g} /\ g.scan = scanner[s].result.scan
      BY <2>2
    <3>2. \A h, k \in gens' : h.scan = k.scan => h = k
      BY <2>2, <3>1 DEF Repository
    <3>3. /\ pointer'.state = "ok" =>
               /\ committed' # << >> /\ pointer'.scan = LastCommitted'
               /\ \E h \in gens' : h.scan = pointer'.scan
      BY <2>0, <3>1 DEF Repository, LastCommitted
    <3>4. ASSUME NEW t \in Scanners, scanner'[t].pc = "committing"
          PROVE  \E h \in gens' : h.scan = scanner'[t].result.scan
      <4>1. t = s
        BY <1>6, <1>0, <2>0, <3>4, WriteMoves DEF OnlyMoves
      <4> QED
        BY <1>6, <3>1, <4>1, WriteMoves
    <3> QED
      BY <3>2, <3>3, <3>4 DEF Repository
  <2> QED
    BY <1>6, <2>1, <2>2, WriteMoves
<1>7. CASE ReplacePointer(s)
  <2> DEFINE new == scanner[s].result.scan
  <2>1. /\ pointer' = Pointer("ok", new) /\ committed' = Append(committed, new) /\ gens' = gens
        /\ scanner[s].pc = "committing"
    BY <1>7 DEF ReplacePointer
  <2>2. OnlyMoves(s) /\ scanner'[s].pc = "pruning"
    BY <1>7, PlaceMoves DEF ReplacePointer, ScanPCs
  <2>3. new \in Times
    BY DEF ScanTypes, ScanRuns, Snapshots
  <2>4. committed' # << >> /\ LastCommitted' = new
    BY <1>t, <2>1, <2>3 DEF LastCommitted
  <2>5. \E g \in gens' : g.scan = new
    BY <2>1 DEF Repository
  <2>6. \A t \in Scanners : scanner'[t].pc # "committing"
    BY <1>0, <2>1, <2>2 DEF OnlyMoves, Working
  <2>7. pointer'.scan = new
    BY <2>1 DEF Pointer
  <2> QED
    BY <2>1, <2>4, <2>5, <2>6, <2>7 DEF Repository
<1>8. CASE PointerFails(s)
  <2>1. /\ pointer' = pointer /\ committed' = committed /\ scanner[s].pc = "committing"
    BY <1>8 DEF PointerFails
  <2>2. OnlyMoves(s) /\ scanner'[s].pc = "releasing"
    BY <1>8, PlaceMoves DEF PointerFails, ScanPCs
  <2>3. \A t \in Scanners : scanner'[t].pc # "committing"
    BY <1>0, <2>1, <2>2 DEF OnlyMoves, Working
  <2>4. /\ \A g, h \in gens' : g.scan = h.scan => g = h
        /\ \A g \in gens : \E h \in gens' : h.scan = g.scan
    BY <1>8, PointerFailsKeepsFiles DEF FilesKept, SameFile, Repository
  <2> QED
    BY <2>1, <2>3, <2>4 DEF Repository, LastCommitted
<1>9. CASE Prune(s)
  <2>1. /\ pointer' = pointer /\ committed' = committed /\ scanner[s].pc = "pruning"
    BY <1>9 DEF Prune
  <2>2. OnlyMoves(s) /\ scanner'[s].pc = "releasing"
    BY <1>9, PlaceMoves DEF Prune, ScanPCs
  <2>3. \A t \in Scanners : scanner'[t].pc # "committing"
    BY <1>0, <2>1, <2>2 DEF OnlyMoves, Working
  <2>4. /\ gens' \subseteq gens
        /\ \A g \in gens : pointer.state = "ok" /\ g.scan = pointer.scan => g \in gens'
    BY <1>9, PruneKeepsPointed
  <2> QED
    BY <2>1, <2>3, <2>4 DEF Repository, LastCommitted
<1>10. CASE Release(s)
  <2>1. OnlyMoves(s) /\ scanner'[s].pc = "idle"
    BY <1>t, <1>10, IdleScanIsTyped, RunReplaced DEF Release
  <2> QED
    BY <1>10, <2>1, RepositoryKept DEF Release, OnlyMoves
<1> QED
    BY <1>1, <1>2, <1>3, <1>4, <1>5, <1>6, <1>7, <1>8, <1>9, <1>10 DEF ScannerStep

LEMMA WorldKeepsRepository ==
    ASSUME ScanTypes, Repository, WorldStep
    PROVE  Repository'
<1>1. ASSUME NEW p \in Processes, Crash(p) PROVE Repository'
  <2>1. \A t \in Scanners : scanner'[t] = scanner[t] \/ scanner'[t].pc = "idle"
    BY <1>1, CrashMoves, IdleScanIsTyped DEF ScanTypes
  <2> QED
    BY <1>1, <2>1, RepositoryKept DEF Crash
<1>2. CASE DamageGeneration
  <2>1. /\ \A g, h \in gens' : g.scan = h.scan => g = h
        /\ \A g \in gens : \E h \in gens' : h.scan = g.scan
    BY <1>2, DamageKeepsFiles DEF FilesKept, SameFile, Repository
  <2>2. UNCHANGED <<pointer, committed, scanner>>
    BY <1>2 DEF DamageGeneration
  <2> QED
    BY <2>1, <2>2 DEF Repository, LastCommitted
<1>3. CASE DamagePointer
  <2>1. pointer'.state # "ok" /\ UNCHANGED <<gens, committed, scanner>>
    BY <1>3 DEF DamagePointer, Pointer
  <2> QED
    BY <2>1 DEF Repository
<1>4. CASE ClockStepsBack \/ PackageChanges
    BY <1>4, RepositoryKept DEF ClockStepsBack, PackageChanges
<1> QED
    BY <1>1, <1>2, <1>3, <1>4 DEF WorldStep

\* Between its start and its commit, only a scan's own steps touch what it read.
LEMMA BaseKept ==
    ASSUME BaseIsPointed, pointer' = pointer,
           \A h \in gens' : ~h.damaged /\ pointer.state = "ok" /\ h.scan = pointer.scan => h \in gens,
           \A t \in Scanners : \/ scanner'[t].pc \notin {"checking", "persisting", "committing"}
                               \/ /\ scanner[t].pc \in {"checking", "persisting", "committing"}
                                  /\ scanner'[t].base = scanner[t].base
    PROVE  BaseIsPointed'
    BY DEF BaseIsPointed, Pointed

LEMMA ScannerKeepsBase ==
    ASSUME ScanTypes, Exclusive, Repository, BaseIsPointed, NEW s \in Scanners, ScannerStep(s)
    PROVE  BaseIsPointed'
<1>0. scanner[s].pc \in Working =>
        \A t \in Scanners : t # s => scanner[t].pc \notin {"checking", "persisting", "committing"}
    BY MutexHolderWorks DEF Working
<1>t. machine \in Machines /\ pointer \in Pointers
    BY DEF ScanTypes
<1>1. CASE Begin(s)
  <2>1. OnlyMoves(s) /\ scanner'[s].pc = "locking"
    BY <1>1, PlaceMoves DEF Begin, ScanPCs
  <2> QED
    BY <1>1, <2>1, BaseKept DEF Begin, OnlyMoves
<1>2. CASE Lock(s)
  <2>1. OnlyMoves(s) /\ scanner'[s].pc \in {"collecting", "idle"}
    BY <1>2, <1>t, LockMoves, IdleScanIsTyped
  <2> QED
    BY <1>2, <2>1, BaseKept DEF Lock, OnlyMoves
<1>3. CASE Collect(s)
  <2>1. /\ OnlyMoves(s) /\ scanner'[s].base = LoadLatestPublished.snap
        /\ UNCHANGED <<gens, pointer>> /\ scanner[s].pc \in Working
    BY <1>3, CollectMoves DEF Collect, Working
  <2>2. ASSUME NEW g \in gens, Pointed(g) PROVE scanner'[s].base.scan = pointer.scan
    BY <1>t, <2>1, <2>2, LoadsFollowThePointer DEF LoadLatestPublished, Pointed
  <2> QED
    BY <1>0, <2>1, <2>2 DEF BaseIsPointed, OnlyMoves, Pointed
<1>4. CASE Check(s)
  <2>1. OnlyMoves(s) /\ scanner'[s].base = scanner[s].base
    BY <1>4, CheckConcludes, ConcludeMoves
  <2> QED
    BY <1>4, <2>1, BaseKept DEF Check, OnlyMoves
<1>5. CASE Abort(s)
  <2>1. OnlyMoves(s) /\ scanner'[s].pc = "releasing"
    BY <1>5, PlaceMoves DEF Abort, ScanPCs
  <2> QED
    BY <1>5, <2>1, BaseKept DEF Abort, OnlyMoves
<1>6. CASE WriteGeneration(s)
  <2>1. /\ OnlyMoves(s) /\ scanner[s].pc = "persisting" /\ scanner'[s].base = scanner[s].base
        /\ pointer' = pointer
    BY <1>6, WriteMoves DEF WriteGeneration
  <2>2. CASE gens' = gens
    BY <2>1, <2>2, BaseKept DEF OnlyMoves
  <2>3. CASE /\ \A g \in gens : g.scan # scanner[s].result.scan
             /\ \E g \in Snapshots : gens' = gens \union {g} /\ g.scan = scanner[s].result.scan
    <3>1. PICK g \in Snapshots : gens' = gens \union {g} /\ g.scan = scanner[s].result.scan
      BY <2>3
    <3>2. pointer.state = "ok" => g.scan # pointer.scan
      BY <2>3, <3>1 DEF Repository
    <3> QED
      BY <2>1, <3>1, <3>2, BaseKept DEF OnlyMoves
  <2> QED
    BY <1>6, <2>2, <2>3, WriteMoves
<1>7. CASE ReplacePointer(s)
  <2>1. OnlyMoves(s) /\ scanner'[s].pc = "pruning" /\ scanner[s].pc \in Working
    BY <1>7, PlaceMoves DEF ReplacePointer, ScanPCs, Working
  <2> QED
    BY <1>0, <2>1 DEF BaseIsPointed, OnlyMoves
<1>8. CASE PointerFails(s)
  <2>1. OnlyMoves(s) /\ scanner'[s].pc = "releasing" /\ scanner[s].pc \in Working
    BY <1>8, PlaceMoves DEF PointerFails, ScanPCs, Working
  <2> QED
    BY <1>0, <2>1 DEF BaseIsPointed, OnlyMoves
<1>9. CASE Prune(s)
  <2>1. OnlyMoves(s) /\ scanner'[s].pc = "releasing" /\ scanner[s].pc \in Working
    BY <1>9, PlaceMoves DEF Prune, ScanPCs, Working
  <2> QED
    BY <1>0, <2>1 DEF BaseIsPointed, OnlyMoves
<1>10. CASE Release(s)
  <2>1. OnlyMoves(s) /\ scanner'[s].pc = "idle"
    BY <1>t, <1>10, IdleScanIsTyped, RunReplaced DEF Release
  <2> QED
    BY <1>10, <2>1, BaseKept DEF Release, OnlyMoves
<1> QED
    BY <1>1, <1>2, <1>3, <1>4, <1>5, <1>6, <1>7, <1>8, <1>9, <1>10 DEF ScannerStep

LEMMA WorldKeepsBase ==
    ASSUME ScanTypes, BaseIsPointed, WorldStep
    PROVE  BaseIsPointed'
<1>1. ASSUME NEW p \in Processes, Crash(p) PROVE BaseIsPointed'
  <2>1. \A t \in Scanners : scanner'[t] = scanner[t] \/ scanner'[t].pc = "idle"
    BY <1>1, CrashMoves, IdleScanIsTyped DEF ScanTypes
  <2> QED
    BY <1>1, <2>1, BaseKept DEF Crash
<1>2. CASE DamageGeneration
  <2>1. \A h \in gens' : ~h.damaged => h \in gens
    BY <1>2, DamageKeepsFiles
  <2> QED
    BY <1>2, <2>1, BaseKept DEF DamageGeneration
<1>3. CASE DamagePointer
  <2>1. pointer'.state # "ok" /\ scanner' = scanner
    BY <1>3 DEF DamagePointer, Pointer
  <2> QED
    BY <2>1 DEF BaseIsPointed, Pointed
<1>4. CASE ClockStepsBack \/ PackageChanges
    BY <1>4, BaseKept DEF ClockStepsBack, PackageChanges
<1> QED
    BY <1>1, <1>2, <1>3, <1>4 DEF WorldStep

\* Only a conclusion makes a result, and adds to what is proven.
LEMMA OnlyChecksConclude ==
    ASSUME ScanTypes, NEW s \in Scanners, ScannerStep(s), ~Check(s)
    PROVE  /\ OnlyMoves(s) /\ scanner'[s].pc # "persisting" /\ proven' = proven
           /\ \/ scanner'[s] = IdleScan
              \/ SameFile(scanner[s].result, scanner'[s].result)
<1> USE DEF SameFile, ScanPCs
<1>t. machine \in Machines
    BY DEF ScanTypes
<1>1. CASE Begin(s)
    BY <1>1, PlaceMoves DEF Begin
<1>2. CASE Lock(s)
    BY <1>2, <1>t, LockMoves, IdleScanIsTyped DEF Lock
<1>3. CASE Collect(s)
    BY <1>3, CollectMoves DEF Collect
<1>5. CASE Abort(s)
    BY <1>5, PlaceMoves DEF Abort
<1>6. CASE WriteGeneration(s)
    BY <1>6, WriteMoves DEF WriteGeneration
<1>7. CASE ReplacePointer(s)
    BY <1>7, PlaceMoves DEF ReplacePointer
<1>8. CASE PointerFails(s)
    BY <1>8, PlaceMoves DEF PointerFails
<1>9. CASE Prune(s)
    BY <1>9, PlaceMoves DEF Prune
<1>10. CASE Release(s)
    BY <1>10, <1>t, IdleScanIsTyped, RunReplaced DEF Release
<1> QED
    BY <1>1, <1>2, <1>3, <1>5, <1>6, <1>7, <1>8, <1>9, <1>10 DEF ScannerStep

\* A generation says what one was saying already, or what a scan had concluded.
LEMMA FilesComeFromScans ==
    ASSUME ScanTypes, ScanNext
    PROVE  \A h \in gens' : \/ \E g \in gens : SameFile(g, h)
                            \/ \E s \in Scanners : SameFile(scanner[s].result, h)
<1> USE DEF SameFile
<1>1. CASE gens' \subseteq gens
    BY <1>1
<1>2. ASSUME NEW s \in Scanners, WriteGeneration(s)
      PROVE  \A h \in gens' : h \in gens \/ SameFile(scanner[s].result, h)
    BY <1>2, WriteMoves
<1>3. ASSUME NEW s \in Scanners, PointerFails(s)
      PROVE  \A h \in gens' : \E g \in gens : SameFile(g, h)
    BY <1>3, PointerFailsKeepsFiles DEF FilesKept
<1>4. CASE DamageGeneration
    BY <1>4, DamageKeepsFiles DEF FilesKept
<1>5. ASSUME NEW s \in Scanners, ScannerStep(s), ~WriteGeneration(s), ~PointerFails(s)
      PROVE  gens' \subseteq gens
    BY <1>5, PruneKeepsPointed DEF ScannerStep, Begin, Lock, Collect, Check, Abort, ReplacePointer, Release
<1>6. ASSUME WorldStep, ~DamageGeneration PROVE gens' \subseteq gens
    BY <1>6 DEF WorldStep, Crash, DamagePointer, ClockStepsBack, PackageChanges
<1> QED
    BY <1>1, <1>2, <1>3, <1>4, <1>5, <1>6 DEF ScanNext

LEMMA ProvenGrows ==
    ASSUME ScanTypes, ScanNext
    PROVE  proven \subseteq proven'
<1>1. ASSUME NEW s \in Scanners, ScannerStep(s) PROVE proven \subseteq proven'
  <2>1. CASE Check(s)
    BY <2>1, CheckConcludes, ConcludeMoves
  <2>2. CASE ~Check(s)
    BY <1>1, <2>2, OnlyChecksConclude
  <2> QED
    BY <2>1, <2>2
<1>2. WorldStep => proven' = proven
    BY DEF WorldStep, Crash, DamageGeneration, DamagePointer, ClockStepsBack, PackageChanges
<1> QED
    BY <1>1, <1>2 DEF ScanNext

LEMMA OwnOffersKept ==
    ASSUME NEW g, OwnOffers(g), proven \subseteq proven', NEW h, SameFile(g, h)
    PROVE  \A f \in DOMAIN h.assess :
             h.assess[f].state = "available" /\ ~h.assess[f].stale
               => <<h.scan, f, h.assess[f].product>> \in proven'
    BY DEF OwnOffers, SameFile

LEMMA NextKeepsOffers ==
    ASSUME ScanTypes, OffersAreProven, ScanNext
    PROVE  OffersAreProven'
<1>t. machine \in Machines /\ proven \subseteq proven'
    BY ProvenGrows DEF ScanTypes
<1>1. \A h \in gens' : OwnOffers(h)'
  <2> SUFFICES ASSUME NEW h \in gens'
               PROVE  \A f \in DOMAIN h.assess :
                        h.assess[f].state = "available" /\ ~h.assess[f].stale
                          => <<h.scan, f, h.assess[f].product>> \in proven'
    BY DEF OwnOffers
  <2>1. CASE \E g \in gens : SameFile(g, h)
    BY <1>t, <2>1, OwnOffersKept DEF OffersAreProven
  <2>2. CASE \E s \in Scanners : SameFile(scanner[s].result, h)
    BY <1>t, <2>2, OwnOffersKept DEF OffersAreProven
  <2> QED
    BY <2>1, <2>2, FilesComeFromScans
<1>i. DOMAIN IdleScan.result.assess = {}
    BY <1>t, IdleScanIsTyped, NoSnapshotIsTyped
<1>2. ASSUME NEW t \in Scanners,
             scanner'[t] = IdleScan \/ SameFile(scanner[t].result, scanner'[t].result)
      PROVE  OwnOffers(scanner[t].result)'
  <2>1. CASE scanner'[t] = IdleScan
    BY <1>i, <2>1 DEF OwnOffers
  <2>2. CASE SameFile(scanner[t].result, scanner'[t].result)
    BY <1>t, <2>2, OwnOffersKept DEF OffersAreProven, OwnOffers
  <2> QED
    BY <1>2, <2>1, <2>2
<1>3. ASSUME NEW s \in Scanners, ScannerStep(s), NEW t \in Scanners
      PROVE  OwnOffers(scanner[t].result)'
  <2>1. CASE t # s
    <3>1. scanner'[t] = scanner[t]
      BY <1>3, <2>1, CheckConcludes, ConcludeMoves, OnlyChecksConclude DEF OnlyMoves
    <3> QED
      BY <1>2, <3>1 DEF SameFile
  <2>2. CASE t = s /\ ~Check(s)
    BY <1>2, <1>3, <2>2, OnlyChecksConclude
  <2>3. CASE t = s /\ Check(s)
    <3>1. Concluded(s)
      BY <2>3, CheckConcludes, ConcludeMoves
    <3> QED
      BY <2>3, <3>1 DEF Concluded, OwnOffers
  <2> QED
    BY <2>1, <2>2, <2>3
<1>4. ASSUME WorldStep, NEW t \in Scanners
      PROVE  OwnOffers(scanner[t].result)'
  <2>1. scanner'[t] = scanner[t] \/ scanner'[t] = IdleScan
    BY <1>4, CrashMoves
       DEF WorldStep, DamageGeneration, DamagePointer, ClockStepsBack, PackageChanges
  <2> QED
    BY <1>2, <2>1 DEF SameFile
<1> QED
    BY <1>1, <1>3, <1>4 DEF ScanNext, OffersAreProven

LEMMA NextKeepsVerdicts ==
    ASSUME ScanTypes, CurrentIsEarned, PositiveSurvivesIncompleteScan, ScanNext
    PROVE  CurrentIsEarned' /\ PositiveSurvivesIncompleteScan'
<1>t. machine \in Machines /\ proven \subseteq proven'
    BY ProvenGrows DEF ScanTypes
<1> DEFINE Verdict(run, known) ==
             run.pc = "persisting" =>
               /\ \A f \in DOMAIN run.result.assess :
                    run.result.assess[f].state = "current" => run.result.status = "completed"
               /\ run.result.status # "completed" =>
                    \A f \in DOMAIN run.seen \intersect DOMAIN run.base.assess :
                      run.base.assess[f].state = "available" =>
                        /\ f \in DOMAIN run.result.assess
                        /\ run.result.assess[f].state \in {"available", "conflict", "pending"}
                        /\ run.result.assess[f].state = "available" /\ ~run.result.assess[f].stale
                             => <<run.scan, f, run.result.assess[f].product>> \in known
<1>1. \A t \in Scanners : Verdict(scanner[t], proven)
    BY DEF CurrentIsEarned, PositiveSurvivesIncompleteScan
<1>2. SUFFICES \A t \in Scanners : Verdict(scanner'[t], proven')
    BY <1>2 DEF CurrentIsEarned, PositiveSurvivesIncompleteScan
<1>3. ASSUME NEW t \in Scanners, scanner'[t] = scanner[t] \/ scanner'[t].pc # "persisting"
      PROVE  Verdict(scanner'[t], proven')
    BY <1>t, <1>1, <1>3
<1>4. ASSUME NEW s \in Scanners, ScannerStep(s), NEW t \in Scanners
      PROVE  Verdict(scanner'[t], proven')
  <2>1. CASE t # s \/ ~Check(s)
    <3>1. scanner'[t] = scanner[t] \/ scanner'[t].pc # "persisting"
      BY <1>4, <2>1, CheckConcludes, ConcludeMoves, OnlyChecksConclude DEF OnlyMoves
    <3> QED
      BY <1>3, <3>1
  <2>2. CASE t = s /\ Check(s)
    <3>1. Concluded(s) /\ scanner'[s].result.scan = scanner'[s].scan /\ scanner'[s].base = scanner[s].base
      BY <2>2, CheckConcludes, ConcludeMoves
    <3> QED
      BY <2>2, <3>1 DEF Concluded
  <2> QED
    BY <2>1, <2>2
<1>5. ASSUME WorldStep, NEW t \in Scanners
      PROVE  Verdict(scanner'[t], proven')
  <2>1. scanner'[t] = scanner[t] \/ scanner'[t].pc = "idle"
    BY <1>t, <1>5, CrashMoves, IdleScanIsTyped
       DEF WorldStep, DamageGeneration, DamagePointer, ClockStepsBack, PackageChanges
  <2> QED
    BY <1>3, <2>1
<1> QED
    BY <1>4, <1>5 DEF ScanNext

LEMMA ScansStart == ScanInit => ScanInvariant
<1> SUFFICES ASSUME ScanInit PROVE ScanInvariant
    OBVIOUS
<1>1. ScanTypes
    BY ScansStartTyped
<1>2. /\ machine \in Machines /\ scanMutex = NoScanner /\ gens = {}
      /\ pointer.state = "missing" /\ \A s \in Scanners : scanner[s] = IdleScan
    BY DEF ScanInit, Pointer
<1>3. /\ IdleScan.pc = "idle" /\ DOMAIN IdleScan.result.assess = {}
    BY <1>2, IdleScanIsTyped, NoSnapshotIsTyped
<1>4. Exclusive
    BY <1>2, <1>3, ScanAssumption DEF Exclusive, Working
<1>5. Repository /\ BaseIsPointed
    BY <1>2, <1>3 DEF Repository, BaseIsPointed
<1>6. OffersAreProven
    BY <1>2, <1>3 DEF OffersAreProven, OwnOffers
<1>7. CurrentIsEarned /\ PositiveSurvivesIncompleteScan
    BY <1>2, <1>3 DEF CurrentIsEarned, PositiveSurvivesIncompleteScan
<1> QED
    BY <1>1, <1>4, <1>5, <1>6, <1>7 DEF ScanInvariant

LEMMA ScansKeepInvariant ==
    ASSUME ScanInvariant, ScanNext
    PROVE  ScanInvariant'
<1>0. /\ ScanTypes /\ Exclusive /\ Repository /\ BaseIsPointed /\ OffersAreProven
      /\ CurrentIsEarned /\ PositiveSurvivesIncompleteScan
    BY DEF ScanInvariant
<1>1. ScanTypes' /\ Exclusive' /\ Repository' /\ BaseIsPointed'
  <2>1. CASE WorldStep
    BY <1>0, <2>1, WorldKeepsTypes, WorldKeepsExclusion, WorldKeepsRepository, WorldKeepsBase
  <2>2. ASSUME NEW s \in Scanners, ScannerStep(s)
        PROVE  ScanTypes' /\ Exclusive' /\ Repository' /\ BaseIsPointed'
    BY <1>0, <2>2, ScannerKeepsTypes, ScannerKeepsExclusion, ScannerKeepsRepository, ScannerKeepsBase
  <2> QED
    BY <2>1, <2>2 DEF ScanNext
<1>2. OffersAreProven' /\ CurrentIsEarned' /\ PositiveSurvivesIncompleteScan'
    BY <1>0, NextKeepsOffers, NextKeepsVerdicts
<1> QED
    BY <1>1, <1>2 DEF ScanInvariant

LEMMA ScansStutter ==
    ASSUME ScanInvariant, UNCHANGED scanVars
    PROVE  ScanInvariant'
<1>1. ScanTypes'
    BY TypesKept DEF ScanInvariant, ScanTypes, scanVars
<1>2. Exclusive' /\ Repository' /\ BaseIsPointed'
    BY DEF ScanInvariant, scanVars, Exclusive, Repository, BaseIsPointed, Pointed, LastCommitted
<1>3. OffersAreProven' /\ CurrentIsEarned' /\ PositiveSurvivesIncompleteScan'
    BY DEF ScanInvariant, scanVars, OffersAreProven, OwnOffers, CurrentIsEarned,
           PositiveSurvivesIncompleteScan
<1> QED
    BY <1>1, <1>2, <1>3 DEF ScanInvariant

-----------------------------------------------------------------------------
(* The updates. *)

OnlyUpdates(u) ==
    /\ updater' \in [Updaters -> UpdateRuns]
    /\ \A w \in Updaters : w # u => updater'[w] = updater[w]

LEMMA UpdateReplaced ==
    ASSUME UpdateTypes, NEW u \in Updaters, NEW r \in UpdateRuns, updater' = [updater EXCEPT ![u] = r]
    PROVE  OnlyUpdates(u) /\ updater'[u] = r
    BY DEF UpdateTypes, OnlyUpdates

LEMMA IdleUpdateIsTyped ==
    ASSUME machine \in Machines
    PROVE  /\ NoRequest \in Requests /\ IdleUpdate \in UpdateRuns
           /\ IdleUpdate.pc = "idle" /\ IdleUpdate.result = "none"
<1>1. 0 \in Times
    BY TimesAreNumbers
<1>2. NoRequest \in Requests
  <2> DEFINE any == CHOOSE f \in Families : TRUE
  <2>1. NoRequest = [family |-> any, scan |-> 0, product |-> NoProduct, offered |-> 0, assessed |-> 0]
    BY DEF NoRequest, Request
  <2>2. NoRequest.family = any
    BY <2>1
  <2> HIDE DEF any
  <2> QED
    BY <1>1, <2>1, <2>2 DEF Requests, AnyProduct
<1>3. Pointer("missing", 0) \in Pointers
    BY <1>1 DEF Pointer, Pointers
<1> QED
    BY <1>2, <1>3 DEF IdleUpdate, UpdateRuns, UpdatePCs, Versions, Results

LEMMA UpdatesChange ==
    ASSUME NEW r \in UpdateRuns, NEW pc \in UpdatePCs
    PROVE  /\ [r EXCEPT !.pc = pc] \in UpdateRuns
           /\ \A p \in Pointers : [r EXCEPT !.pc = pc, !.seen = p] \in UpdateRuns
           /\ \A late \in BOOLEAN : [r EXCEPT !.pc = pc, !.late = late] \in UpdateRuns
           /\ \A v \in Versions : /\ [r EXCEPT !.pc = pc, !.baseline = v] \in UpdateRuns
                                  /\ [r EXCEPT !.pc = pc, !.post = v] \in UpdateRuns
           /\ \A q \in Requests : [r EXCEPT !.pc = pc, !.request = q] \in UpdateRuns
           /\ \A q \in Requests, result \in Results :
                [r EXCEPT !.request = q, !.result = result] \in UpdateRuns
    BY DEF UpdateRuns

\* An update that ends keeps its request and its result.
LEMMA FinishMoves ==
    ASSUME UpdateTypes, machine \in Machines, NEW u \in Updaters, NEW result \in Results,
           Finish(u, result)
    PROVE  /\ OnlyUpdates(u) /\ updater'[u].pc = "idle" /\ updater'[u].result = result
           /\ updater'[u].request = updater[u].request
<1> DEFINE r == [IdleUpdate EXCEPT !.request = updater[u].request, !.result = result]
<1>1. updater[u].request \in Requests
    BY DEF UpdateTypes, UpdateRuns
<1>2. IdleUpdate \in UpdateRuns /\ IdleUpdate.pc = "idle"
    BY IdleUpdateIsTyped
<1>3. r \in UpdateRuns
    BY <1>1, <1>2, UpdatesChange DEF UpdatePCs
<1>4. r.pc = "idle" /\ r.result = result /\ r.request = updater[u].request
    BY <1>2 DEF UpdateRuns
<1>5. updater' = [updater EXCEPT ![u] = r]
    BY DEF Finish
<1> HIDE DEF r
<1> QED
    BY <1>3, <1>4, <1>5, UpdateReplaced

\* One that goes on changes its place, and one more field.
Goes(u, pc) ==
    /\ OnlyUpdates(u) /\ updater'[u].pc = pc /\ updater'[u].request = updater[u].request
    /\ updater'[u].result = updater[u].result

LEMMA ToMoves ==
    ASSUME UpdateTypes, NEW u \in Updaters, NEW pc \in UpdatePCs, To(u, pc)
    PROVE  Goes(u, pc) /\ updater'[u].baseline = updater[u].baseline
<1> DEFINE r == [updater[u] EXCEPT !.pc = pc]
<1>1. updater[u] \in UpdateRuns
    BY DEF UpdateTypes
<1>2. r \in UpdateRuns /\ updater' = [updater EXCEPT ![u] = r]
    BY <1>1, UpdatesChange DEF To
<1>3. /\ r.pc = pc /\ r.request = updater[u].request /\ r.result = updater[u].result
      /\ r.baseline = updater[u].baseline
    BY <1>1 DEF UpdateRuns
<1> HIDE DEF r
<1> QED
    BY <1>2, <1>3, UpdateReplaced DEF Goes

LEMMA ReadMoves ==
    ASSUME UpdateTypes, NEW u \in Updaters, NEW p \in Pointers,
           updater' = [updater EXCEPT ![u].pc = "authorizing", ![u].seen = p]
    PROVE  Goes(u, "authorizing")
<1> DEFINE r == [updater[u] EXCEPT !.pc = "authorizing", !.seen = p]
<1>1. updater[u] \in UpdateRuns
    BY DEF UpdateTypes
<1>2. r \in UpdateRuns
    BY <1>1, UpdatesChange DEF UpdatePCs
<1>3. updater' = [updater EXCEPT ![u] = r]
    BY <1>1 DEF UpdateTypes
<1>4. r.pc = "authorizing" /\ r.request = updater[u].request /\ r.result = updater[u].result
    BY <1>1 DEF UpdateRuns
<1> HIDE DEF r
<1> QED
    BY <1>2, <1>3, <1>4, UpdateReplaced DEF Goes

LEMMA RunMoves ==
    ASSUME UpdateTypes, NEW u \in Updaters, NEW v \in Versions,
           updater' = [updater EXCEPT ![u].pc = "running", ![u].baseline = v]
    PROVE  Goes(u, "running") /\ updater'[u].baseline = v
<1> DEFINE r == [updater[u] EXCEPT !.pc = "running", !.baseline = v]
<1>1. updater[u] \in UpdateRuns
    BY DEF UpdateTypes
<1>2. r \in UpdateRuns
    BY <1>1, UpdatesChange DEF UpdatePCs
<1>3. updater' = [updater EXCEPT ![u] = r]
    BY <1>1 DEF UpdateTypes
<1>4. /\ r.pc = "running" /\ r.request = updater[u].request /\ r.result = updater[u].result
      /\ r.baseline = v
    BY <1>1 DEF UpdateRuns
<1> HIDE DEF r
<1> QED
    BY <1>2, <1>3, <1>4, UpdateReplaced DEF Goes

LEMMA VerifyMoves ==
    ASSUME UpdateTypes, NEW u \in Updaters, NEW late \in BOOLEAN,
           updater' = [updater EXCEPT ![u].pc = "verifying", ![u].late = late]
    PROVE  Goes(u, "verifying") /\ updater'[u].baseline = updater[u].baseline
<1> DEFINE r == [updater[u] EXCEPT !.pc = "verifying", !.late = late]
<1>1. updater[u] \in UpdateRuns
    BY DEF UpdateTypes
<1>2. r \in UpdateRuns
    BY <1>1, UpdatesChange DEF UpdatePCs
<1>3. updater' = [updater EXCEPT ![u] = r]
    BY <1>1 DEF UpdateTypes
<1>4. /\ r.pc = "verifying" /\ r.request = updater[u].request /\ r.result = updater[u].result
      /\ r.baseline = updater[u].baseline
    BY <1>1 DEF UpdateRuns
<1> HIDE DEF r
<1> QED
    BY <1>2, <1>3, <1>4, UpdateReplaced DEF Goes

LEMMA AskMoves ==
    ASSUME UpdateTypes, NEW u \in Updaters, NEW v \in Versions,
           updater' = [updater EXCEPT ![u].pc = "asking", ![u].post = v]
    PROVE  /\ Goes(u, "asking") /\ updater'[u].baseline = updater[u].baseline
           /\ updater'[u].post = v
<1> DEFINE r == [updater[u] EXCEPT !.pc = "asking", !.post = v]
<1>1. updater[u] \in UpdateRuns
    BY DEF UpdateTypes
<1>2. r \in UpdateRuns
    BY <1>1, UpdatesChange DEF UpdatePCs
<1>3. updater' = [updater EXCEPT ![u] = r]
    BY <1>1 DEF UpdateTypes
<1>4. /\ r.pc = "asking" /\ r.request = updater[u].request /\ r.result = updater[u].result
      /\ r.baseline = updater[u].baseline /\ r.post = v
    BY <1>1 DEF UpdateRuns
<1> HIDE DEF r
<1> QED
    BY <1>2, <1>3, <1>4, UpdateReplaced DEF Goes

\* A selected row is about the generation that was committed last, and its
\* offer is that scan's own.
LEMMA SelectMoves ==
    ASSUME ScanInvariant, UpdateTypes, NEW u \in Updaters, Select(u)
    PROVE  /\ OnlyUpdates(u) /\ updater'[u].pc = "selected" /\ updater'[u].result = "none"
           /\ LET r == updater'[u].request
              IN /\ r.family \in Families /\ r.assessed > 0
                 /\ <<r.scan, r.family, r.product>> \in proven
                 /\ \E i \in DOMAIN committed : committed[i] = r.scan
<1> DEFINE loaded == LoadLatestPublished
           snap == loaded.snap
           Asked(f) == Request(f, snap.scan, snap.assess[f].product, snap.assess[f].version,
                               snap.assess[f].installed)
<1>t. ScanTypes /\ machine \in Machines /\ pointer \in Pointers /\ committed \in Seq(Times)
    BY DEF ScanInvariant, ScanTypes
<1>1. PICK f \in Families, version \in machine.versions \ {0} :
        /\ CanUpdateNow(loaded, f, version)
        /\ updater' = [updater EXCEPT ![u] =
             [IdleUpdate EXCEPT !.pc = "selected", !.request = Asked(f)]]
    BY DEF Select
<1> DEFINE request == Asked(f)
           r == [IdleUpdate EXCEPT !.pc = "selected", !.request = request]
<1>2. /\ loaded.found /\ ~loaded.recovered /\ f \in DOMAIN snap.assess
      /\ ~snap.assess[f].stale /\ snap.assess[f].installed = version
      /\ snap.assess[f].state = "available"
    BY <1>1 DEF CanUpdateNow, FreshFor
<1>3. /\ snap \in Snapshots /\ pointer.state = "ok" /\ snap.scan = pointer.scan
      /\ \E g \in gens : ~g.damaged /\ g.scan = pointer.scan /\ snap.assess = g.assess
    BY <1>t, <1>2, LoadsFollowThePointer DEF LoadLatestPublished
<1>4. PICK g \in gens : g.scan = pointer.scan /\ snap.assess = g.assess
    BY <1>3
<1> HIDE DEF loaded
<1>5. <<snap.scan, f, snap.assess[f].product>> \in proven
    BY <1>2, <1>3, <1>4 DEF ScanInvariant, OffersAreProven, OwnOffers
<1>6. \E i \in DOMAIN committed : committed[i] = snap.scan
  <2>1. committed # << >> /\ snap.scan = committed[Len(committed)]
    BY <1>3 DEF ScanInvariant, Repository, LastCommitted
  <2>2. Len(committed) \in DOMAIN committed
    BY <1>t, <2>1
  <2> QED
    BY <2>1, <2>2
<1>7. snap.assess[f] \in Assessments /\ snap.scan \in Times
    BY <1>2, <1>3 DEF Snapshots, AssessmentMaps
<1>8. /\ snap.assess[f].product \in AnyProduct /\ snap.assess[f].version \in Nat
      /\ snap.assess[f].installed \in Nat /\ snap.assess[f].installed > 0
  <2>1. \A a \in Assessments : a.product \in AnyProduct /\ a.version \in Nat
    BY VersionsAreNumbers DEF Assessments, AnyProduct
  <2>2. version \in Nat /\ version > 0
    BY <1>t, ScanAssumption
  <2> QED
    BY <1>2, <1>7, <2>1, <2>2
<1>9. /\ request \in Requests /\ request.family = f /\ request.scan = snap.scan
      /\ request.product = snap.assess[f].product /\ request.assessed = snap.assess[f].installed
    BY <1>7, <1>8 DEF Request, Requests
<1>10. IdleUpdate \in UpdateRuns /\ IdleUpdate.result = "none"
    BY <1>t, IdleUpdateIsTyped
<1> HIDE DEF Asked
<1>11. r \in UpdateRuns /\ r.pc = "selected" /\ r.request = request /\ r.result = "none"
  <2> HIDE DEF request
  <2>1. r \in UpdateRuns
    BY <1>9, <1>10, UpdatesChange DEF UpdatePCs
  <2> QED
    BY <1>10, <2>1 DEF UpdateRuns
<1>12. updater' = [updater EXCEPT ![u] = r]
    BY <1>1
<1> HIDE DEF r, request, snap
<1>13. OnlyUpdates(u) /\ updater'[u] = r
    BY <1>11, <1>12, UpdateReplaced
<1> QED
    BY <1>5, <1>6, <1>8, <1>9, <1>11, <1>13

LEMMA OthersKnow ==
    ASSUME NEW u \in Updaters, UpdateKnows(u), updater'[u] = updater[u], reached'[u] = reached[u],
           UNCHANGED <<installed, committed, proven>>
    PROVE  UpdateKnows(u)'
    BY DEF UpdateKnows

\* An update that refuses or fails ends without a claim.
LEMMA EndsWithoutClaim ==
    ASSUME ScanInvariant, UpdateTypes, NEW u \in Updaters,
           NEW result \in Results \ {"verified", "already updated"}, Finish(u, result)
    PROVE  OnlyUpdates(u) /\ UpdateKnows(u)'
<1>1. /\ OnlyUpdates(u) /\ updater'[u].pc = "idle" /\ updater'[u].result = result
    BY FinishMoves DEF ScanInvariant, ScanTypes
<1> QED
    BY <1>1 DEF UpdateKnows, Verifying

LEMMA EndsWithClaim ==
    ASSUME ScanInvariant, UpdateTypes, NEW u \in Updaters,
           NEW result \in Results, Finish(u, result), reached' = reached,
           \E v \in reached[u] : v > 0 /\ v >= updater[u].request.offered
                                       /\ v >= updater[u].request.assessed
    PROVE  OnlyUpdates(u) /\ UpdateKnows(u)'
<1>1. /\ OnlyUpdates(u) /\ updater'[u].pc = "idle" /\ updater'[u].request = updater[u].request
    BY FinishMoves DEF ScanInvariant, ScanTypes
<1> QED
    BY <1>1 DEF UpdateKnows, Verifying

LEMMA UpdaterStepKnows ==
    ASSUME ScanInvariant, UpdateTypes, NEW u \in Updaters, UpdateKnows(u), UpdaterStep(u)
    PROVE  /\ OnlyUpdates(u) /\ UpdateKnows(u)'
           /\ reached' \in [Updaters -> SUBSET machine.versions]
           /\ \A w \in Updaters : w # u => reached'[w] = reached[w]
           /\ UNCHANGED scanVars
<1> USE DEF UpdatePCs, Results, Verifying
<1>0. UNCHANGED scanVars
    BY DEF UpdaterStep, Select, ReadPointer, Authorize, Refuse, PreAction, CommandEnds,
           VerifyInstalled, VerifyCatalog, Wait
<1>s. UNCHANGED <<machine, installed, committed, proven>>
    BY <1>0 DEF scanVars
<1>t. /\ machine \in Machines /\ machine.versions \subseteq Nat
      /\ installed \in [Families -> machine.versions] /\ pointer \in Pointers
      /\ updater[u] \in UpdateRuns /\ reached \in [Updaters -> SUBSET machine.versions]
    BY ScanAssumption DEF ScanInvariant, ScanTypes, UpdateTypes
<1> DEFINE now == updater[u]
           request == now.request
<1>q. /\ request.offered \in Nat /\ request.assessed \in Nat
      /\ now.baseline \in Nat /\ now.post \in Nat
  <2>1. request \in Requests /\ now.baseline \in Versions /\ now.post \in Versions
    BY <1>t DEF UpdateRuns
  <2>2. Versions \subseteq Nat
    BY <1>t DEF Versions
  <2>3. request.offered \in Nat /\ request.assessed \in Nat
    BY <2>1 DEF Requests
  <2> QED
    BY <2>1, <2>2, <2>3
<1>k. /\ now.pc # "idle" =>
            /\ request.family \in Families /\ request.assessed > 0
            /\ now.result = "none"
            /\ <<request.scan, request.family, request.product>> \in proven
            /\ \E i \in DOMAIN committed : committed[i] = request.scan
      /\ now.pc \in Verifying \union {"enumerating"} => installed[request.family] \in reached[u]
      /\ now.pc \in Verifying => now.baseline = request.assessed
      /\ now.pc = "asking" => now.post \in reached[u] \union {0}
    BY DEF UpdateKnows
<1>n. now.pc \in Verifying \union {"enumerating"} => installed[request.family] \in Nat
    BY <1>k, <1>t
<1>1. CASE Select(u)
  <2>1. /\ OnlyUpdates(u) /\ updater'[u].pc = "selected" /\ updater'[u].result = "none"
        /\ LET r == updater'[u].request
           IN /\ r.family \in Families /\ r.assessed > 0
              /\ <<r.scan, r.family, r.product>> \in proven
              /\ \E i \in DOMAIN committed : committed[i] = r.scan
    BY <1>1, SelectMoves
  <2>2. UpdateKnows(u)'
    BY <1>s, <2>1 DEF UpdateKnows
  <2> QED
    BY <1>0, <1>1, <1>t, <2>1, <2>2 DEF Select
<1>2. CASE ReadPointer(u)
  <2>1. Goes(u, "authorizing") /\ now.pc = "selected"
    BY <1>2, <1>t, ReadMoves DEF ReadPointer
  <2>2. UpdateKnows(u)'
    BY <1>k, <1>s, <2>1 DEF UpdateKnows, Goes
  <2>3. reached' = [reached EXCEPT ![u] = {}]
    BY <1>2 DEF ReadPointer
  <2> QED
    BY <1>0, <1>t, <2>1, <2>2, <2>3 DEF Goes
<1>3. CASE Authorize(u)
  <2>1. CASE /\ To(u, "enumerating")
             /\ reached' = [reached EXCEPT ![u] = {installed[updater[u].request.family]}]
    <3>1. Goes(u, "enumerating") /\ now.pc = "authorizing"
      BY <1>3, <2>1, ToMoves DEF Authorize
    <3>2. reached'[u] = {installed[request.family]}
      BY <1>t, <2>1
    <3>3. UpdateKnows(u)'
      BY <1>k, <1>s, <3>1, <3>2 DEF UpdateKnows, Goes
    <3>4. installed[request.family] \in machine.versions
      BY <1>k, <1>t, <3>1
    <3> QED
      BY <1>0, <1>t, <2>1, <3>1, <3>3, <3>4 DEF Goes
  <2>2. CASE Finish(u, "refused") /\ reached' = reached
    BY <1>0, <1>t, <2>2, EndsWithoutClaim
  <2> QED
    BY <1>3, <2>1, <2>2 DEF Authorize
<1>4. CASE Refuse(u)
    BY <1>0, <1>4, <1>t, EndsWithoutClaim DEF Refuse
<1>5. CASE PreAction(u)
  <2> DEFINE version == installed[request.family]
  <2>0. now.pc = "enumerating" /\ reached' = reached /\ version \in reached[u] /\ version \in Nat
    BY <1>5, <1>k, <1>n DEF PreAction
  <2>1. CASE version > 0 /\ AlreadyUpdated(request, version) /\ Finish(u, "already updated")
    <3>1. version > 0 /\ version >= request.offered /\ version >= request.assessed
      <4>1. \A v, o, a \in Nat : v > a /\ (o > 0 => v >= o) => v >= o /\ v >= a
        OBVIOUS
      <4>2. version > request.assessed /\ (request.offered > 0 => version >= request.offered)
        BY <2>1 DEF AlreadyUpdated
      <4> QED
        BY <1>q, <2>0, <2>1, <4>1, <4>2
    <3> QED
      BY <1>0, <1>t, <2>0, <2>1, <3>1, EndsWithClaim
  <2>2. CASE Finish(u, "refused")
    BY <1>0, <1>t, <2>0, <2>2, EndsWithoutClaim
  <2>3. CASE /\ version = request.assessed
             /\ updater' = [updater EXCEPT ![u].pc = "running", ![u].baseline = version]
    <3>1. version \in Versions
      BY <1>k, <1>t, <2>0 DEF Versions
    <3>2. Goes(u, "running") /\ updater'[u].baseline = version
      BY <2>3, <3>1, RunMoves
    <3>3. UpdateKnows(u)'
      <4>1. /\ updater'[u].pc = "running" /\ updater'[u].request = request
            /\ updater'[u].result = "none" /\ updater'[u].baseline = request.assessed
        BY <1>k, <2>0, <2>3, <3>2 DEF Goes
      <4>2. installed[request.family] \in reached'[u]
        BY <2>0
      <4> QED
        BY <1>k, <1>s, <2>0, <4>1, <4>2 DEF UpdateKnows
    <3> QED
      BY <1>0, <1>t, <2>0, <3>2, <3>3 DEF Goes
  <2> QED
    BY <1>5, <2>1, <2>2, <2>3 DEF PreAction
<1>6. CASE CommandEnds(u)
  <2>0. now.pc = "running" /\ reached' = reached
    BY <1>6 DEF CommandEnds
  <2>1. CASE Finish(u, "cancelled") \/ Finish(u, "failed")
    BY <1>0, <1>t, <2>0, <2>1, EndsWithoutClaim
  <2>2. ASSUME NEW late \in BOOLEAN,
               updater' = [updater EXCEPT ![u].pc = "verifying", ![u].late = late]
        PROVE  OnlyUpdates(u) /\ UpdateKnows(u)'
    <3>1. Goes(u, "verifying") /\ updater'[u].baseline = now.baseline
      BY <2>2, VerifyMoves
    <3> QED
      BY <1>k, <1>s, <2>0, <3>1 DEF UpdateKnows, Goes
  <2> QED
    BY <1>0, <1>6, <1>t, <2>0, <2>1, <2>2 DEF CommandEnds
<1>7. CASE VerifyInstalled(u)
  <2>0. now.pc = "verifying" /\ reached' = reached
    BY <1>7 DEF VerifyInstalled
  <2>1. PICK version \in {installed[request.family], 0} :
          IF version > 0 /\ SnapshotVerifies(u, version)
          THEN Finish(u, "verified")
          ELSE updater' = [updater EXCEPT ![u].pc = "asking", ![u].post = version]
    BY <1>7 DEF VerifyInstalled
  <2>2. CASE version > 0 /\ SnapshotVerifies(u, version)
    <3>1. version = installed[request.family] /\ version \in reached[u] /\ version \in Nat
      BY <1>k, <1>n, <2>0, <2>2
    <3>2. version >= request.offered /\ version >= request.assessed
      BY <1>k, <1>q, <2>0, <2>2, <3>1 DEF SnapshotVerifies
    <3> QED
      BY <1>0, <1>t, <2>0, <2>1, <2>2, <3>1, <3>2, EndsWithClaim
  <2>3. CASE ~(version > 0 /\ SnapshotVerifies(u, version))
    <3>1. version \in Versions /\ version \in reached[u] \union {0}
      BY <1>k, <1>t, <2>0 DEF Versions
    <3>2. /\ Goes(u, "asking") /\ updater'[u].baseline = now.baseline /\ updater'[u].post = version
      BY <2>1, <2>3, <3>1, AskMoves
    <3>3. UpdateKnows(u)'
      BY <1>k, <1>s, <2>0, <3>1, <3>2 DEF UpdateKnows, Goes
    <3> QED
      BY <1>0, <1>t, <2>0, <3>2, <3>3 DEF Goes
  <2> QED
    BY <2>2, <2>3
<1>8. CASE VerifyCatalog(u)
  <2>0. now.pc = "asking" /\ reached' = reached
    BY <1>8 DEF VerifyCatalog
  <2>1. PICK gone \in BOOLEAN :
          IF CatalogVerifies(u, gone) THEN Finish(u, "verified") ELSE To(u, "waiting")
    BY <1>8 DEF VerifyCatalog
  <2>2. CASE CatalogVerifies(u, gone)
    <3>1. /\ now.post \in reached[u] /\ now.post > 0
          /\ now.post >= request.offered /\ now.post >= request.assessed
      BY <1>k, <1>q, <2>0, <2>2 DEF CatalogVerifies
    <3> QED
      BY <1>0, <1>t, <2>0, <2>1, <2>2, <3>1, EndsWithClaim
  <2>3. CASE ~CatalogVerifies(u, gone)
    <3>1. Goes(u, "waiting") /\ updater'[u].baseline = now.baseline
      BY <2>1, <2>3, ToMoves
    <3>2. UpdateKnows(u)'
      BY <1>k, <1>s, <2>0, <3>1 DEF UpdateKnows, Goes
    <3> QED
      BY <1>0, <1>t, <2>0, <3>1, <3>2 DEF Goes
  <2> QED
    BY <2>2, <2>3
<1>9. CASE Wait(u)
  <2>0. now.pc \in {"waiting", "verifying"} /\ reached' = reached
    BY <1>9 DEF Wait
  <2>1. CASE To(u, "verifying")
    <3>1. Goes(u, "verifying") /\ updater'[u].baseline = now.baseline
      BY <2>1, ToMoves
    <3>2. UpdateKnows(u)'
      BY <1>k, <1>s, <2>0, <3>1 DEF UpdateKnows, Goes
    <3> QED
      BY <1>0, <1>t, <2>0, <3>1, <3>2 DEF Goes
  <2>2. CASE Finish(u, "accepted, not verified") \/ Finish(u, "cancelled")
    BY <1>0, <1>t, <2>0, <2>2, EndsWithoutClaim
  <2> QED
    BY <1>9, <2>1, <2>2 DEF Wait
<1> QED
    BY <1>1, <1>2, <1>3, <1>4, <1>5, <1>6, <1>7, <1>8, <1>9 DEF UpdaterStep

LEMMA CommittedGrows ==
    ASSUME ScanTypes, ScanNext
    PROVE  \A i \in DOMAIN committed : i \in DOMAIN committed' /\ committed'[i] = committed[i]
<1>1. ASSUME NEW s \in Scanners, ReplacePointer(s)
      PROVE  \A i \in DOMAIN committed : i \in DOMAIN committed' /\ committed'[i] = committed[i]
  <2>1. /\ committed \in Seq(Times) /\ scanner[s].result.scan \in Times
        /\ committed' = Append(committed, scanner[s].result.scan)
    BY <1>1 DEF ScanTypes, ScanRuns, Snapshots, ReplacePointer
  <2> QED
    BY <2>1
<1>2. CASE committed' = committed
    BY <1>2
<1>3. (\E s \in Scanners : ReplacePointer(s)) \/ committed' = committed
    BY DEF ScanNext, WorldStep, ScannerStep, Crash, DamageGeneration, DamagePointer,
           ClockStepsBack, PackageChanges, Begin, Lock, Collect, Check, Abort, WriteGeneration,
           PointerFails, Prune, Release
<1> QED
    BY <1>1, <1>2, <1>3

\* While packages change, an update keeps knowing what it knew, and the
\* history of its family goes on.
LEMMA ScansKeepKnowledge ==
    ASSUME ScanInvariant, UpdateTypes, NEW u \in Updaters, UpdateKnows(u),
           ScanNext, Observe, UNCHANGED updater
    PROVE  UpdateKnows(u)' /\ reached'[u] \subseteq machine.versions
<1>t. /\ ScanTypes /\ installed' \in [Families -> machine.versions]
      /\ reached[u] \subseteq machine.versions /\ updater[u] \in UpdateRuns
  <2>1. ScanTypes /\ ScanTypes'
    BY ScansKeepInvariant DEF ScanInvariant
  <2>2. machine' = machine
    BY DEF ScanNext, WorldStep, ScannerStep, Crash, DamageGeneration, DamagePointer,
           ClockStepsBack, PackageChanges, Begin, Lock, Collect, Check, Abort, WriteGeneration,
           ReplacePointer, PointerFails, Prune, Release
  <2> QED
    BY <2>1, <2>2 DEF ScanTypes, UpdateTypes
<1> DEFINE now == updater[u]
           request == now.request
<1>1. proven \subseteq proven'
    BY <1>t, ProvenGrows
<1>2. \A i \in DOMAIN committed : i \in DOMAIN committed' /\ committed'[i] = committed[i]
    BY <1>t, CommittedGrows
<1>3. reached'[u] = IF now.pc \in {"idle", "selected", "authorizing"} THEN reached[u]
                    ELSE reached[u] \union {installed'[request.family]}
    BY DEF Observe
<1>4. updater'[u] = now
    OBVIOUS
<1>5. now.pc # "idle" => request.family \in Families
    BY DEF UpdateKnows
<1>6. reached'[u] \subseteq machine.versions
    BY <1>t, <1>3, <1>5
<1>7. UpdateKnows(u)'
    BY <1>1, <1>2, <1>3, <1>4 DEF UpdateKnows, Verifying
<1> QED
    BY <1>6, <1>7

LEMMA StoreStarts == StoreInit => StoreInvariant
<1> SUFFICES ASSUME StoreInit PROVE StoreInvariant
    OBVIOUS
<1>1. ScanInvariant
    BY ScansStart DEF StoreInit
<1>2. IdleUpdate \in UpdateRuns /\ IdleUpdate.pc = "idle" /\ IdleUpdate.result = "none"
    BY <1>1, IdleUpdateIsTyped DEF ScanInvariant, ScanTypes
<1>3. UpdateTypes
    BY <1>2 DEF StoreInit, UpdateTypes
<1>4. \A u \in Updaters : UpdateKnows(u)
    BY <1>2 DEF StoreInit, UpdateKnows, Verifying
<1> QED
    BY <1>1, <1>3, <1>4 DEF StoreInvariant

LEMMA StoreKeepsInvariant ==
    ASSUME StoreInvariant, [StoreNext]_storeVars
    PROVE  StoreInvariant'
<1>0. ScanInvariant /\ UpdateTypes /\ \A u \in Updaters : UpdateKnows(u)
    BY DEF StoreInvariant
<1>1. ASSUME NEW u \in Updaters, UpdaterStep(u)
      PROVE  StoreInvariant'
  <2>1. /\ OnlyUpdates(u) /\ UpdateKnows(u)'
        /\ reached' \in [Updaters -> SUBSET machine.versions]
        /\ \A w \in Updaters : w # u => reached'[w] = reached[w]
        /\ UNCHANGED scanVars
    BY <1>0, <1>1, UpdaterStepKnows
  <2>2. ScanInvariant'
    BY <1>0, <2>1, ScansStutter
  <2>3. UNCHANGED <<machine, installed, committed, proven>>
    BY <2>1 DEF scanVars
  <2>4. UpdateTypes'
    BY <2>1, <2>3, SetsOfTheMachine DEF UpdateTypes, OnlyUpdates
  <2>5. ASSUME NEW w \in Updaters, w # u PROVE UpdateKnows(w)'
    BY <1>0, <2>1, <2>3, <2>5, OthersKnow DEF OnlyUpdates
  <2> QED
    BY <2>1, <2>2, <2>4, <2>5 DEF StoreInvariant
<1>2. CASE ScanNext /\ Observe /\ UNCHANGED updater
  <2>1. ScanInvariant'
    BY <1>0, <1>2, ScansKeepInvariant
  <2>2. \A u \in Updaters : UpdateKnows(u)' /\ reached'[u] \subseteq machine.versions
    BY <1>0, <1>2, ScansKeepKnowledge
  <2>3. machine' = machine
    BY <1>2 DEF ScanNext, WorldStep, ScannerStep, Crash, DamageGeneration, DamagePointer,
           ClockStepsBack, PackageChanges, Begin, Lock, Collect, Check, Abort, WriteGeneration,
           ReplacePointer, PointerFails, Prune, Release
  <2>4. reached' \in [Updaters -> SUBSET machine.versions]
    BY <1>2, <2>2 DEF Observe
  <2>5. UpdateTypes'
    BY <1>0, <1>2, <2>3, <2>4, SetsOfTheMachine DEF UpdateTypes
  <2> QED
    BY <2>1, <2>2, <2>5 DEF StoreInvariant
<1>3. CASE UNCHANGED storeVars
  <2>1. UNCHANGED scanVars /\ UNCHANGED updateVars
    BY <1>3 DEF storeVars
  <2>2. ScanInvariant'
    BY <1>0, <2>1, ScansStutter
  <2>3. UNCHANGED <<machine, installed, committed, proven, updater, reached>>
    BY <2>1 DEF scanVars, updateVars
  <2>4. UpdateTypes'
    BY <1>0, <2>3, SetsOfTheMachine DEF UpdateTypes
  <2>5. \A u \in Updaters : UpdateKnows(u)'
    BY <1>0, <2>3, OthersKnow
  <2> QED
    BY <2>2, <2>4, <2>5 DEF StoreInvariant
<1> QED
    BY <1>1, <1>2, <1>3 DEF StoreNext

\* The scans, the repository and the updates keep what the proofs below need:
\* one scan at a time works on the files, the pointer names a generation that
\* is there, and every update knows what its checks established.
THEOREM StoreInvariantHolds == StoreSafety => []StoreInvariant
    BY StoreStarts, StoreKeepsInvariant, PTL DEF StoreSafety

\* Every variable keeps its type, what providers answer included.
THEOREM StoreIsTyped == StoreSafety => []StoreTypeOK
<1>1. ScanTypes /\ UpdateTypes => StoreTypeOK
  <2> SUFFICES ASSUME ScanTypes, UpdateTypes PROVE StoreTypeOK
    OBVIOUS
  <2>1. ASSUME NEW g \in Snapshots PROVE SnapshotOK(g)
    BY DEF Snapshots, AssessmentMaps, SnapshotOK
  <2>2. ASSUME NEW s \in Scanners
        PROVE  /\ scanner[s].pc \in ScanPCs /\ scanner[s].scan \in Times
               /\ SnapshotOK(scanner[s].base) /\ SnapshotOK(scanner[s].result)
               /\ {scanner[s].whole, scanner[s].listed, scanner[s].recovered} \subseteq BOOLEAN
               /\ \A f \in DOMAIN scanner[s].seen : scanner[s].seen[f] \in machine.versions
    <3>1. scanner[s] \in ScanRuns
      BY DEF ScanTypes
    <3>2. \A i \in Inventories : \A f \in DOMAIN i : i[f] \in machine.versions
      BY DEF Inventories
    <3> QED
      BY <2>1, <3>1, <3>2 DEF ScanRuns
  <2>3. ASSUME NEW p \in Pointers PROVE PointerOK(p)
    BY DEF Pointers, PointerOK
  <2>4. ASSUME NEW u \in Updaters
        PROVE  /\ updater[u].pc \in UpdatePCs /\ updater[u].result \in Results
               /\ PointerOK(updater[u].seen) /\ updater[u].late \in BOOLEAN
               /\ {updater[u].baseline, updater[u].post} \subseteq machine.versions \union {0}
               /\ reached[u] \subseteq machine.versions
    <3>1. updater[u] \in UpdateRuns /\ reached[u] \subseteq machine.versions
      BY DEF UpdateTypes
    <3> QED
      BY <2>3, <3>1 DEF UpdateRuns, Versions
  <2> QED
    BY <2>1, <2>2, <2>3, <2>4 DEF ScanTypes, StoreTypeOK, AnyProduct
<1> QED
    BY <1>1, StoreInvariantHolds, PTL DEF StoreInvariant, ScanInvariant

\* Crashes, failed commits, pruning and a clock that steps back never make a
\* reader take anything for published but what was committed last.
THEOREM CommittedIsAlwaysRead == StoreSafety => []CommittedIsRead
<1>1. StoreInvariant => CommittedIsRead
  <2> SUFFICES ASSUME StoreInvariant PROVE CommittedIsRead
    OBVIOUS
  <2> DEFINE loaded == LoadLatestPublished
  <2>0. ScanTypes /\ pointer \in Pointers /\ Repository
    BY DEF StoreInvariant, ScanInvariant, ScanTypes
  <2>1. loaded.found /\ ~loaded.recovered => loaded.snap.scan = LastCommitted
    BY <2>0, LoadsFollowThePointer DEF LoadLatestPublished, Repository
  <2>2. ASSUME pointer.state = "ok", LastCommitted \notin {g.scan : g \in Rejected}
        PROVE  loaded.found /\ ~loaded.recovered
    <3>1. PICK g \in gens : g.scan = pointer.scan
      BY <2>0, <2>2 DEF Repository
    <3>2. pointer.scan = LastCommitted
      BY <2>0, <2>2 DEF Repository
    <3>3. g \notin Rejected
      BY <2>2, <3>1, <3>2
    <3>4. ~g.damaged
      BY <3>3 DEF Rejected
    <3> QED
      BY <2>0, <2>2, <3>1, <3>4, LoadsFollowThePointer DEF LoadLatestPublished
  <2> QED
    BY <2>1, <2>2 DEF CommittedIsRead
<1> QED
    BY <1>1, StoreInvariantHolds, PTL

\* What a scan replaces is what its hysteresis was computed from, in whatever
\* processes other scans run.
THEOREM HysteresisBaseStaysCurrent == StoreSafety => HysteresisBaseIsCurrent
<1>1. StoreInvariant /\ [StoreNext]_storeVars =>
        [\A s \in Scanners :
           scanner[s].pc = "committing" /\ scanner'[s].pc = "pruning"
             => LET loaded == LoadLatestPublished
                IN loaded.found /\ ~loaded.recovered => loaded.snap.scan = scanner[s].base.scan
        ]_storeVars
  <2> SUFFICES ASSUME StoreInvariant, NEW s \in Scanners, scanner[s].pc = "committing",
                      LoadLatestPublished.found, ~LoadLatestPublished.recovered
               PROVE  LoadLatestPublished.snap.scan = scanner[s].base.scan
    OBVIOUS
  <2>0. ScanTypes /\ pointer \in Pointers /\ BaseIsPointed
    BY DEF StoreInvariant, ScanInvariant, ScanTypes
  <2>1. /\ pointer.state = "ok" /\ LoadLatestPublished.snap.scan = pointer.scan
        /\ \E g \in gens : ~g.damaged /\ g.scan = pointer.scan
    BY <2>0, LoadsFollowThePointer DEF LoadLatestPublished
  <2> QED
    BY <2>0, <2>1 DEF BaseIsPointed, Pointed
<1> QED
    BY <1>1, StoreInvariantHolds, PTL DEF StoreSafety, HysteresisBaseIsCurrent

\* Provider failures and partial inventories never make a family current.
THEOREM CurrentIsAlwaysEarned == StoreSafety => []CurrentIsEarned
    BY StoreInvariantHolds, PTL DEF StoreInvariant, ScanInvariant

\* A scan that did not complete never clears an offer of the one before it.
THEOREM PositivesSurvive == StoreSafety => []PositiveSurvivesIncompleteScan
    BY StoreInvariantHolds, PTL DEF StoreInvariant, ScanInvariant

\* A Store command runs only for what one committed scan itself offered.
THEOREM CommandsAreProven == StoreSafety => []CommandIsProven
<1>1. StoreInvariant => CommandIsProven
    BY DEF StoreInvariant, UpdateKnows, CommandIsProven
<1> QED
    BY <1>1, StoreInvariantHolds, PTL

\* An update that is called a success was seen installed.
THEOREM VerifiedWasInstalled == StoreSafety => []VerifiedIsInstalled
<1>1. StoreInvariant => VerifiedIsInstalled
    BY DEF StoreInvariant, UpdateKnows, VerifiedIsInstalled
<1> QED
    BY <1>1, StoreInvariantHolds, PTL
=============================================================================
