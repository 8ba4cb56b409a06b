----------------------- MODULE InventoryRefreshProofs -----------------------
(***************************************************************************)
(* InventoryRefresh keeps its type and its safety properties, for every    *)
(* set of jobs and every bound on the generations, and its Store scan      *)
(* implements the steps of SingleFlight.                                   *)
(*                                                                         *)
(* The properties are not inductive. That the newest refresh owns the      *)
(* loading flag needs that nobody else can end a refresh of the same       *)
(* number (`Launches', `Single'), that a publication goes forward needs    *)
(* that a current refresh has not published yet (`CacheIsBehind'), and     *)
(* that a queued request is enough needs that no request asks for more     *)
(* than the next generation (`WantedIsNext').                              *)
(***************************************************************************)
EXTENDS InventoryRefresh, FiniteSetTheorems, TLAPS

-----------------------------------------------------------------------------
(* The inductive invariant.                                                *)

(* A starter has something to launch, in the order of the code: the scan,  *)
(* then a refresh that has begun and whose number no other starter bears.  *)
Launches ==
    \A d \in DOMAIN starters :
       /\ starters[d].scan # "none" \/ starters[d].next # 0
       /\ starters[d].refused => starters[d].next # 0 /\ starters[d].scan = "none"
       /\ starters[d].next <= generation
       /\ starters[d].next # 0 /\ starters[d].next # d
             => starters[d].next \notin DOMAIN starters

(* A refresh is alive once: it is collecting or one starter launches it.   *)
Single ==
    /\ \A d \in DOMAIN starters : d \notin DOMAIN refreshes
    /\ \A d \in DOMAIN starters :
          starters[d].next # 0 =>
             /\ starters[d].next \notin DOMAIN refreshes
             /\ \A e \in DOMAIN starters :
                   starters[e].next = starters[d].next => e = d

CacheIsBehind == /\ cache <= generation
                 /\ Alive(generation) => cache < generation

WantedIsNext == wanted <= generation + 1

ScanStarters == {d \in DOMAIN starters : starters[d].scan # "none"}

(* ScanIsUnique without cardinalities.                                     *)
ScanToken ==
    /\ scanLoading <=> (DOMAIN scans # {} \/ ScanStarters # {})
    /\ \A g, h \in DOMAIN scans : g = h
    /\ \A g, h \in ScanStarters : g = h
    /\ DOMAIN scans = {} \/ ScanStarters = {}

Ownership == /\ Launches
             /\ Single
             /\ LoadingIsOwned
             /\ orphaned => ~Alive(generation)
             /\ CacheIsBehind
             /\ WantedIsNext
             /\ ForcedRefreshIsServed

IInv == TypeOK /\ Ownership /\ ScanToken

-----------------------------------------------------------------------------
(* Types.                                                                  *)

LEMMA WithType ==
    ASSUME NEW S, NEW R, NEW f, DOMAIN f \subseteq S, f \in [DOMAIN f -> R],
           NEW x \in S, NEW y \in R
    PROVE  /\ DOMAIN With(f, x, y) \subseteq S
           /\ With(f, x, y) \in [DOMAIN With(f, x, y) -> R]
BY DEF With

LEMMA WithoutType ==
    ASSUME NEW S, NEW R, NEW f, DOMAIN f \subseteq S, f \in [DOMAIN f -> R], NEW x
    PROVE  /\ DOMAIN Without(f, x) \subseteq S
           /\ Without(f, x) \in [DOMAIN Without(f, x) -> R]
BY DEF Without

LEMMA AfterRefreshType ==
    ASSUME TypeOK, NEW job \in Jobs \cup {NoJob}, NEW since \in Nat,
           AfterRefresh(job, since)
    PROVE  jobs' \in [Jobs -> JobRecords]
<1>1. CASE job = NoJob
  BY <1>1 DEF AfterRefresh, TypeOK
<1>2. CASE job # NoJob
  <2>1. PICK at \in {"idle", "wait"} :
           jobs' = [jobs EXCEPT ![job] = [@ EXCEPT !.at = at, !.since = since]]
    BY <1>2 DEF AfterRefresh
  <2>2. [jobs[job] EXCEPT !.at = at, !.since = since] \in JobRecords
    BY <1>2, <2>1 DEF TypeOK, JobRecords
  <2> QED
    BY <1>2, <2>1, <2>2 DEF TypeOK
<1> QED
  BY <1>1, <1>2

(* A starter that has done a part of its work either ends or keeps what is *)
(* left of it.                                                             *)
LEMMA StarterDoneFacts ==
    ASSUME NEW g \in DOMAIN starters, NEW s, StarterDone(g, s)
    PROVE  /\ DOMAIN starters' \subseteq DOMAIN starters
           /\ \A d \in DOMAIN starters' :
                 starters'[d] = IF d = g THEN s ELSE starters[d]
           /\ \A d \in DOMAIN starters \ DOMAIN starters' :
                 d = g /\ s.scan = "none" /\ s.next = 0
           /\ g \in DOMAIN starters' => s.scan # "none" \/ s.next # 0
BY DEF StarterDone, Without

LEMMA StarterDoneType ==
    ASSUME TypeOK, NEW g \in DOMAIN starters, NEW s \in StarterRecords,
           StarterDone(g, s)
    PROVE  /\ DOMAIN starters' \subseteq 1..generation
           /\ starters' \in [DOMAIN starters' -> StarterRecords]
           /\ jobs' \in [Jobs -> JobRecords]
<1>1. /\ DOMAIN starters' \subseteq 1..generation
      /\ starters' \in [DOMAIN starters' -> StarterRecords]
  <2>1. CASE s.scan = "none" /\ s.next = 0
    <3>1. starters' = Without(starters, g)
      BY <2>1 DEF StarterDone
    <3>2. /\ DOMAIN starters \subseteq 1..generation
          /\ starters \in [DOMAIN starters -> StarterRecords]
      BY DEF TypeOK
    <3> QED
      BY <3>1, <3>2, WithoutType
  <2>2. CASE ~(s.scan = "none" /\ s.next = 0)
    BY <2>2 DEF StarterDone, TypeOK
  <2> QED
    BY <2>1, <2>2
<1>2. jobs' \in [Jobs -> JobRecords]
  <2>1. CASE s.scan = "none" /\ s.next = 0
    <3>1. s.job \in Jobs \cup {NoJob}
      BY DEF StarterRecords
    <3>2. (IF s.job = NoJob THEN 0 ELSE jobs[s.job].since) \in Nat
      BY <3>1 DEF TypeOK, JobRecords
    <3> QED
      BY <2>1, <3>1, <3>2, AfterRefreshType DEF StarterDone
  <2>2. CASE ~(s.scan = "none" /\ s.next = 0)
    BY <2>2 DEF StarterDone, TypeOK
  <2> QED
    BY <2>1, <2>2
<1> QED
  BY <1>1, <1>2

LEMMA TypeInit == Init => TypeOK
<1> SUFFICES ASSUME Init PROVE TypeOK
  OBVIOUS
<1>1. jobs \in [Jobs -> JobRecords]
  BY DEF Init, JobRecords
<1>2. /\ DOMAIN refreshes = {} /\ refreshes = [g \in DOMAIN refreshes |-> refreshes[g]]
      /\ DOMAIN starters = {} /\ starters = [g \in DOMAIN starters |-> starters[g]]
      /\ DOMAIN scans = {} /\ scans = [g \in DOMAIN scans |-> scans[g]]
  BY DEF Init, Nothing
<1>3. /\ refreshes \in [DOMAIN refreshes -> RefreshRecords]
      /\ starters \in [DOMAIN starters -> StarterRecords]
      /\ scans \in [DOMAIN scans -> ScanRecords]
  BY <1>2
<1>4. /\ {cache, generation, attempts, finished, wanted} \subseteq Nat
      /\ {loading, queued, scanLoading, scanQueued} \subseteq BOOLEAN
      /\ {shuttingDown, orphaned} \subseteq BOOLEAN
  <2>1. {cache, generation, attempts, finished, wanted} \subseteq Nat
    BY DEF Init
  <2>2. /\ {loading, queued, scanLoading, scanQueued} \subseteq BOOLEAN
        /\ {shuttingDown, orphaned} \subseteq BOOLEAN
    BY Zenon DEF Init
  <2> QED
    BY <2>1, <2>2
<1>5. /\ DOMAIN refreshes \subseteq 1..generation
      /\ DOMAIN starters \subseteq 1..generation
      /\ DOMAIN scans \subseteq 1..generation
  BY <1>2
<1> QED
  BY <1>1, <1>3, <1>4, <1>5 DEF TypeOK

LEMMA TypeStep == TypeOK /\ Launches /\ [Next]_vars => TypeOK'
<1> SUFFICES ASSUME TypeOK, Launches, [Next]_vars PROVE TypeOK'
  OBVIOUS
<1> USE DEF service, store, history
<1>1. ASSUME NEW force \in BOOLEAN, RequestRefresh(force) PROVE TypeOK'
  <2> DEFINE s == [job |-> NoJob, scan |-> "none", next |-> NextGeneration,
                   force |-> force, refused |-> FALSE]
  <2>1. s \in StarterRecords
    BY DEF StarterRecords, TypeOK, NextGeneration
  <2>2. /\ DOMAIN starters \subseteq 1..generation'
        /\ starters \in [DOMAIN starters -> StarterRecords]
        /\ NextGeneration \in 1..generation'
    BY <1>1 DEF RequestRefresh, TypeOK, NextGeneration
  <2>3. /\ DOMAIN starters' \subseteq 1..generation'
        /\ starters' \in [DOMAIN starters' -> StarterRecords]
    <3>1. starters' = With(starters, NextGeneration, s)
      BY <1>1 DEF RequestRefresh
    <3> HIDE DEF s
    <3> QED
      BY <2>1, <2>2, <3>1, WithType
  <2>4. /\ generation' \in Nat /\ wanted' \in Nat
        /\ DOMAIN refreshes \subseteq 1..generation'
        /\ DOMAIN scans \subseteq 1..generation'
    BY <1>1 DEF RequestRefresh, TypeOK, NextGeneration
  <2> QED
    BY <1>1, <2>3, <2>4 DEF RequestRefresh, TypeOK
<1>2. ASSUME RequestFollowUp PROVE TypeOK'
  BY <1>2 DEF RequestFollowUp, FollowUp, NextGeneration, TypeOK
<1>3. ASSUME NEW j \in Jobs, BeginJobRefresh(j) PROVE TypeOK'
  <2> DEFINE r == [job |-> j, force |-> TRUE, at |-> "collect"]
  <2>1. r \in RefreshRecords
    BY DEF RefreshRecords
  <2>2. /\ DOMAIN refreshes \subseteq 1..generation'
        /\ refreshes \in [DOMAIN refreshes -> RefreshRecords]
        /\ NextGeneration \in 1..generation'
    BY <1>3 DEF BeginJobRefresh, TypeOK, NextGeneration
  <2>3. refreshes' = With(refreshes, NextGeneration, r)
    BY <1>3 DEF BeginJobRefresh
  <2>4. /\ DOMAIN refreshes' \subseteq 1..generation'
        /\ refreshes' \in [DOMAIN refreshes' -> RefreshRecords]
    <3> HIDE DEF r
    <3> QED
      BY <2>1, <2>2, <2>3, WithType
  <2>5. jobs' \in [Jobs -> JobRecords]
    BY <1>3 DEF BeginJobRefresh, TypeOK, JobRecords
  <2>6. /\ generation' \in Nat
        /\ DOMAIN starters \subseteq 1..generation'
        /\ DOMAIN scans \subseteq 1..generation'
    BY <1>3 DEF BeginJobRefresh, TypeOK, NextGeneration
  <2> QED
    BY <1>3, <2>4, <2>5, <2>6 DEF BeginJobRefresh, TypeOK
<1>4. ASSUME NEW g \in DOMAIN refreshes, Collected(g) PROVE TypeOK'
  <2>1. refreshes[g] \in RefreshRecords
    BY DEF TypeOK
  <2>2. /\ [refreshes[g] EXCEPT !.at = "abandon"] \in RefreshRecords
        /\ [refreshes[g] EXCEPT !.at = "publish"] \in RefreshRecords
    BY <2>1 DEF RefreshRecords
  <2>3. refreshes' \in [DOMAIN refreshes -> RefreshRecords]
    BY <1>4, <2>2 DEF Collected, TypeOK
  <2> QED
    BY <1>4, <2>3 DEF Collected, TypeOK
<1>5. ASSUME NEW g \in DOMAIN refreshes
      PROVE  /\ refreshes[g].job \in Jobs \cup {NoJob}
             /\ refreshes[g].force \in BOOLEAN
             /\ DOMAIN Without(refreshes, g) \subseteq 1..generation
             /\ Without(refreshes, g) \in [DOMAIN Without(refreshes, g) -> RefreshRecords]
  BY DEF TypeOK, RefreshRecords, Without
<1>6. ASSUME NEW g \in DOMAIN refreshes, Abandon(g) PROVE TypeOK'
  <2>1. jobs' \in [Jobs -> JobRecords]
    BY <1>5, <1>6, AfterRefreshType DEF Abandon, TypeOK
  <2> QED
    BY <1>5, <1>6, <2>1 DEF Abandon, TypeOK
<1>7. ASSUME NEW g \in DOMAIN refreshes, Discard(g) PROVE TypeOK'
  <2>1. jobs' \in [Jobs -> JobRecords]
    BY <1>5, <1>7, AfterRefreshType DEF Discard, TypeOK
  <2> QED
    BY <1>5, <1>7, <2>1 DEF Discard, TypeOK
<1>8. ASSUME NEW g \in DOMAIN refreshes, Publish(g) PROVE TypeOK'
  <2> DEFINE next == IF queued THEN NextGeneration ELSE 0
             S(wantScan) ==
                [job |-> refreshes[g].job,
                 scan |-> IF MustLaunch(wantScan) THEN "start" ELSE "none",
                 next |-> next, force |-> TRUE, refused |-> FALSE]
  <2>1. PICK wantScan \in BOOLEAN :
          /\ DecideScan(wantScan, refreshes[g].force)
          /\ starters' = IF queued \/ MustLaunch(wantScan)
                         THEN With(starters, g, S(wantScan)) ELSE starters
          /\ IF queued \/ MustLaunch(wantScan)
             THEN jobs' = IF refreshes[g].job = NoJob THEN jobs
                          ELSE [jobs EXCEPT ![refreshes[g].job].since = attempts]
             ELSE AfterRefresh(refreshes[g].job, attempts)
    BY <1>8 DEF Publish
  <2>2. S(wantScan) \in StarterRecords
    BY <1>5 DEF StarterRecords, TypeOK, NextGeneration
  <2>3. /\ generation' \in Nat
        /\ generation <= generation'
    BY <1>8 DEF Publish, TypeOK, NextGeneration
  <2>4. /\ DOMAIN starters \subseteq 1..generation'
        /\ starters \in [DOMAIN starters -> StarterRecords]
        /\ g \in 1..generation'
    BY <2>3 DEF TypeOK
  <2>5. /\ DOMAIN starters' \subseteq 1..generation'
        /\ starters' \in [DOMAIN starters' -> StarterRecords]
    <3> HIDE DEF S
    <3> QED
      BY <2>1, <2>2, <2>4, WithType
  <2>6. jobs' \in [Jobs -> JobRecords]
    <3>1. CASE queued \/ MustLaunch(wantScan)
      <4>1. ASSUME NEW j \in Jobs
            PROVE  [jobs[j] EXCEPT !.since = attempts] \in JobRecords
        BY DEF TypeOK, JobRecords
      <4> QED
        BY <1>5, <2>1, <3>1, <4>1 DEF TypeOK
    <3>2. CASE ~(queued \/ MustLaunch(wantScan))
      BY <1>5, <2>1, <3>2, AfterRefreshType DEF TypeOK
    <3> QED
      BY <3>1, <3>2
  <2>7. {scanLoading', scanQueued'} \subseteq BOOLEAN
    BY <1>5, <2>1 DEF DecideScan, TypeOK
  <2>8. /\ DOMAIN refreshes' \subseteq 1..generation'
        /\ refreshes' \in [DOMAIN refreshes' -> RefreshRecords]
        /\ DOMAIN scans \subseteq 1..generation'
    BY <1>5, <1>8, <2>3 DEF Publish, TypeOK
  <2>9. cache' \in Nat /\ wanted' \in Nat
    BY <1>8 DEF Publish, TypeOK
  <2> QED
    BY <1>8, <2>3, <2>5, <2>6, <2>7, <2>8, <2>9 DEF Publish, TypeOK
<1>9. ASSUME NEW g \in DOMAIN refreshes, Panic(g) PROVE TypeOK'
  <2>1. [jobs[refreshes[g].job] EXCEPT !.at = "idle"] \in JobRecords
    BY <1>5, <1>9 DEF Panic, TypeOK, JobRecords
  <2>2. jobs' \in [Jobs -> JobRecords]
    BY <1>5, <1>9, <2>1 DEF Panic, TypeOK
  <2> QED
    BY <1>5, <1>9, <2>2 DEF Panic, TypeOK
<1>10. ASSUME NEW g \in DOMAIN starters
       PROVE  /\ starters[g] \in StarterRecords
              /\ [starters[g] EXCEPT !.scan = "refused"] \in StarterRecords
              /\ [starters[g] EXCEPT !.scan = "none"] \in StarterRecords
              /\ [starters[g] EXCEPT !.next = 0] \in StarterRecords
              /\ [starters[g] EXCEPT !.refused = TRUE] \in StarterRecords
  BY DEF TypeOK, StarterRecords
<1>11. ASSUME NEW g \in DOMAIN starters, StartScan(g) PROVE TypeOK'
  <2>1. /\ DOMAIN starters' \subseteq 1..generation
        /\ starters' \in [DOMAIN starters' -> StarterRecords]
        /\ jobs' \in [Jobs -> JobRecords]
    BY <1>10, <1>11, StarterDoneType DEF StartScan
  <2>2. /\ DOMAIN scans' \subseteq 1..generation
        /\ scans' \in [DOMAIN scans' -> ScanRecords]
    <3>1. CASE shuttingDown
      BY <1>11, <3>1 DEF StartScan, TypeOK
    <3>2. CASE ~shuttingDown
      <4>1. [at |-> "check", attempt |-> 0] \in ScanRecords
        BY DEF ScanRecords
      <4>2. /\ DOMAIN scans \subseteq 1..generation
            /\ scans \in [DOMAIN scans -> ScanRecords]
            /\ g \in 1..generation
        BY DEF TypeOK
      <4>3. scans' = With(scans, g, [at |-> "check", attempt |-> 0])
        BY <1>11, <3>2 DEF StartScan
      <4> QED
        BY <4>1, <4>2, <4>3, WithType
    <3> QED
      BY <3>1, <3>2
  <2> QED
    BY <1>11, <2>1, <2>2 DEF StartScan, TypeOK
<1>12. ASSUME NEW g \in DOMAIN starters, ScanRefused(g) PROVE TypeOK'
  <2>1. /\ DOMAIN starters' \subseteq 1..generation
        /\ starters' \in [DOMAIN starters' -> StarterRecords]
        /\ jobs' \in [Jobs -> JobRecords]
    BY <1>10, <1>12, StarterDoneType DEF ScanRefused
  <2> QED
    BY <1>12, <2>1 DEF ScanRefused, TypeOK
<1>13. ASSUME NEW g \in DOMAIN starters, StartRefresh(g) PROVE TypeOK'
  <2>1. CASE shuttingDown
    <3>1. /\ starters' = [starters EXCEPT ![g].refused = TRUE]
          /\ UNCHANGED <<refreshes, jobs>>
      BY <1>13, <2>1 DEF StartRefresh
    <3>2. /\ DOMAIN starters' \subseteq 1..generation
          /\ starters' \in [DOMAIN starters' -> StarterRecords]
      BY <1>10, <3>1 DEF TypeOK
    <3> QED
      BY <1>13, <3>1, <3>2 DEF StartRefresh, TypeOK
  <2>2. CASE ~shuttingDown
    <3> DEFINE r == [job |-> NoJob, force |-> starters[g].force, at |-> "collect"]
    <3>1. /\ StarterDone(g, [starters[g] EXCEPT !.next = 0])
          /\ refreshes' = With(refreshes, starters[g].next, r)
      BY <1>13, <2>2 DEF StartRefresh
    <3>2. /\ DOMAIN starters' \subseteq 1..generation
          /\ starters' \in [DOMAIN starters' -> StarterRecords]
          /\ jobs' \in [Jobs -> JobRecords]
      BY <1>10, <3>1, StarterDoneType
    <3>3. r \in RefreshRecords
      BY <1>10 DEF RefreshRecords, StarterRecords
    <3>4. /\ DOMAIN refreshes \subseteq 1..generation
          /\ refreshes \in [DOMAIN refreshes -> RefreshRecords]
          /\ starters[g].next \in 1..generation
      BY <1>10, <1>13 DEF StartRefresh, Launches, TypeOK, StarterRecords
    <3>5. /\ DOMAIN refreshes' \subseteq 1..generation
          /\ refreshes' \in [DOMAIN refreshes' -> RefreshRecords]
      <4> HIDE DEF r
      <4> QED
        BY <3>1, <3>3, <3>4, WithType
    <3> QED
      BY <1>13, <3>2, <3>5 DEF StartRefresh, TypeOK
  <2> QED
    BY <2>1, <2>2
<1>14. ASSUME NEW g \in DOMAIN starters, RefreshRefused(g) PROVE TypeOK'
  <2>1. /\ DOMAIN starters' \subseteq 1..generation
        /\ starters' \in [DOMAIN starters' -> StarterRecords]
        /\ jobs' \in [Jobs -> JobRecords]
    BY <1>10, <1>14, StarterDoneType DEF RefreshRefused
  <2> QED
    BY <1>14, <2>1 DEF RefreshRefused, TypeOK
<1>15. ASSUME NEW g \in DOMAIN scans
       PROVE  /\ scans[g] \in ScanRecords
              /\ \A at \in {"check", "quit", "begin"} :
                    [scans[g] EXCEPT !.at = at] \in ScanRecords
              /\ DOMAIN Without(scans, g) \subseteq 1..generation
              /\ Without(scans, g) \in [DOMAIN Without(scans, g) -> ScanRecords]
  BY DEF TypeOK, ScanRecords, Without
<1>16. ASSUME NEW g \in DOMAIN scans, CheckScan(g) PROVE TypeOK'
  <2>1. scans' \in [DOMAIN scans -> ScanRecords]
    BY <1>15, <1>16 DEF CheckScan, TypeOK
  <2> QED
    BY <1>16, <2>1 DEF CheckScan, TypeOK
<1>17. ASSUME NEW g \in DOMAIN scans, QuitScan(g) PROVE TypeOK'
  BY <1>15, <1>17 DEF QuitScan, TypeOK
<1>18. ASSUME NEW g \in DOMAIN scans, BeginScan(g) PROVE TypeOK'
  <2>1. [at |-> "scan", attempt |-> attempts + 1] \in ScanRecords
    BY DEF ScanRecords, TypeOK
  <2>2. scans' \in [DOMAIN scans -> ScanRecords]
    BY <1>18, <2>1 DEF BeginScan, TypeOK
  <2> QED
    BY <1>18, <2>2 DEF BeginScan, TypeOK
<1>19. ASSUME NEW g \in DOMAIN scans, EndScan(g) PROVE TypeOK'
  <2>1. finished' \in Nat
    BY <1>15, <1>19 DEF EndScan, TypeOK, ScanRecords
  <2>2. /\ DOMAIN scans' \subseteq 1..generation
        /\ scans' \in [DOMAIN scans' -> ScanRecords]
    BY <1>15, <1>19 DEF EndScan, TypeOK
  <2>3. {scanLoading', scanQueued'} \subseteq BOOLEAN
    BY <1>19 DEF EndScan, StaysLoading, TypeOK
  <2> QED
    BY <1>19, <2>1, <2>2, <2>3 DEF EndScan, TypeOK
<1>20. ASSUME NEW j \in Jobs
       PROVE  /\ \A at \in {"idle", "scanned"} :
                    [jobs EXCEPT ![j].at = at] \in [Jobs -> JobRecords]
              /\ [jobs EXCEPT ![j].cancelled = TRUE] \in [Jobs -> JobRecords]
  <2>1. jobs[j] \in JobRecords
    BY DEF TypeOK
  <2>2. /\ \A at \in {"idle", "scanned"} : [jobs[j] EXCEPT !.at = at] \in JobRecords
        /\ [jobs[j] EXCEPT !.cancelled = TRUE] \in JobRecords
    BY <2>1 DEF JobRecords
  <2> QED
    BY <2>2 DEF TypeOK
<1>21. ASSUME NEW j \in Jobs, WaitEnds(j) \/ WaitGivesUp(j) \/ CancelJob(j)
       PROVE  TypeOK'
  BY <1>20, <1>21 DEF WaitEnds, WaitGivesUp, CancelJob, TypeOK
<1>22. CASE BeginShutdown
  BY <1>22 DEF BeginShutdown, TypeOK
<1>23. CASE UNCHANGED vars
  BY <1>23 DEF vars, TypeOK
<1> QED
  BY <1>1, <1>2, <1>3, <1>4, <1>6, <1>7, <1>8, <1>9, <1>11, <1>12, <1>13, <1>14,
     <1>16, <1>17, <1>18, <1>19, <1>21, <1>22, <1>23
  DEF Next, Request, RefreshStep, StarterStep, ScanStep, Stopped

-----------------------------------------------------------------------------
(* The newest refresh owns the flags and the cache.                        *)

LEMMA OwnershipInit == Init => Ownership
<1> SUFFICES ASSUME Init PROVE Ownership
  OBVIOUS
<1>1. DOMAIN refreshes = {} /\ DOMAIN starters = {}
  BY DEF Init, Nothing
<1>2. ~loading /\ ~orphaned /\ cache = 0 /\ generation = 0 /\ wanted = 0
  BY DEF Init
<1>3. ~Alive(generation)
  BY <1>1 DEF Alive
<1> QED
  BY <1>1, <1>2, <1>3 DEF Ownership, Launches, Single, LoadingIsOwned,
     CacheIsBehind, WantedIsNext, ForcedRefreshIsServed

(* Ownership depends on what refreshes and starters there are, not on how  *)
(* far they have come.                                                     *)
LEMMA OwnershipFrame ==
    ASSUME Ownership, UNCHANGED <<service, history>>,
           DOMAIN refreshes' = DOMAIN refreshes,
           UNCHANGED starters
    PROVE  Ownership'
BY DEF Ownership, Launches, Single, LoadingIsOwned, CacheIsBehind,
   WantedIsNext, ForcedRefreshIsServed, Alive, service, history

(* A starter has launched the scan, or was refused to.                     *)
LEMMA OwnershipOfScanStarter ==
    ASSUME TypeOK, Ownership, UNCHANGED <<service, history, refreshes>>,
           NEW g \in DOMAIN starters, starters[g].scan # "none",
           NEW scan \in {"none", "refused"},
           StarterDone(g, [starters[g] EXCEPT !.scan = scan])
    PROVE  Ownership'
<1> DEFINE s == [starters[g] EXCEPT !.scan = scan]
<1>1. s.next = starters[g].next /\ s.scan = scan /\ s.refused = starters[g].refused
  BY DEF TypeOK, StarterRecords
<1>2. ~starters[g].refused
  BY DEF Ownership, Launches
<1>0. StarterDone(g, s)
  OBVIOUS
<1> HIDE DEF s
<1>3. /\ DOMAIN starters' \subseteq DOMAIN starters
      /\ \A d \in DOMAIN starters' :
            starters'[d] = IF d = g THEN s ELSE starters[d]
      /\ \A d \in DOMAIN starters \ DOMAIN starters' :
            d = g /\ s.scan = "none" /\ s.next = 0
      /\ g \in DOMAIN starters' => s.scan # "none" \/ s.next # 0
  BY <1>0, StarterDoneFacts
<1>4. \A d \in DOMAIN starters' : starters'[d].next = starters[d].next
  BY <1>1, <1>3
<1>5. Launches'
  BY <1>1, <1>2, <1>3, <1>4 DEF Ownership, Launches, service
<1>6. Single'
  BY <1>3, <1>4 DEF Ownership, Single
<1>7. Alive(generation)' <=> Alive(generation)
  <2>1. generation' = generation
    BY DEF service
  <2>2. ASSUME NEW d \in DOMAIN starters, starters[d].next = generation
        PROVE  d \in DOMAIN starters'
    BY <1>1, <1>3, <2>2 DEF TypeOK
  <2> QED
    BY <1>3, <1>4, <2>1, <2>2 DEF Alive
<1> QED
  BY <1>5, <1>6, <1>7 DEF Ownership, LoadingIsOwned, CacheIsBehind,
     WantedIsNext, ForcedRefreshIsServed, service, history

(* A refresh ends without publishing.                                      *)
LEMMA OwnershipOfEndedRefresh ==
    ASSUME TypeOK, Ownership, NEW g \in DOMAIN refreshes,
           refreshes' = Without(refreshes, g), UNCHANGED <<starters, generation>>
    PROVE  /\ Launches' /\ Single'
           /\ Alive(generation)' <=> Alive(generation) /\ ~IsCurrent(g)
<1>1. DOMAIN refreshes' = DOMAIN refreshes \ {g}
  BY DEF Without
<1>2. Launches' /\ Single'
  BY <1>1 DEF Ownership, Launches, Single
<1>3. g # 0
  BY DEF TypeOK
<1>4. Alive(generation)' <=> Alive(generation) /\ ~IsCurrent(g)
  BY <1>1, <1>3 DEF Ownership, Single, Alive, IsCurrent
<1> QED
  BY <1>2, <1>4

(* The starter that launches refresh n has launched it or given it up.     *)
LEMMA OwnershipOfStarter ==
    ASSUME TypeOK, Ownership, NEW g \in DOMAIN starters,
           starters[g].scan = "none",
           StarterDone(g, [starters[g] EXCEPT !.next = 0])
    PROVE  /\ DOMAIN starters' = DOMAIN starters \ {g}
           /\ \A d \in DOMAIN starters' : starters'[d] = starters[d]
           /\ starters[g].next \in 1..generation
<1> DEFINE s == [starters[g] EXCEPT !.next = 0]
<1>1. s.next = 0 /\ s.scan = "none"
  BY DEF TypeOK, StarterRecords
<1>2. starters[g].next \in Nat
  BY DEF TypeOK, StarterRecords
<1>3. StarterDone(g, s)
  OBVIOUS
<1> HIDE DEF s
<1>4. /\ DOMAIN starters' = DOMAIN starters \ {g}
      /\ \A d \in DOMAIN starters' : starters'[d] = starters[d]
  BY <1>1, <1>3 DEF StarterDone, Without
<1>5. starters[g].next \in 1..generation
  BY <1>2 DEF Ownership, Launches, TypeOK
<1> QED
  BY <1>4, <1>5

LEMMA OwnershipStep == TypeOK /\ Ownership /\ [Next]_vars => Ownership'
<1> SUFFICES ASSUME TypeOK, Ownership, [Next]_vars PROVE Ownership'
  OBVIOUS
<1> USE DEF service, store, history
<1>1. ASSUME NEW force \in BOOLEAN, RequestRefresh(force) PROVE Ownership'
  <2> DEFINE n == generation + 1
             s == [job |-> NoJob, scan |-> "none", next |-> n,
                   force |-> force, refused |-> FALSE]
  <2>1. /\ n \notin DOMAIN starters /\ n \notin DOMAIN refreshes
        /\ n \in Nat /\ n # 0
    BY DEF TypeOK
  <2>2. ~loading /\ wanted = 0 /\ ~orphaned
    BY <1>1 DEF RequestRefresh, MayBegin, Ownership, ForcedRefreshIsServed, LoadingIsOwned
  <2>3. /\ DOMAIN starters' = DOMAIN starters \cup {n}
        /\ \A d \in DOMAIN starters : starters'[d] = starters[d]
        /\ starters'[n].scan = "none" /\ starters'[n].next = n /\ ~starters'[n].refused
    BY <1>1, <2>1 DEF RequestRefresh, NextGeneration, With
  <2>4. /\ generation' = n /\ loading' /\ ~orphaned' /\ refreshes' = refreshes
        /\ cache' = cache /\ wanted' \in {0, n}
    BY <1>1, <2>2 DEF RequestRefresh, NextGeneration
  <2>5. \A d \in DOMAIN starters : starters[d].next <= generation /\ starters[d].next # n
    BY DEF Ownership, Launches, TypeOK, StarterRecords
  <2> HIDE DEF n
  <2>6. Launches'
    BY <2>1, <2>3, <2>4, <2>5 DEF Ownership, Launches, TypeOK, StarterRecords, n
  <2>7. Single'
    BY <2>1, <2>3, <2>4, <2>5 DEF Ownership, Single
  <2>8. Alive(generation)'
    BY <2>3, <2>4 DEF Alive
  <2>9. CacheIsBehind'
    BY <2>4 DEF Ownership, CacheIsBehind, TypeOK, n
  <2> QED
    BY <2>4, <2>6, <2>7, <2>8, <2>9
    DEF Ownership, LoadingIsOwned, WantedIsNext, ForcedRefreshIsServed, TypeOK, n
<1>2. ASSUME RequestFollowUp PROVE Ownership'
  <2>1. Launches' /\ Single' /\ (Alive(generation)' <=> Alive(generation))
    BY <1>2 DEF RequestFollowUp, Ownership, Launches, Single, Alive
  <2> QED
    BY <1>2, <2>1 DEF RequestFollowUp, FollowUp, NextGeneration, Ownership,
       LoadingIsOwned, CacheIsBehind, WantedIsNext, ForcedRefreshIsServed, TypeOK
<1>3. ASSUME NEW j \in Jobs, BeginJobRefresh(j) PROVE Ownership'
  <2> DEFINE n == generation + 1
  <2>1. n \notin DOMAIN starters /\ n \notin DOMAIN refreshes
    BY DEF TypeOK
  <2>2. DOMAIN refreshes' = DOMAIN refreshes \cup {n} /\ starters' = starters
    BY <1>3 DEF BeginJobRefresh, NextGeneration, With
  <2>3. generation' = n /\ loading' /\ ~orphaned' /\ cache' = cache /\ wanted' = wanted
    BY <1>3 DEF BeginJobRefresh, NextGeneration
  <2>4. \A d \in DOMAIN starters : starters[d].next <= generation /\ starters[d].next # n
    BY DEF Ownership, Launches, TypeOK, StarterRecords
  <2>5. Launches' /\ Single'
    BY <2>1, <2>2, <2>3, <2>4 DEF Ownership, Launches, Single, TypeOK, StarterRecords
  <2>6. Alive(generation)'
    BY <2>2, <2>3 DEF Alive
  <2> QED
    BY <2>3, <2>5, <2>6 DEF Ownership, LoadingIsOwned, CacheIsBehind, WantedIsNext,
       ForcedRefreshIsServed, TypeOK
<1>4. ASSUME NEW g \in DOMAIN refreshes, Collected(g) PROVE Ownership'
  BY <1>4, OwnershipFrame DEF Collected
<1>5. ASSUME NEW g \in DOMAIN refreshes, Abandon(g) PROVE Ownership'
  <2>1. /\ Launches' /\ Single'
        /\ Alive(generation)' <=> Alive(generation) /\ ~IsCurrent(g)
    BY <1>5, OwnershipOfEndedRefresh DEF Abandon
  <2>2. IsCurrent(g) => Alive(generation)
    BY DEF IsCurrent, Alive
  <2> QED
    BY <1>5, <2>1, <2>2 DEF Abandon, Ownership, LoadingIsOwned, CacheIsBehind,
       WantedIsNext, ForcedRefreshIsServed, TypeOK
<1>6. ASSUME NEW g \in DOMAIN refreshes, Discard(g) PROVE Ownership'
  <2>1. /\ Launches' /\ Single'
        /\ Alive(generation)' <=> Alive(generation)
    BY <1>6, OwnershipOfEndedRefresh DEF Discard
  <2> QED
    BY <1>6, <2>1 DEF Discard, Ownership, LoadingIsOwned, CacheIsBehind,
       WantedIsNext, ForcedRefreshIsServed
<1>7. ASSUME NEW g \in DOMAIN refreshes, Panic(g) PROVE Ownership'
  <2>1. /\ Launches' /\ Single'
        /\ Alive(generation)' <=> Alive(generation) /\ ~IsCurrent(g)
    BY <1>7, OwnershipOfEndedRefresh DEF Panic
  <2>2. IsCurrent(g) => Alive(generation)
    BY DEF IsCurrent, Alive
  <2> QED
    BY <1>7, <2>1, <2>2 DEF Panic, Ownership, LoadingIsOwned, CacheIsBehind,
       WantedIsNext, ForcedRefreshIsServed
<1>8. ASSUME NEW g \in DOMAIN refreshes, Publish(g) PROVE Ownership'
  <2> DEFINE n == generation + 1
             next == IF queued THEN n ELSE 0
  <2>1. g = generation /\ g \in Nat /\ g # 0 /\ n \in Nat
    BY <1>8 DEF Publish, IsCurrent, TypeOK
  <2>2. g \notin DOMAIN starters /\ DOMAIN refreshes' = DOMAIN refreshes \ {g}
    BY <1>8 DEF Publish, Ownership, Single, Without
  <2>3. /\ cache' = g /\ loading' = queued /\ ~queued' /\ ~orphaned'
        /\ generation' = IF queued THEN n ELSE generation
        /\ wanted' = IF wanted <= g THEN 0 ELSE wanted
    BY <1>8 DEF Publish, NextGeneration
  <2>4. /\ \A d \in DOMAIN starters : starters'[d] = starters[d]
        /\ \/ DOMAIN starters' = DOMAIN starters /\ ~queued
           \/ /\ DOMAIN starters' = DOMAIN starters \cup {g}
              /\ starters'[g].next = next /\ ~starters'[g].refused
              /\ starters'[g].scan # "none" \/ queued
    <3> DEFINE S(wantScan) ==
                  [job |-> refreshes[g].job,
                   scan |-> IF MustLaunch(wantScan) THEN "start" ELSE "none",
                   next |-> next, force |-> TRUE, refused |-> FALSE]
    <3>1. PICK wantScan \in BOOLEAN :
             starters' = IF queued \/ MustLaunch(wantScan)
                         THEN With(starters, g, S(wantScan)) ELSE starters
      BY <1>8 DEF Publish, NextGeneration
    <3>2. /\ S(wantScan).next = next /\ ~S(wantScan).refused
          /\ MustLaunch(wantScan) => S(wantScan).scan # "none"
      OBVIOUS
    <3> HIDE DEF S
    <3> QED
      BY <2>2, <3>1, <3>2 DEF With
  <2>5. \A d \in DOMAIN starters :
           /\ starters[d].next <= generation
           /\ starters[d].next # n /\ starters[d].next # g
    BY DEF Ownership, Launches, Single, TypeOK, StarterRecords
  <2>6. n \notin DOMAIN starters /\ n \notin DOMAIN refreshes /\ n # g
    BY <2>1 DEF TypeOK
  <2>7. Launches'
    BY <2>1, <2>3, <2>4, <2>5, <2>6 DEF Ownership, Launches, TypeOK, StarterRecords
  <2>8. Single'
    BY <2>1, <2>2, <2>4, <2>5, <2>6 DEF Ownership, Single
  <2>9. Alive(generation)' <=> queued
    BY <2>1, <2>2, <2>3, <2>4, <2>5, <2>6 DEF Alive
  <2>10. wanted > g => loading /\ queued /\ wanted = n
    BY <2>1 DEF Ownership, WantedIsNext, ForcedRefreshIsServed, TypeOK
  <2>11. ForcedRefreshIsServed' /\ WantedIsNext' /\ CacheIsBehind'
    BY <2>1, <2>3, <2>9, <2>10 DEF ForcedRefreshIsServed, WantedIsNext, CacheIsBehind, TypeOK
  <2> QED
    BY <2>3, <2>7, <2>8, <2>9, <2>11 DEF Ownership, LoadingIsOwned
<1>9. ASSUME NEW g \in DOMAIN starters, StartScan(g) \/ ScanRefused(g) PROVE Ownership'
  BY <1>9, OwnershipOfScanStarter DEF StartScan, ScanRefused
<1>10. ASSUME NEW g \in DOMAIN starters, StartRefresh(g) PROVE Ownership'
  <2>1. CASE shuttingDown
    <3>1. /\ DOMAIN starters' = DOMAIN starters
          /\ \A d \in DOMAIN starters : /\ starters'[d].next = starters[d].next
                                        /\ starters'[d].scan = starters[d].scan
          /\ \A d \in DOMAIN starters \ {g} : starters'[d].refused = starters[d].refused
      BY <1>10, <2>1 DEF StartRefresh, TypeOK, StarterRecords
    <3>2. starters[g].scan = "none" /\ UNCHANGED <<service, history, refreshes>>
      BY <1>10, <2>1 DEF StartRefresh
    <3>3. Launches' /\ Single' /\ (Alive(generation)' <=> Alive(generation))
      BY <3>1, <3>2 DEF Ownership, Launches, Single, Alive
    <3> QED
      BY <3>2, <3>3 DEF Ownership, LoadingIsOwned, CacheIsBehind, WantedIsNext,
         ForcedRefreshIsServed
  <2>2. CASE ~shuttingDown
    <3> DEFINE n == starters[g].next
    <3>1. /\ DOMAIN starters' = DOMAIN starters \ {g}
          /\ \A d \in DOMAIN starters' : starters'[d] = starters[d]
          /\ n \in 1..generation
      BY <1>10, <2>2, OwnershipOfStarter DEF StartRefresh
    <3>2. DOMAIN refreshes' = DOMAIN refreshes \cup {n} /\ UNCHANGED <<service, history>>
      BY <1>10, <2>2 DEF StartRefresh, With
    <3>3. n \notin DOMAIN starters'
      BY <3>1 DEF Ownership, Launches
    <3>4. Launches'
      BY <3>1, <3>2 DEF Ownership, Launches
    <3>5. Single'
      BY <3>1, <3>2, <3>3 DEF Ownership, Single
    <3>6. Alive(generation)' <=> Alive(generation)
      BY <3>1, <3>2 DEF Alive
    <3> QED
      BY <3>2, <3>4, <3>5, <3>6 DEF Ownership, LoadingIsOwned, CacheIsBehind, WantedIsNext,
         ForcedRefreshIsServed
  <2> QED
    BY <2>1, <2>2
<1>11. ASSUME NEW g \in DOMAIN starters, RefreshRefused(g) PROVE Ownership'
  <2> DEFINE n == starters[g].next
  <2>1. /\ DOMAIN starters' = DOMAIN starters \ {g}
        /\ \A d \in DOMAIN starters' : starters'[d] = starters[d]
        /\ n \in 1..generation
    BY <1>11, OwnershipOfStarter DEF RefreshRefused, Ownership, Launches
  <2>2. Launches' /\ Single'
    BY <1>11, <2>1 DEF RefreshRefused, Ownership, Launches, Single
  <2>3. /\ Alive(generation)' <=> Alive(generation) /\ ~IsCurrent(n)
        /\ IsCurrent(n) => Alive(generation)
    BY <1>11, <2>1 DEF RefreshRefused, Ownership, Single, Alive, IsCurrent
  <2> QED
    BY <1>11, <2>2, <2>3 DEF RefreshRefused, Ownership, LoadingIsOwned, CacheIsBehind,
       WantedIsNext, ForcedRefreshIsServed, TypeOK
<1>12. ASSUME UNCHANGED <<service, history, refreshes, starters>> PROVE Ownership'
  BY <1>12, OwnershipFrame
<1>13. ASSUME NEW g \in DOMAIN scans, ScanStep(g) PROVE Ownership'
  BY <1>12, <1>13 DEF ScanStep, CheckScan, QuitScan, BeginScan, EndScan
<1>14. ASSUME NEW j \in Jobs, WaitEnds(j) \/ WaitGivesUp(j) \/ CancelJob(j) PROVE Ownership'
  BY <1>12, <1>14 DEF WaitEnds, WaitGivesUp, CancelJob
<1>15. CASE BeginShutdown \/ UNCHANGED vars
  BY <1>12, <1>15 DEF BeginShutdown, vars
<1> QED
  BY <1>1, <1>2, <1>3, <1>4, <1>5, <1>6, <1>7, <1>8, <1>9, <1>10, <1>11,
     <1>13, <1>14, <1>15
  DEF Next, Request, RefreshStep, StarterStep, Stopped

-----------------------------------------------------------------------------
(* The scan token.                                                         *)

LEMMA ScanTokenInit == Init => ScanToken
BY DEF Init, Nothing, ScanToken, ScanStarters

(* Nothing that the token is about has changed.                            *)
LEMMA ScanTokenFrame ==
    ASSUME ScanToken, scanLoading' = scanLoading, DOMAIN scans' = DOMAIN scans,
           ScanStarters' = ScanStarters
    PROVE  ScanToken'
BY DEF ScanToken

(* Starter g launches its refresh, if any: it has no scan to launch.       *)
LEMMA ScanStartersOfDone ==
    ASSUME TypeOK, NEW g \in DOMAIN starters,
           starters[g].scan = "none",
           StarterDone(g, [starters[g] EXCEPT !.next = 0])
    PROVE  ScanStarters' = ScanStarters
<1> DEFINE s == [starters[g] EXCEPT !.next = 0]
<1>1. s.next = 0 /\ s.scan = "none" /\ StarterDone(g, s)
  BY DEF TypeOK, StarterRecords
<1> HIDE DEF s
<1>2. starters' = Without(starters, g)
  BY <1>1 DEF StarterDone
<1> QED
  BY <1>2 DEF ScanStarters, Without

(* Starter g has launched its scan, or was refused to: it has handed the   *)
(* token over or keeps it.                                                 *)
LEMMA ScanStartersOfScan ==
    ASSUME TypeOK, NEW g \in DOMAIN starters, NEW scan \in {"none", "refused"},
           StarterDone(g, [starters[g] EXCEPT !.scan = scan])
    PROVE  ScanStarters' = IF scan = "none" THEN ScanStarters \ {g}
                                            ELSE ScanStarters \cup {g}
<1> DEFINE s == [starters[g] EXCEPT !.scan = scan]
<1>1. s.scan = scan /\ StarterDone(g, s)
  BY DEF TypeOK, StarterRecords
<1> HIDE DEF s
<1>2. /\ DOMAIN starters' \subseteq DOMAIN starters
      /\ \A d \in DOMAIN starters' :
            starters'[d] = IF d = g THEN s ELSE starters[d]
      /\ \A d \in DOMAIN starters \ DOMAIN starters' :
            d = g /\ s.scan = "none" /\ s.next = 0
  BY <1>1, StarterDoneFacts
<1> QED
  BY <1>1, <1>2 DEF ScanStarters

LEMMA ScanTokenStep == TypeOK /\ Ownership /\ ScanToken /\ [Next]_vars => ScanToken'
<1> SUFFICES ASSUME TypeOK, Ownership, ScanToken, [Next]_vars PROVE ScanToken'
  OBVIOUS
<1> USE DEF store
<1>1. ASSUME NEW force \in BOOLEAN, RequestRefresh(force) PROVE ScanToken'
  <2>1. NextGeneration \notin DOMAIN starters
    BY DEF NextGeneration, TypeOK
  <2>2. ScanStarters' = ScanStarters
    BY <1>1, <2>1 DEF RequestRefresh, With, ScanStarters
  <2> QED
    BY <1>1, <2>2, ScanTokenFrame DEF RequestRefresh
<1>2. ASSUME UNCHANGED <<scanLoading, starters, scans>> PROVE ScanToken'
  BY <1>2, ScanTokenFrame DEF ScanStarters
<1>3. ASSUME NEW j \in Jobs, BeginJobRefresh(j) PROVE ScanToken'
  BY <1>2, <1>3 DEF BeginJobRefresh
<1>4. ASSUME NEW g \in DOMAIN refreshes,
             Collected(g) \/ Abandon(g) \/ Discard(g) \/ Panic(g)
      PROVE  ScanToken'
  BY <1>2, <1>4 DEF Collected, Abandon, Discard, Panic
<1>5. ASSUME NEW g \in DOMAIN refreshes, Publish(g) PROVE ScanToken'
  <2> DEFINE S(wantScan) ==
                [job |-> refreshes[g].job,
                 scan |-> IF MustLaunch(wantScan) THEN "start" ELSE "none",
                 next |-> IF queued THEN NextGeneration ELSE 0,
                 force |-> TRUE, refused |-> FALSE]
  <2>1. PICK wantScan \in BOOLEAN :
          /\ DecideScan(wantScan, refreshes[g].force)
          /\ starters' = IF queued \/ MustLaunch(wantScan)
                         THEN With(starters, g, S(wantScan)) ELSE starters
    BY <1>5 DEF Publish
  <2>2. S(wantScan).scan # "none" <=> MustLaunch(wantScan)
    OBVIOUS
  <2>3. g \notin DOMAIN starters
    BY DEF Ownership, Single
  <2> HIDE DEF S
  <2>4. ScanStarters' = IF MustLaunch(wantScan) THEN ScanStarters \cup {g} ELSE ScanStarters
    BY <2>1, <2>2, <2>3 DEF ScanStarters, With
  <2>5. scanLoading' <=> scanLoading \/ wantScan
    BY <2>1 DEF DecideScan
  <2>6. scans' = scans
    BY <1>5 DEF Publish
  <2> QED
    BY <2>4, <2>5, <2>6 DEF ScanToken, MustLaunch
<1>6. ASSUME NEW g \in DOMAIN starters, StartScan(g) PROVE ScanToken'
  <2>0. g \in ScanStarters /\ scanLoading /\ DOMAIN scans = {} /\ scanLoading' = scanLoading
        /\ ScanStarters = {g}
    BY <1>6 DEF StartScan, ScanStarters, ScanToken
  <2>1. CASE shuttingDown
    <3>1. ScanStarters' = ScanStarters \cup {g} /\ scans' = scans
      BY <1>6, <2>1, ScanStartersOfScan DEF StartScan
    <3> QED
      BY <2>0, <3>1 DEF ScanToken
  <2>2. CASE ~shuttingDown
    <3>1. ScanStarters' = ScanStarters \ {g}
      BY <1>6, <2>2, ScanStartersOfScan DEF StartScan
    <3>2. DOMAIN scans' = {g}
      BY <1>6, <2>0, <2>2 DEF StartScan, With
    <3> QED
      BY <2>0, <3>1, <3>2 DEF ScanToken
  <2> QED
    BY <2>1, <2>2
<1>7. ASSUME NEW g \in DOMAIN starters, ScanRefused(g) PROVE ScanToken'
  <2>1. ScanStarters' = ScanStarters \ {g} /\ ~scanLoading' /\ scans' = scans
    BY <1>7, ScanStartersOfScan DEF ScanRefused
  <2>2. ScanStarters = {g} /\ DOMAIN scans = {}
    BY <1>7 DEF ScanRefused, ScanStarters, ScanToken
  <2> QED
    BY <2>1, <2>2 DEF ScanToken
<1>8. ASSUME NEW g \in DOMAIN starters, StartRefresh(g) PROVE ScanToken'
  <2>1. ScanStarters' = ScanStarters
    <3>1. CASE shuttingDown
      BY <1>8, <3>1 DEF StartRefresh, ScanStarters, TypeOK, StarterRecords
    <3>2. CASE ~shuttingDown
      BY <1>8, <3>2, ScanStartersOfDone DEF StartRefresh
    <3> QED
      BY <3>1, <3>2
  <2> QED
    BY <1>8, <2>1, ScanTokenFrame DEF StartRefresh
<1>9. ASSUME NEW g \in DOMAIN starters, RefreshRefused(g) PROVE ScanToken'
  <2>1. ScanStarters' = ScanStarters
    BY <1>9, ScanStartersOfDone DEF RefreshRefused, Ownership, Launches
  <2> QED
    BY <1>9, <2>1, ScanTokenFrame DEF RefreshRefused
<1>10. ASSUME NEW g \in DOMAIN scans, CheckScan(g) \/ BeginScan(g) PROVE ScanToken'
  <2>1. DOMAIN scans' = DOMAIN scans /\ UNCHANGED <<scanLoading, starters>>
    BY <1>10 DEF CheckScan, BeginScan
  <2> QED
    BY <2>1, ScanTokenFrame DEF ScanStarters
<1>11. ASSUME NEW g \in DOMAIN scans
       PROVE  scanLoading /\ DOMAIN scans = {g} /\ ScanStarters = {}
  BY DEF ScanToken
<1>12. ASSUME NEW g \in DOMAIN scans, QuitScan(g) PROVE ScanToken'
  BY <1>11, <1>12 DEF QuitScan, Without, ScanToken, ScanStarters
<1>13. ASSUME NEW g \in DOMAIN scans, EndScan(g) PROVE ScanToken'
  <2> DEFINE follow == scanQueued /\ ~shuttingDown
  <2>1. /\ scanLoading' = follow
        /\ DOMAIN scans' = IF follow THEN DOMAIN scans ELSE DOMAIN scans \ {g}
        /\ starters' = starters
    BY <1>13 DEF EndScan, StaysLoading, Without
  <2>2. ScanStarters' = ScanStarters
    BY <2>1 DEF ScanStarters
  <2> QED
    BY <1>11, <2>1, <2>2 DEF ScanToken
<1>14. ASSUME NEW j \in Jobs, WaitEnds(j) \/ WaitGivesUp(j) \/ CancelJob(j) PROVE ScanToken'
  BY <1>2, <1>14 DEF WaitEnds, WaitGivesUp, CancelJob
<1>15. CASE RequestFollowUp \/ BeginShutdown \/ UNCHANGED vars
  BY <1>2, <1>15 DEF RequestFollowUp, BeginShutdown, vars
<1> QED
  BY <1>1, <1>3, <1>4, <1>5, <1>6, <1>7, <1>8, <1>9, <1>10, <1>12, <1>13, <1>14, <1>15
  DEF Next, Request, RefreshStep, StarterStep, ScanStep, Stopped

-----------------------------------------------------------------------------
(* Publications.                                                           *)

(* Only a publication changes the cache, and it publishes the newest       *)
(* refresh, which was alive and so had not published before.               *)
LEMMA PublicationStep ==
    ASSUME TypeOK, CacheIsBehind, [Next]_vars
    PROVE  cache' # cache => cache' > cache /\ cache' = generation
<1>1. ASSUME NEW g \in DOMAIN refreshes, Publish(g)
      PROVE  cache' > cache /\ cache' = generation
  <2>1. cache' = generation /\ Alive(generation)
    BY <1>1 DEF Publish, IsCurrent, Alive
  <2>2. cache < generation /\ cache \in Nat /\ generation \in Nat
    BY <2>1 DEF CacheIsBehind, TypeOK
  <2> QED
    BY <2>1, <2>2
<1>2. ASSUME NEW g, Collected(g) \/ Abandon(g) \/ Discard(g) \/ Panic(g)
      PROVE  cache' = cache
  BY <1>2 DEF Collected, Abandon, Discard, Panic, service
<1>3. ASSUME NEW g, StarterStep(g) PROVE cache' = cache
  BY <1>3 DEF StarterStep, StartScan, ScanRefused, StartRefresh, RefreshRefused, service
<1>4. ASSUME NEW g, ScanStep(g) PROVE cache' = cache
  BY <1>4 DEF ScanStep, CheckScan, QuitScan, BeginScan, EndScan, service
<1>5. ASSUME NEW j \in Jobs,
             BeginJobRefresh(j) \/ WaitEnds(j) \/ WaitGivesUp(j) \/ CancelJob(j)
      PROVE  cache' = cache
  BY <1>5 DEF BeginJobRefresh, WaitEnds, WaitGivesUp, CancelJob, service
<1>6. CASE Request \/ BeginShutdown \/ UNCHANGED vars
  BY <1>6 DEF Request, RequestRefresh, RequestFollowUp, BeginShutdown, vars, service
<1> QED
  BY <1>1, <1>2, <1>3, <1>4, <1>5, <1>6 DEF Next, RefreshStep, Stopped

-----------------------------------------------------------------------------
(* The theorems.                                                           *)

(* The inductive invariant holds in every reachable state.                 *)
THEOREM InductiveInvariant == Safety => []IInv
<1>1. Init => IInv
  BY TypeInit, OwnershipInit, ScanTokenInit DEF IInv
<1>2. IInv /\ [Next]_vars => IInv'
  BY TypeStep, OwnershipStep, ScanTokenStep DEF IInv, Ownership
<1> QED
  BY <1>1, <1>2, PTL DEF Safety

(* The state has its type.                                                 *)
THEOREM TypeCorrectness == Safety => []TypeOK
<1>1. IInv => TypeOK
  BY DEF IInv
<1> QED
  BY <1>1, InductiveInvariant, PTL

(* The loading flag is set exactly while the newest refresh is alive, or   *)
(* after it has died of a panic in its job.                                *)
THEOREM LoadingOwnership == Safety => []LoadingIsOwned
<1>1. IInv => LoadingIsOwned
  BY DEF IInv, Ownership
<1> QED
  BY <1>1, InductiveInvariant, PTL

(* A forced request that is neither published nor given up has a refresh   *)
(* that began after it, or is queued to begin.                             *)
THEOREM ForcedRequestsAreServed == Safety => []ForcedRefreshIsServed
<1>1. IInv => ForcedRefreshIsServed
  BY DEF IInv, Ownership
<1> QED
  BY <1>1, InductiveInvariant, PTL

(* There is one Store scan, or one goroutine about to launch it, exactly   *)
(* while storeScanLoading is set.                                          *)
THEOREM UniqueScan == Safety => []ScanIsUnique
<1>1. IInv => ScanIsUnique
  <2> SUFFICES ASSUME IInv PROVE ScanIsUnique
    OBVIOUS
  <2>1. ScanIsUnique <=> Cardinality(DOMAIN scans) + Cardinality(ScanStarters)
                            = IF scanLoading THEN 1 ELSE 0
    BY DEF ScanIsUnique, ScanStarters
  <2>2. Cardinality({}) = 0
    BY FS_EmptySet
  <2>3. \A x : Cardinality({x}) = 1
    BY FS_Singleton
  <2>4. CASE DOMAIN scans = {} /\ ScanStarters = {}
    <3>1. ~scanLoading
      BY <2>4 DEF IInv, ScanToken
    <3> QED
      BY <2>1, <2>2, <2>4, <3>1
  <2>5. CASE DOMAIN scans # {}
    <3>1. PICK g : g \in DOMAIN scans
      BY <2>5
    <3>2. DOMAIN scans = {g} /\ ScanStarters = {} /\ scanLoading
      BY <3>1 DEF IInv, ScanToken
    <3>3. Cardinality(DOMAIN scans) = 1 /\ Cardinality(ScanStarters) = 0
      BY <2>2, <2>3, <3>2
    <3> QED
      BY <2>1, <3>2, <3>3
  <2>6. CASE ScanStarters # {}
    <3>1. PICK g : g \in ScanStarters
      BY <2>6
    <3>2. ScanStarters = {g} /\ DOMAIN scans = {} /\ scanLoading
      BY <3>1 DEF IInv, ScanToken
    <3>3. Cardinality(DOMAIN scans) = 0 /\ Cardinality(ScanStarters) = 1
      BY <2>2, <2>3, <3>2
    <3> QED
      BY <2>1, <3>2, <3>3
  <2> QED
    BY <2>4, <2>5, <2>6
<1> QED
  BY <1>1, InductiveInvariant, PTL

(* The cached inventory never goes back to that of a superseded refresh.   *)
THEOREM PublicationsGoForward == Safety => PublicationsAdvance
<1>1. IInv /\ [Next]_vars
         => [cache' # cache => cache' > cache /\ cache' = generation]_vars
  BY PublicationStep DEF IInv, Ownership
<1> QED
  BY <1>1, InductiveInvariant, PTL DEF Safety, PublicationsAdvance

-----------------------------------------------------------------------------
(* The Store scan implements SingleFlight.                                 *)

(* Only a shutdown refuses to launch a scan or makes one quit.             *)
RefusalIsShutdown ==
    /\ \A d \in DOMAIN starters : starters[d].scan = "refused" => shuttingDown
    /\ \A g \in DOMAIN scans : scans[g].at = "quit" => shuttingDown

LEMMA RefusalInit == Init => RefusalIsShutdown
BY DEF Init, RefusalIsShutdown, Nothing

LEMMA RefusalFrame ==
    ASSUME RefusalIsShutdown, shuttingDown => shuttingDown',
           \A d \in DOMAIN starters' :
              starters'[d].scan = "refused"
                 => \/ shuttingDown'
                    \/ d \in DOMAIN starters /\ starters[d].scan = "refused",
           \A g \in DOMAIN scans' :
              scans'[g].at = "quit"
                 => \/ shuttingDown'
                    \/ g \in DOMAIN scans /\ scans[g].at = "quit"
    PROVE  RefusalIsShutdown'
BY DEF RefusalIsShutdown

LEMMA RefusalStep ==
    ASSUME TypeOK, RefusalIsShutdown, [Next]_vars
    PROVE  RefusalIsShutdown'
<1>1. ASSUME NEW force \in BOOLEAN, RequestRefresh(force) PROVE RefusalIsShutdown'
  BY <1>1, RefusalFrame DEF RequestRefresh, With
<1>2. ASSUME NEW g \in DOMAIN refreshes, Collected(g) \/ Abandon(g) \/ Discard(g) \/ Panic(g)
      PROVE  RefusalIsShutdown'
  BY <1>2, RefusalFrame DEF Collected, Abandon, Discard, Panic
<1>3. ASSUME NEW g \in DOMAIN refreshes, Publish(g) PROVE RefusalIsShutdown'
  <2>1. /\ UNCHANGED <<scans, shuttingDown>>
        /\ \A d \in DOMAIN starters' :
              starters'[d].scan = "refused"
                 => d \in DOMAIN starters /\ starters[d].scan = "refused"
    BY <1>3 DEF Publish, With
  <2> QED
    BY <2>1, RefusalFrame
<1>4. ASSUME NEW g \in DOMAIN starters, NEW s, StarterDone(g, s),
             s.scan = "refused" => shuttingDown, UNCHANGED shuttingDown,
             \A h \in DOMAIN scans' :
                scans'[h].at = "quit" => h \in DOMAIN scans /\ scans[h].at = "quit"
      PROVE  RefusalIsShutdown'
  <2>1. \A d \in DOMAIN starters' : /\ d \in DOMAIN starters
                                    /\ starters'[d] = IF d = g THEN s ELSE starters[d]
    BY <1>4, StarterDoneFacts
  <2> QED
    BY <1>4, <2>1, RefusalFrame
<1>5. ASSUME NEW g \in DOMAIN starters, StarterStep(g) PROVE RefusalIsShutdown'
  <2>1. starters[g] \in StarterRecords /\ starters \in [DOMAIN starters -> StarterRecords]
    BY DEF TypeOK
  <2>2. starters[g].scan = "refused" => shuttingDown
    BY DEF RefusalIsShutdown
  <2>3. CASE StartScan(g)
    <3>1. CASE shuttingDown
      BY <2>1, <2>3, <3>1, <1>4 DEF StartScan, StarterRecords
    <3>2. CASE ~shuttingDown
      BY <2>1, <2>3, <3>2, <1>4 DEF StartScan, StarterRecords, With
    <3> QED
      BY <3>1, <3>2
  <2>4. CASE ScanRefused(g)
    BY <2>1, <2>4, <1>4 DEF ScanRefused, StarterRecords
  <2>5. CASE StartRefresh(g)
    <3>1. CASE shuttingDown
      BY <2>5, <3>1, RefusalFrame DEF StartRefresh
    <3>2. CASE ~shuttingDown
      BY <2>1, <2>5, <3>2, <1>4 DEF StartRefresh, StarterRecords
    <3> QED
      BY <3>1, <3>2
  <2>6. CASE RefreshRefused(g)
    BY <2>1, <2>2, <2>6, <1>4 DEF RefreshRefused, StarterRecords
  <2> QED
    BY <1>5, <2>3, <2>4, <2>5, <2>6 DEF StarterStep
<1>6. ASSUME NEW g \in DOMAIN scans, ScanStep(g) PROVE RefusalIsShutdown'
  <2>1. UNCHANGED <<starters, shuttingDown>>
    BY <1>6 DEF ScanStep, CheckScan, QuitScan, BeginScan, EndScan
  <2>2. scans \in [DOMAIN scans -> ScanRecords]
    BY DEF TypeOK
  <2>3. \A h \in DOMAIN scans' :
           scans'[h].at = "quit"
              => shuttingDown \/ (h \in DOMAIN scans /\ scans[h].at = "quit")
    BY <1>6, <2>2
    DEF ScanStep, CheckScan, QuitScan, BeginScan, EndScan, Without, ScanRecords
  <2> QED
    BY <2>1, <2>3, RefusalFrame
<1>7. ASSUME NEW j \in Jobs,
             BeginJobRefresh(j) \/ WaitEnds(j) \/ WaitGivesUp(j) \/ CancelJob(j)
      PROVE  RefusalIsShutdown'
  BY <1>7, RefusalFrame DEF BeginJobRefresh, WaitEnds, WaitGivesUp, CancelJob
<1>8. CASE RequestFollowUp \/ BeginShutdown \/ UNCHANGED vars
  BY <1>8, RefusalFrame DEF RequestFollowUp, BeginShutdown, vars
<1> QED
  BY <1>1, <1>2, <1>3, <1>5, <1>6, <1>7, <1>8 DEF Next, Request, RefreshStep, Stopped

Scanning == \E g \in DOMAIN scans : scans[g].at = "scan"

(* The scan as SingleFlight sees it is left alone.                         *)
LEMMA FlightFrame ==
    ASSUME UNCHANGED <<scanLoading, scanQueued, shuttingDown>>, Scanning' = Scanning
    PROVE  UNCHANGED StoreScan!vars
BY DEF StoreScan!vars, Scanning

LEMMA FlightStep ==
    ASSUME TypeOK, ScanToken, RefusalIsShutdown, [Next]_vars
    PROVE  [StoreScan!Next]_(StoreScan!vars)
<1> USE DEF Scanning
<1>1. CASE \/ Request \/ UNCHANGED vars
           \/ \E g \in DOMAIN refreshes : Collected(g) \/ Abandon(g) \/ Discard(g) \/ Panic(g)
           \/ \E g \in DOMAIN starters : StartRefresh(g) \/ RefreshRefused(g)
           \/ \E j \in Jobs : BeginJobRefresh(j) \/ WaitEnds(j) \/ WaitGivesUp(j) \/ CancelJob(j)
  <2>1. UNCHANGED <<store, scans, shuttingDown>>
    BY <1>1 DEF Request, RequestRefresh, RequestFollowUp, vars, Collected, Abandon,
                Discard, Panic, StartRefresh, RefreshRefused, BeginJobRefresh,
                WaitEnds, WaitGivesUp, CancelJob
  <2> QED
    BY <2>1, FlightFrame DEF store
<1>2. ASSUME NEW g \in DOMAIN refreshes, Publish(g)
      PROVE  [StoreScan!Next]_(StoreScan!vars)
  <2>1. PICK wantScan \in BOOLEAN : /\ ~wantScan => ~refreshes[g].force
                                    /\ DecideScan(wantScan, refreshes[g].force)
    BY <1>2 DEF Publish
  <2>2. UNCHANGED <<scans, shuttingDown>>
    BY <1>2 DEF Publish
  <2>3. {scanLoading, scanQueued, refreshes[g].force} \subseteq BOOLEAN
    BY DEF TypeOK, RefreshRecords
  <2>4. CASE scanLoading
    BY <2>1, <2>2, <2>3, <2>4
    DEF DecideScan, StoreScan!Next, StoreScan!Ask, StoreScan!vars
  <2>5. CASE ~scanLoading
    <3>1. DOMAIN scans = {}
      BY <2>5 DEF ScanToken
    <3> QED
      BY <2>1, <2>2, <2>3, <2>5, <3>1
      DEF DecideScan, StoreScan!Next, StoreScan!Ask, StoreScan!vars
  <2> QED
    BY <2>4, <2>5
<1>3. ASSUME NEW g \in DOMAIN starters, starters[g].scan # "none"
      PROVE  scanLoading /\ DOMAIN scans = {}
  BY <1>3 DEF ScanToken, ScanStarters
<1>4. ASSUME NEW g \in DOMAIN starters, StartScan(g)
      PROVE  [StoreScan!Next]_(StoreScan!vars)
  <2>1. DOMAIN scans = {}
    BY <1>3, <1>4 DEF StartScan
  <2>2. Scanning' = Scanning
    BY <1>4, <2>1 DEF StartScan, With
  <2> QED
    BY <1>4, <2>2, FlightFrame DEF StartScan, store
<1>5. ASSUME NEW g \in DOMAIN starters, ScanRefused(g)
      PROVE  [StoreScan!Next]_(StoreScan!vars)
  <2>1. scanLoading /\ DOMAIN scans = {} /\ shuttingDown
    BY <1>3, <1>5 DEF ScanRefused, RefusalIsShutdown
  <2>2. scanLoading' = FALSE /\ scanQueued' = FALSE /\ UNCHANGED shuttingDown
    BY <1>5 DEF ScanRefused
  <2> QED
    BY <2>1, <2>2 DEF StoreScan!Next, StoreScan!Drop
<1>6. ASSUME NEW g \in DOMAIN scans
      PROVE  scanLoading /\ (Scanning <=> scans[g].at = "scan")
  BY DEF ScanToken
<1>7. ASSUME NEW g \in DOMAIN scans, CheckScan(g)
      PROVE  [StoreScan!Next]_(StoreScan!vars)
  <2>1. Scanning' = Scanning
    BY <1>6, <1>7 DEF CheckScan, ScanToken
  <2> QED
    BY <1>7, <2>1, FlightFrame DEF CheckScan, store
<1>8. ASSUME NEW g \in DOMAIN scans, QuitScan(g)
      PROVE  [StoreScan!Next]_(StoreScan!vars)
  <2>1. scanLoading' = FALSE /\ scanQueued' = FALSE /\ UNCHANGED shuttingDown
    BY <1>8 DEF QuitScan
  <2>2. scanLoading /\ ~Scanning /\ shuttingDown
    BY <1>6, <1>8 DEF QuitScan, RefusalIsShutdown
  <2> QED
    BY <2>1, <2>2 DEF StoreScan!Next, StoreScan!Drop
<1>9. ASSUME NEW g \in DOMAIN scans, BeginScan(g)
      PROVE  [StoreScan!Next]_(StoreScan!vars)
  <2>1. ~Scanning /\ Scanning' /\ scanLoading
    BY <1>6, <1>9 DEF BeginScan
  <2>2. UNCHANGED <<scanLoading, scanQueued, shuttingDown>>
    BY <1>9 DEF BeginScan
  <2> QED
    BY <2>1, <2>2 DEF StoreScan!Next, StoreScan!Begin
<1>10. ASSUME NEW g \in DOMAIN scans, EndScan(g)
       PROVE  [StoreScan!Next]_(StoreScan!vars)
  <2> DEFINE follow == scanQueued /\ ~shuttingDown
  <2>1. Scanning /\ scanLoading /\ scanQueued \in BOOLEAN
    BY <1>6, <1>10 DEF EndScan, TypeOK
  <2>2. /\ scanQueued' = (scanQueued /\ ~follow)
        /\ scanLoading' = follow
        /\ UNCHANGED shuttingDown
    BY <1>10 DEF EndScan, StaysLoading
  <2>3. follow => ~Scanning'
    BY <1>10 DEF EndScan, ScanToken
  <2> QED
    BY <2>1, <2>2, <2>3 DEF StoreScan!Next, StoreScan!Land, StoreScan!Drop
<1>11. CASE BeginShutdown
  BY <1>11 DEF BeginShutdown, store, StoreScan!Next, StoreScan!Close
<1> QED
  BY <1>1, <1>2, <1>4, <1>5, <1>7, <1>8, <1>9, <1>10, <1>11
  DEF Next, RefreshStep, StarterStep, ScanStep, Stopped

(* The Store scan implements SingleFlight, but for its liveness: one       *)
(* flight at a time, no request is served by a scan that had begun before  *)
(* it, and none is dropped before a shutdown.                              *)
THEOREM StoreScanImplementsSingleFlight ==
    Safety => StoreScan!Init /\ [][StoreScan!Next]_(StoreScan!vars)
<1>1. Init => StoreScan!Init
  BY DEF Init, StoreScan!Init
<1>2. IInv /\ RefusalIsShutdown /\ [Next]_vars => RefusalIsShutdown'
  BY RefusalStep DEF IInv
<1>3. IInv /\ RefusalIsShutdown /\ [Next]_vars => [StoreScan!Next]_(StoreScan!vars)
  BY FlightStep DEF IInv
<1> QED
  BY <1>1, <1>2, <1>3, RefusalInit, InductiveInvariant, PTL DEF Safety

=============================================================================
