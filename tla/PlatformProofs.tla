----------------------------- MODULE PlatformProofs -----------------------------
(***************************************************************************)
(* For every number of requests and refreshes, the scheduled task follows  *)
(* its setting and the status shows it; for every number of updates and of *)
(* killed helpers, a self-update keeps an executable that works and ends   *)
(* with a decision.                                                        *)
(***************************************************************************)
EXTENDS AutoUpdateSettings, SelfUpdateApply, TLAPS

(* The requests and the scheduled task. *)

Steps == {"none", "load", "task", "save", "rollback", "answer", "done"}
Setters == [at : Steps, want : BOOLEAN, old : BOOLEAN, clean : BOOLEAN]
RequestsTyped ==
    /\ setters \in [SettingRequests -> Setters]
    /\ setting \in BOOLEAN /\ task \in BOOLEAN /\ strayed \in BOOLEAN

OnePending == \A r, s \in Pending : r = s

\* What the task and the setting are while one request is answered.
Between(r) ==
    /\ setters[r].at \in {"load", "task", "answer"} => task = setting
    /\ setters[r].at = "task" => setters[r].old = setting
    /\ setters[r].at \in {"save", "rollback"} => setters[r].old = setting /\ task = setters[r].want

\* A request that is alone and has been told the truth has the task it wants.
CleanIsAlone ==
    \A r \in Pending : setters[r].clean =>
       /\ Pending = {r}
       /\ setters[r].at = "save" => task = setters[r].want

RequestsInv ==
    /\ RequestsTyped
    /\ CleanIsAlone
    /\ ~strayed => /\ OnePending
                   /\ Pending = {} => task = setting
                   /\ \A r \in SettingRequests : Between(r)

(* The status cache. *)

Sights == {"task", "none", "failed"}
Flights == {"none", "begun", "read"}
Refreshes == [kind : {"none", "background", "job"}, at : Flights, seen : Sights]
Caches == [loading : BOOLEAN, queued : BOOLEAN, seen : Sights]
RefreshesTyped ==
    /\ refreshing \in [1..MaxRefreshes -> Refreshes]
    /\ cache \in Caches
    /\ begun \in 0..MaxRefreshes /\ crossed \in BOOLEAN /\ ending \in BOOLEAN
    /\ \A i \in 1..MaxRefreshes : refreshing[i].kind = "none" <=> refreshing[i].at = "none"

\* One refresh runs exactly while the flag says so, and what it has read is
\* what it will show unless a request is still to come.
OneRefresh ==
    /\ cache.loading <=> Running # {}
    /\ \A i, j \in Running : i = j
    /\ Pending = {} /\ ~cache.loading => cache.seen \in {Told, "failed"}
    /\ \A i \in Running : refreshing[i].at = "read" /\ Pending = {} /\ ~cache.queued
                            => refreshing[i].seen \in {Told, "failed"}

StatusInv == RefreshesTyped /\ (~crossed /\ ~ending => OneRefresh)
SettingsInv == RequestsInv /\ StatusInv

(* The self-update. *)

Pictures == Images \cup {NoImage}
Early == {"starting", "ready", "replacing", "delegating"}
Late == {"replaced", "asking", "starts", "waiting", "restore", "restoring", "restored", "restart"}
Places == {"none", "ending"} \cup Early \cup Late

ApplyTyped ==
    /\ exe \in Pictures /\ kept \in Pictures /\ offer \in Pictures /\ before \in Pictures
    /\ apps \subseteq [image : Pictures, at : {"starting", "up"}]
    /\ parent \in [image : Pictures, at : {"none", "launching", "stopping", "gone"}]
    /\ helper \in [Helpers -> Places]
    /\ health \in [image : Pictures, open : BOOLEAN, ack : BOOLEAN]
    /\ round \in 0..MaxRounds /\ excused \in BOOLEAN

\* The elevated helper works only after the first one has handed over.
OneWorks ==
    /\ helper["elevated"] # "none" => helper["first"] \in {"delegating", "ending", "none"}
    /\ helper["elevated"] \in Late \cup {"replacing"} => helper["first"] = "none"
    /\ helper["elevated"] # "delegating"

Left == IF exe = NoImage THEN kept ELSE exe

\* The files at each place of a helper.
Files(h) ==
    /\ helper[h] \in Early => before = Left
    /\ helper[h] \in {"replaced", "asking", "starts", "waiting", "restore", "restoring", "restored"}
         => kept = before
    /\ helper[h] \in {"asking", "starts", "waiting"} => exe = offer
    /\ helper[h] \in {"starts", "waiting"} => health.image = offer
    /\ helper[h] \in {"restored", "restart"} => exe = before
    /\ helper[h] = "restart" => kept = NoImage

Proofs == health.ack => health.image \in proven /\ health.image.works

\* What has not been excused has not stopped half way.
HandedOver ==
    ~excused =>
      /\ parent.at = "stopping" => helper["first"] = "ready"
      /\ helper["first"] = "starting" => parent.at = "launching"
      /\ helper["elevated"] = "starting" => helper["first"] = "delegating"
      /\ helper["first"] = "delegating" => helper["elevated"] \in {"starting", "ready"}

Decided ==
    (\A h \in Helpers : helper[h] \in {"none", "ending"}) /\ parent.at = "gone" /\ ~excused
       => kept = NoImage /\ exe \in proven \cup {before}

ApplyInv ==
    /\ ApplyTyped /\ OneWorks /\ Proofs
    /\ \A h \in Helpers : Files(h)
    /\ KeepsWorkingVersion /\ HandedOver /\ Decided

-----------------------------------------------------------------------------
(* The requests keep the task and its setting together. *)

LEMMA RequestsInit == SettingsInit => RequestsInv
<1> SUFFICES ASSUME SettingsInit PROVE RequestsInv
    OBVIOUS
<1>1. RequestsTyped
    BY DEF SettingsInit, RequestsTyped, Setters, NotAsked, Steps
<1>2. Pending = {}
    BY DEF SettingsInit, Pending, NotAsked
<1> QED
    BY <1>1, <1>2 DEF SettingsInit, RequestsInv, CleanIsAlone, OnePending, Between, NotAsked

\* A step of one request, or none: the others stay where they are.
LEMMA RequestsStep == RequestsInv /\ [SettingsNext]_settingsVars => RequestsInv'
<1> SUFFICES ASSUME RequestsInv, [SettingsNext]_settingsVars PROVE RequestsInv'
    OBVIOUS
<1> USE DEF RequestsInv, RequestsTyped, Setters, Steps
<1>1. ASSUME NEW r \in SettingRequests, Ask(r)
      PROVE  RequestsInv'
  <2>1. PICK want \in BOOLEAN :
          setters' = [s \in SettingRequests |->
            IF s = r
            THEN [at |-> "load", want |-> want, old |-> FALSE, clean |-> Pending = {}]
            ELSE [setters[s] EXCEPT !.clean = FALSE]]
    BY <1>1 DEF Ask
  <2>2. UNCHANGED <<setting, task>> /\ strayed' = (strayed \/ Pending # {})
    BY <1>1 DEF Ask
  <2>3. RequestsTyped'
    BY <2>1, <2>2 DEF Steps, Setters
  <2>4. /\ setters'[r].at = "load" /\ setters'[r].clean = (Pending = {})
        /\ \A s \in SettingRequests \ {r} :
              setters'[s].at = setters[s].at /\ ~setters'[s].clean
    BY <2>1 DEF Setters
  <2>a. Pending' = Pending \cup {r}
    BY <2>4 DEF Pending
  <2>b. CleanIsAlone'
    BY <2>4, <2>a DEF CleanIsAlone, Pending
  <2>5. ASSUME ~strayed' PROVE Pending = {} /\ ~strayed
    BY <2>2, <2>5
  <2>6. ASSUME ~strayed' PROVE Pending' = {r}
    BY <2>5, <2>6, <2>a
  <2> QED
    BY <2>2, <2>3, <2>4, <2>b, <2>5, <2>6 DEF OnePending, Between, Pending
<1>2. ASSUME NEW r \in SettingRequests,
             LoadSetting(r) \/ ChangeTask(r) \/ SaveSetting(r) \/ RollBackTask(r)
      PROVE  RequestsInv'
  <2>1. r \in Pending
    BY <1>2 DEF LoadSetting, ChangeTask, SaveSetting, RollBackTask, Pending
  <2>a. /\ setters[r].want \in BOOLEAN /\ setters[r].old \in BOOLEAN
        /\ setters[r].clean \in BOOLEAN
    BY DEF Setters
  <2>2. RequestsTyped'
    <3>2. CASE LoadSetting(r)
      BY <3>2 DEF LoadSetting, Moves, Steps, Setters
    <3>3. CASE ChangeTask(r)
      BY <2>a, <3>3 DEF ChangeTask, Moves, Steps, Setters
    <3>4. CASE SaveSetting(r)
      <4>1. strayed' \in BOOLEAN
        BY <3>4 DEF SaveSetting
      <4>2. setters' \in [SettingRequests -> Setters]
        BY <3>4 DEF SaveSetting, Moves, Steps, Setters
      <4>3. setting' \in BOOLEAN /\ task' \in BOOLEAN
        BY <2>a, <3>4 DEF SaveSetting
      <4> QED
        BY <4>1, <4>2, <4>3
    <3>5. CASE RollBackTask(r)
      BY <2>a, <3>5 DEF RollBackTask, Moves, Steps, TaskBefore, Setters
    <3> QED
      BY <1>2, <3>2, <3>3, <3>4, <3>5
  <2>3. \A s \in SettingRequests \ {r} : setters'[s] = setters[s]
    BY <1>2 DEF LoadSetting, ChangeTask, SaveSetting, RollBackTask, Moves
  <2>4. setters'[r].at \in {"task", "save", "rollback", "answer"}
    BY <1>2 DEF LoadSetting, ChangeTask, SaveSetting, RollBackTask, Moves
  <2>5. Pending' = Pending
    BY <2>1, <2>3, <2>4 DEF Pending
  <2>6. setters'[r].clean => setters[r].clean
    BY <1>2 DEF LoadSetting, ChangeTask, SaveSetting, RollBackTask, Moves, Setters
  <2>7. setters'[r].clean /\ setters'[r].at = "save" => task' = setters'[r].want
    <3>1. setters'[r].at = "save" => ChangeTask(r)
      BY <1>2 DEF LoadSetting, SaveSetting, RollBackTask, Moves
    <3>2. ASSUME ChangeTask(r), setters'[r].at = "save", setters'[r].clean
          PROVE  task' = setters'[r].want
      BY <2>a, <3>2 DEF ChangeTask, Moves, Setters
    <3> QED
      BY <3>1, <3>2
  <2>b. CleanIsAlone'
    <3>1. ASSUME NEW s \in Pending', setters'[s].clean
          PROVE  Pending' = {s} /\ (setters'[s].at = "save" => task' = setters'[s].want)
      <4>1. s \in Pending /\ setters[s].clean /\ Pending = {s}
        BY <2>3, <2>5, <2>6, <3>1 DEF CleanIsAlone, Pending
      <4>2. s = r
        BY <2>1, <4>1
      <4> QED
        BY <2>5, <2>7, <3>1, <4>1, <4>2
    <3> QED
      BY <3>1 DEF CleanIsAlone
  <2>8. ASSUME ~strayed' PROVE OnePending /\ Between(r)'
    <3>1. CASE LoadSetting(r)
      BY <2>8, <3>1 DEF LoadSetting, Moves, Between
    <3>2. CASE ChangeTask(r)
      BY <2>8, <2>a, <3>2 DEF ChangeTask, Moves, Between
    <3>3. CASE SaveSetting(r)
      <4>1. CASE strayed
        <5>1. /\ setting' = setters[r].want /\ Moves(r, "answer") /\ UNCHANGED task
              /\ setters[r].clean /\ setters[r].at = "save"
          BY <2>8, <3>3, <4>1 DEF SaveSetting
        <5>2. Pending = {r} /\ task = setters[r].want
          BY <2>1, <5>1 DEF CleanIsAlone
        <5> QED
          BY <5>1, <5>2 DEF OnePending, Between, Moves
      <4>2. CASE ~strayed
        BY <2>8, <3>3, <4>2 DEF SaveSetting, Moves, Between
      <4> QED
        BY <4>1, <4>2
    <3>4. CASE RollBackTask(r)
      BY <2>8, <3>4 DEF RollBackTask, Moves, Between, TaskBefore
    <3> QED
      BY <1>2, <3>1, <3>2, <3>3, <3>4
  <2>9. ASSUME ~strayed', NEW s \in SettingRequests \ {r} PROVE Between(s)'
    <3>1. s \notin Pending
      BY <2>1, <2>8, <2>9 DEF OnePending
    <3>2. setters'[s].at \in {"none", "done"}
      BY <2>3, <3>1 DEF Pending
    <3> QED
      BY <3>2 DEF Between
  <2> QED
    BY <2>1, <2>2, <2>5, <2>b, <2>8, <2>9 DEF OnePending
<1>3. ASSUME NEW r \in SettingRequests, Answer(r)
      PROVE  RequestsInv'
  <2>1. setters' = [setters EXCEPT ![r].at = "done"] /\ UNCHANGED <<setting, task, strayed>>
    BY <1>3 DEF Answer, Moves
  <2>2. RequestsTyped'
    BY <2>1 DEF Steps, Setters
  <2>3. /\ setters[r].at = "answer" /\ setters'[r].at = "done"
        /\ \A s \in SettingRequests \ {r} : setters'[s] = setters[s]
    BY <1>3, <2>1 DEF Answer
  <2>4. r \in Pending /\ Pending' = Pending \ {r}
    BY <2>3 DEF Pending
  <2>5. ~strayed => task = setting
    BY <2>3 DEF Between
  <2>6. CleanIsAlone'
    BY <2>3, <2>4 DEF CleanIsAlone, Pending
  <2> QED
    BY <2>1, <2>2, <2>3, <2>4, <2>5, <2>6 DEF OnePending, Between
<1>4. CASE UNCHANGED <<setters, setting, task, strayed>>
    BY <1>4 DEF OnePending, Between, Pending, CleanIsAlone
<1>5. ASSUME NEW i \in 1..MaxRefreshes, ReadTask(i) \/ FinishRefresh(i) \/ CancelRefresh(i)
      PROVE  UNCHANGED <<setters, setting, task, strayed>>
    BY <1>5 DEF ReadTask, FinishRefresh, CancelRefresh
<1>6. JobRefresh \/ BeginEnding \/ UNCHANGED settingsVars => UNCHANGED <<setters, setting, task, strayed>>
    BY DEF JobRefresh, BeginEnding, settingsVars
<1> QED
    BY <1>1, <1>2, <1>3, <1>4, <1>5, <1>6 DEF SettingsNext

-----------------------------------------------------------------------------
(* A request that changes the task is followed by a refresh that has not read it yet. *)

LEMMA StatusInit == SettingsInit => StatusInv
<1> SUFFICES ASSUME SettingsInit PROVE StatusInv
    OBVIOUS
<1>1. RefreshesTyped
  <2>1. NoRefresh \in Refreshes
    BY DEF NoRefresh, Refreshes, Flights, Sights
  <2>2. Told \in Sights /\ 0 \in 0..MaxRefreshes
    BY SettingsAssumption DEF SettingsInit, Told, Sights
  <2>3. cache \in Caches
    BY <2>2 DEF SettingsInit, Caches
  <2> QED
    BY <2>1, <2>2, <2>3 DEF SettingsInit, RefreshesTyped, NoRefresh
<1>2. Running = {} /\ cache.loading = FALSE /\ cache.seen = Told
    BY DEF SettingsInit, Running, NoRefresh
<1> QED
    BY <1>1, <1>2 DEF StatusInv, OneRefresh

\* A new refresh is the only one if none runs.
LEMMA BeginsAlone ==
    ASSUME RefreshesTyped, NEW kind \in {"background", "job"}, Begins(kind)
    PROVE  /\ begun' \in 1..MaxRefreshes
           /\ refreshing' \in [1..MaxRefreshes -> Refreshes]
           /\ \A i \in 1..MaxRefreshes : refreshing'[i].kind = "none" <=> refreshing'[i].at = "none"
           /\ Running = {} => Running' = {begun'}
           /\ refreshing'[begun'].at = "begun"
<1>1. begun' \in 1..MaxRefreshes
    BY SettingsAssumption DEF Begins, RefreshesTyped
<1>2. refreshing' = [refreshing EXCEPT ![begun'] = [kind |-> kind, at |-> "begun", seen |-> "failed"]]
    BY DEF Begins, JustBegun
<1>3. /\ refreshing'[begun'] = [kind |-> kind, at |-> "begun", seen |-> "failed"]
      /\ \A i \in 1..MaxRefreshes \ {begun'} : refreshing'[i] = refreshing[i]
    BY <1>1, <1>2 DEF RefreshesTyped
<1>4. refreshing' \in [1..MaxRefreshes -> Refreshes]
    BY <1>1, <1>2 DEF RefreshesTyped, Refreshes, Flights, Sights
<1>5. Running = {} => Running' = {begun'}
    BY <1>1, <1>3 DEF Running
<1>6. \A i \in 1..MaxRefreshes : refreshing'[i].kind = "none" <=> refreshing'[i].at = "none"
    BY <1>3 DEF RefreshesTyped
<1> QED
    BY <1>1, <1>3, <1>4, <1>5, <1>6

LEMMA StatusStep == RequestsInv /\ StatusInv /\ [SettingsNext]_settingsVars => StatusInv'
<1> SUFFICES ASSUME RequestsInv, StatusInv, [SettingsNext]_settingsVars PROVE StatusInv'
    OBVIOUS
<1>a. RefreshesTyped /\ RequestsTyped /\ (~crossed /\ ~ending => OneRefresh)
    BY DEF StatusInv, RequestsInv
<1>1. ASSUME NEW r \in SettingRequests,
             Ask(r) \/ LoadSetting(r) \/ ChangeTask(r) \/ SaveSetting(r) \/ RollBackTask(r)
      PROVE  StatusInv'
  <2>1. UNCHANGED <<cache, refreshing, begun, ending, crossed>>
    BY <1>1 DEF Ask, LoadSetting, ChangeTask, SaveSetting, RollBackTask
  <2>2. setters'[r].at \in {"load", "task", "save", "rollback", "answer"}
    BY <1>a, <1>1 DEF Ask, LoadSetting, ChangeTask, SaveSetting, RollBackTask, Moves,
        RequestsTyped, Setters, Steps
  <2>3. Pending' # {}
    BY <2>2 DEF Pending
  <2>4. RefreshesTyped'
    BY <1>a, <2>1 DEF RefreshesTyped
  <2>5. Running' = Running
    BY <2>1 DEF Running
  <2> QED
    BY <1>a, <2>1, <2>3, <2>4, <2>5 DEF StatusInv, OneRefresh
<1>2. ASSUME NEW r \in SettingRequests, Answer(r)
      PROVE  StatusInv'
  <2>1. UNCHANGED <<task, ending, crossed>> /\ RefreshStatus
    BY <1>2 DEF Answer
  <2>2. CASE cache.loading
    <3>1. cache' = [cache EXCEPT !.queued = TRUE] /\ UNCHANGED <<refreshing, begun>>
      BY <2>1, <2>2 DEF RefreshStatus
    <3>2. RefreshesTyped' /\ Running' = Running /\ cache'.loading /\ cache'.queued
      <4>1. cache' \in Caches /\ cache'.loading /\ cache'.queued
        BY <1>a, <2>2, <3>1 DEF RefreshesTyped, Caches
      <4> QED
        BY <1>a, <2>1, <3>1, <4>1 DEF RefreshesTyped, Running
    <3> QED
      BY <1>a, <2>1, <2>2, <3>1, <3>2 DEF StatusInv, OneRefresh
  <2>3. CASE ~cache.loading /\ ending
    <3>1. UNCHANGED <<cache, refreshing, begun>>
      BY <2>1, <2>3 DEF RefreshStatus
    <3> QED
      BY <1>a, <2>1, <2>3, <3>1 DEF StatusInv, RefreshesTyped
  <2>4. CASE ~cache.loading /\ ~ending
    <3>1. cache' = [cache EXCEPT !.loading = TRUE] /\ Begins("background")
      BY <2>1, <2>4 DEF RefreshStatus
    <3>a. cache' \in Caches /\ cache'.loading
      BY <1>a, <3>1 DEF RefreshesTyped, Caches
    <3>b. /\ begun' \in 1..MaxRefreshes
          /\ refreshing' \in [1..MaxRefreshes -> Refreshes]
          /\ \A i \in 1..MaxRefreshes : refreshing'[i].kind = "none" <=> refreshing'[i].at = "none"
      BY <1>a, <3>1, BeginsAlone
    <3>2. RefreshesTyped' /\ cache'.loading
      BY <1>a, <2>1, <3>a, <3>b DEF RefreshesTyped
    <3>3. ~crossed => Running' = {begun'} /\ refreshing'[begun'].at = "begun"
      BY <1>a, <2>4, <3>1, BeginsAlone DEF OneRefresh
    <3> QED
      BY <2>1, <2>4, <3>2, <3>3 DEF StatusInv, OneRefresh
  <2> QED
    BY <2>2, <2>3, <2>4
<1>3. ASSUME NEW i \in 1..MaxRefreshes, ReadTask(i)
      PROVE  StatusInv'
  <2>p. PICK seen \in {Told, "failed"} :
          refreshing' = [refreshing EXCEPT ![i].at = "read", ![i].seen = seen]
    BY <1>3 DEF ReadTask
  <2>1. /\ UNCHANGED <<task, setters, cache, begun, ending, crossed>>
        /\ refreshing[i].at = "begun"
    BY <1>3 DEF ReadTask
  <2>t. seen \in Sights /\ Told' = Told
    BY <2>1 DEF Told, Sights
  <2>2. /\ refreshing'[i].at = "read" /\ refreshing'[i].seen \in {Told, "failed"}
        /\ refreshing'[i].kind = refreshing[i].kind
        /\ \A j \in 1..MaxRefreshes \ {i} : refreshing'[j] = refreshing[j]
    BY <1>a, <2>p DEF RefreshesTyped
  <2>3. refreshing' \in [1..MaxRefreshes -> Refreshes]
    BY <1>a, <2>p, <2>t DEF RefreshesTyped, Refreshes, Flights
  <2>4. RefreshesTyped'
    BY <1>a, <2>1, <2>2, <2>3 DEF RefreshesTyped
  <2>5. Running' = Running /\ Pending' = Pending
    BY <2>1, <2>2 DEF Running, Pending
  <2>6. ASSUME ~crossed, ~ending PROVE OneRefresh'
    <3>1. OneRefresh /\ i \in Running
      BY <1>a, <2>1, <2>6 DEF RefreshesTyped, Running
    <3>2. \A j \in Running' : j = i
      BY <2>5, <3>1 DEF OneRefresh
    <3> QED
      BY <2>1, <2>2, <2>5, <2>t, <3>1, <3>2 DEF OneRefresh
  <2> QED
    BY <2>1, <2>4, <2>6 DEF StatusInv
<1>4. ASSUME NEW i \in 1..MaxRefreshes, FinishRefresh(i)
      PROVE  StatusInv'
  <2>1. /\ refreshing[i].at = "read" /\ UNCHANGED <<task, setters, ending, crossed>>
        /\ refreshing[i].seen \in Sights /\ i \in Running
    <3>1. refreshing[i].at = "read" /\ UNCHANGED <<task, setters, ending, crossed>>
      BY <1>4 DEF FinishRefresh
    <3>2. refreshing[i] \in Refreshes
      BY <1>a DEF RefreshesTyped
    <3> QED
      BY <1>a, <3>1, <3>2 DEF RefreshesTyped, Refreshes, Running
  <2>2. Pending' = Pending /\ Told' = Told
    BY <2>1 DEF Pending, Told
  <2>3. CASE RunsAgain /\ ~ending
    <3>1. /\ begun' = begun + 1 /\ begun < MaxRefreshes
          /\ cache' = [loading |-> TRUE, queued |-> FALSE, seen |-> refreshing[i].seen]
          /\ refreshing' = [refreshing EXCEPT ![i] = NoRefresh,
                 ![begun'] = [kind |-> "background", at |-> "begun", seen |-> "failed"]]
      BY <1>4, <2>3 DEF FinishRefresh, JustBegun
    <3>2. begun' \in 1..MaxRefreshes
      BY <1>a, <3>1, SettingsAssumption DEF RefreshesTyped
    <3>3. /\ refreshing'[begun'] = [kind |-> "background", at |-> "begun", seen |-> "failed"]
          /\ \A j \in 1..MaxRefreshes \ {i, begun'} : refreshing'[j] = refreshing[j]
          /\ i # begun' => refreshing'[i] = NoRefresh
      BY <1>a, <3>1, <3>2 DEF RefreshesTyped
    <3>4. refreshing' \in [1..MaxRefreshes -> Refreshes]
      BY <1>a, <3>1, <3>2 DEF RefreshesTyped, Refreshes, Flights, Sights, NoRefresh
    <3>a. cache' \in Caches /\ cache'.loading
      BY <2>1, <3>1 DEF Caches
    <3>b. \A j \in 1..MaxRefreshes : refreshing'[j].kind = "none" <=> refreshing'[j].at = "none"
      BY <1>a, <3>3 DEF RefreshesTyped, NoRefresh
    <3>5. RefreshesTyped' /\ cache'.loading
      BY <1>a, <2>1, <3>2, <3>4, <3>a, <3>b DEF RefreshesTyped
    <3>6. ASSUME ~crossed PROVE Running' = {begun'}
      <4>1. \A j \in 1..MaxRefreshes : refreshing[j].kind # "none" => j = i
        BY <1>a, <2>1, <2>3, <3>6 DEF OneRefresh, Running
      <4> QED
        BY <3>2, <3>3, <4>1 DEF Running, NoRefresh
    <3> QED
      BY <2>1, <3>3, <3>5, <3>6 DEF StatusInv, OneRefresh
  <2>4. CASE ~(RunsAgain /\ ~ending)
    <3>1. /\ cache' = [loading |-> FALSE, queued |-> FALSE, seen |-> refreshing[i].seen]
          /\ refreshing' = [refreshing EXCEPT ![i] = NoRefresh] /\ UNCHANGED begun
      BY <1>4, <2>4 DEF FinishRefresh
    <3>2. /\ refreshing'[i] = NoRefresh
          /\ \A j \in 1..MaxRefreshes \ {i} : refreshing'[j] = refreshing[j]
      BY <1>a, <3>1 DEF RefreshesTyped
    <3>3. refreshing' \in [1..MaxRefreshes -> Refreshes]
      BY <1>a, <3>1 DEF RefreshesTyped, Refreshes, Flights, Sights, NoRefresh
    <3>4. RefreshesTyped'
      <4>1. cache' \in Caches
        BY <2>1, <3>1 DEF Caches
      <4>2. \A j \in 1..MaxRefreshes : refreshing'[j].kind = "none" <=> refreshing'[j].at = "none"
        BY <1>a, <3>2 DEF RefreshesTyped, NoRefresh
      <4> QED
        BY <1>a, <2>1, <3>1, <3>3, <4>1, <4>2 DEF RefreshesTyped
    <3>5. ASSUME ~crossed, ~ending
          PROVE  Running' = {} /\ (Pending = {} => refreshing[i].seen \in {Told, "failed"})
      <4>1. \A j \in 1..MaxRefreshes : refreshing[j].kind # "none" => j = i
        BY <1>a, <2>1, <3>5 DEF OneRefresh, Running
      <4>2. Running' = {}
        BY <3>2, <4>1 DEF Running, NoRefresh
      <4> QED
        BY <1>a, <2>1, <2>4, <3>5, <4>2 DEF OneRefresh, RunsAgain
    <3> QED
      BY <2>1, <2>2, <3>1, <3>4, <3>5 DEF StatusInv, OneRefresh
  <2> QED
    BY <2>3, <2>4
<1>5. ASSUME NEW i \in 1..MaxRefreshes, CancelRefresh(i)
      PROVE  StatusInv'
  <2>1. /\ cache' = [cache EXCEPT !.loading = FALSE, !.queued = FALSE]
        /\ refreshing' = [refreshing EXCEPT ![i] = NoRefresh]
        /\ crossed' = TRUE /\ UNCHANGED <<begun, ending>>
    BY <1>5 DEF CancelRefresh
  <2>2. \A j \in 1..MaxRefreshes : refreshing'[j] = IF j = i THEN NoRefresh ELSE refreshing[j]
    BY <1>a, <2>1 DEF RefreshesTyped
  <2>3. refreshing' \in [1..MaxRefreshes -> Refreshes]
    BY <1>a, <2>1 DEF RefreshesTyped, Refreshes, Flights, Sights, NoRefresh
  <2>4. cache' \in Caches
    BY <1>a, <2>1 DEF RefreshesTyped, Caches
  <2>5. \A j \in 1..MaxRefreshes : refreshing'[j].kind = "none" <=> refreshing'[j].at = "none"
    BY <1>a, <2>2 DEF RefreshesTyped, NoRefresh
  <2> QED
    BY <1>a, <2>1, <2>3, <2>4, <2>5 DEF StatusInv, RefreshesTyped
<1>6. ASSUME JobRefresh
      PROVE  StatusInv'
  <2>1. /\ cache' = [cache EXCEPT !.loading = TRUE, !.queued = FALSE] /\ Begins("job")
        /\ crossed' = (crossed \/ Running # {}) /\ UNCHANGED <<task, setters, ending>>
    BY <1>6 DEF JobRefresh
  <2>a. cache' \in Caches /\ cache'.loading
    BY <1>a, <2>1 DEF RefreshesTyped, Caches
  <2>b. /\ begun' \in 1..MaxRefreshes
        /\ refreshing' \in [1..MaxRefreshes -> Refreshes]
        /\ \A i \in 1..MaxRefreshes : refreshing'[i].kind = "none" <=> refreshing'[i].at = "none"
    BY <1>a, <2>1, BeginsAlone
  <2>c. crossed' \in BOOLEAN
    BY <2>1
  <2>2. RefreshesTyped' /\ cache'.loading
    BY <1>a, <2>1, <2>a, <2>b, <2>c DEF RefreshesTyped
  <2>3. ~crossed' => Running' = {begun'} /\ refreshing'[begun'].at = "begun"
    BY <1>a, <2>1, BeginsAlone
  <2> QED
    BY <2>2, <2>3 DEF StatusInv, OneRefresh
<1>7. ASSUME BeginEnding
      PROVE  StatusInv'
    BY <1>a, <1>7 DEF BeginEnding, StatusInv, RefreshesTyped
<1>8. ASSUME UNCHANGED settingsVars
      PROVE  StatusInv'
    BY <1>a, <1>8 DEF settingsVars, StatusInv, RefreshesTyped, OneRefresh, Running, Pending, Told
<1> QED
    BY <1>1, <1>2, <1>3, <1>4, <1>5, <1>6, <1>7, <1>8 DEF SettingsNext

-----------------------------------------------------------------------------

\* The invariant of the requests, the task, the setting and the refreshes.
THEOREM SettingsInvariant == SettingsSpec => []SettingsInv
<1>1. SettingsInit => SettingsInv
    BY RequestsInit, StatusInit DEF SettingsInv
<1>2. SettingsInv /\ [SettingsNext]_settingsVars => SettingsInv'
    BY RequestsStep, StatusStep DEF SettingsInv
<1> QED
    BY <1>1, <1>2, PTL DEF SettingsSpec

\* The scheduled task of the automatic update exists exactly when the saved
\* setting says so, once every request has been answered, and again after the
\* first request that is alone, told the truth and saved, if a lying answer, a
\* half failed save or an overlap has parted them.
THEOREM TaskAlwaysFollows == SettingsSpec => []TaskFollowsSetting
<1>1. SettingsInv => TaskFollowsSetting
    BY DEF SettingsInv, RequestsInv, TaskFollowsSetting
<1> QED
    BY <1>1, SettingsInvariant, PTL

\* The status page shows the task as it is once nothing is on its way, for
\* every number of requests and refreshes that do not cross, unless its last
\* query has failed and shows no task.
THEOREM StatusStaysCurrent == SettingsSpec => []StatusIsCurrent
<1>1. SettingsInv => StatusIsCurrent
    BY DEF SettingsInv, StatusInv, OneRefresh, StatusIsCurrent
<1> QED
    BY <1>1, SettingsInvariant, PTL

-----------------------------------------------------------------------------
(* A self-update. *)

LEMMA ApplyInitial == ApplyInit => ApplyInv
<1> SUFFICES ASSUME ApplyInit PROVE ApplyInv
    OBVIOUS
<1>1. exe \in Pictures /\ NoImage \in Pictures
    BY ApplyAssumption DEF ApplyInit, Pictures, Images
<1>2. /\ parent \in [image : Pictures, at : {"none", "launching", "stopping", "gone"}]
      /\ health \in [image : Pictures, open : BOOLEAN, ack : BOOLEAN]
      /\ apps \subseteq [image : Pictures, at : {"starting", "up"}]
    BY <1>1 DEF ApplyInit, NoParent, NoHealth, App
<1>3. ApplyTyped
  <2>1. "none" \in Places /\ 0 \in 0..MaxRounds
    BY ApplyAssumption DEF Places
  <2>2. helper \in [Helpers -> Places]
    BY <2>1 DEF ApplyInit
  <2> QED
    BY <1>1, <1>2, <2>1, <2>2 DEF ApplyInit, ApplyTyped
<1>4. ~health.ack /\ parent.at = "none" /\ exe.works
    BY DEF ApplyInit, NoHealth, NoParent, App
<1> QED
    BY <1>3, <1>4 DEF ApplyInit, ApplyInv, OneWorks, Proofs, Files, KeepsWorkingVersion,
                     HandedOver, Decided, Helpers, Early, Late

LEMMA GoesThere ==
    ASSUME ApplyTyped, NEW h \in Helpers, NEW at \in Places, Goes(h, at)
    PROVE  /\ helper' \in [Helpers -> Places]
           /\ helper'[h] = at
           /\ \A g \in Helpers \ {h} : helper'[g] = helper[g]
    BY DEF ApplyTyped, Goes

LEMMA NoHealthIsTyped ==
    NoHealth \in [image : Pictures, open : BOOLEAN, ack : BOOLEAN] /\ NoHealth.ack = FALSE
    BY DEF NoHealth, Pictures

\* The typing survives a step that leaves the images alone.
LEMMA TypingFrame ==
    ASSUME ApplyTyped, UNCHANGED <<offer, round, storage>>,
           helper' \in [Helpers -> Places], excused' \in BOOLEAN,
           apps' \subseteq [image : Pictures, at : {"starting", "up"}],
           parent' \in [image : Pictures, at : {"none", "launching", "stopping", "gone"}]
    PROVE  ApplyTyped'
    BY DEF ApplyTyped, storage, history

\* Nobody touches the files before the launcher has ended.
LEMMA LaunchStep ==
    ASSUME ApplyInv, NEW h \in Helpers,
           BecomeReady(h) \/ HelperIsAlone(h) \/ ReadReady(h) \/ LaunchFailed(h)
             \/ SeeLauncherExit(h)
    PROVE  ApplyInv'
<1>1. ApplyTyped
    BY DEF ApplyInv
<1>2. UNCHANGED <<offer, round, storage>>
    BY DEF BecomeReady, HelperIsAlone, ReadReady, LaunchFailed, SeeLauncherExit
<1>3. UNCHANGED <<exe, kept, health, offer, before, proven>>
    BY <1>2 DEF storage, history
<1>4. Left' = Left
    BY <1>3 DEF Left
<1>p. {"none", "ending", "starting", "ready", "replacing"} \subseteq Places
    BY DEF Places, Early
<1>5. CASE BecomeReady(h)
  <2>1. /\ helper[h] = "starting" /\ Launching(h) /\ Goes(h, "ready")
        /\ UNCHANGED <<apps, parent, excused>>
    BY <1>5 DEF BecomeReady, NotExcused
  <2>2. /\ helper' \in [Helpers -> Places] /\ helper'[h] = "ready"
        /\ \A g \in Helpers \ {h} : helper'[g] = helper[g]
    BY <1>1, <1>p, <2>1, GoesThere
  <2>3. ApplyTyped'
    BY <1>1, <1>2, <2>1, <2>2, TypingFrame DEF ApplyTyped
  <2> QED
    BY <1>3, <1>4, <2>1, <2>2, <2>3 DEF ApplyInv, Launching, OneWorks, Proofs, Files, KeepsWorkingVersion,
                HandedOver, Decided, Left, Helpers, Early, Late
<1>6. CASE HelperIsAlone(h)
  <2>1. /\ helper[h] = "starting" /\ LauncherGone(h) /\ Goes(h, "none")
        /\ UNCHANGED <<apps, parent, excused>>
    BY <1>6 DEF HelperIsAlone, NotExcused
  <2>2. /\ helper' \in [Helpers -> Places] /\ helper'[h] = "none"
        /\ \A g \in Helpers \ {h} : helper'[g] = helper[g]
    BY <1>1, <1>p, <2>1, GoesThere
  <2>3. ApplyTyped'
    BY <1>1, <1>2, <2>1, <2>2, TypingFrame DEF ApplyTyped
  <2> QED
    BY <1>3, <1>4, <2>1, <2>2, <2>3 DEF ApplyInv, LauncherGone, OneWorks, Proofs, Files, KeepsWorkingVersion,
                HandedOver, Decided, Left, Helpers, Early, Late
<1>7. CASE ReadReady(h)
  <2>1. /\ helper[h] = "ready" /\ Launching(h) /\ UNCHANGED <<apps, excused>>
        /\ \/ h = "first" /\ parent' = [parent EXCEPT !.at = "stopping"] /\ UNCHANGED helper
           \/ h = "elevated" /\ Goes("first", "ending") /\ UNCHANGED parent
    BY <1>7 DEF ReadReady, NotExcused, Helpers
  <2>2. CASE h = "first"
    <3>1. /\ parent' \in [image : Pictures, at : {"none", "launching", "stopping", "gone"}]
          /\ parent'.at = "stopping" /\ parent.at = "launching" /\ UNCHANGED helper
      BY <1>1, <2>1, <2>2 DEF ApplyTyped, Launching
    <3>2. ApplyTyped'
      BY <1>1, <1>2, <2>1, <3>1, TypingFrame DEF ApplyTyped
    <3> QED
      BY <1>3, <1>4, <2>1, <2>2, <3>1, <3>2 DEF ApplyInv, OneWorks, Proofs, Files, KeepsWorkingVersion,
                HandedOver, Decided, Left, Helpers, Early, Late
  <2>3. CASE h = "elevated"
    <3>1. /\ helper' \in [Helpers -> Places] /\ helper'["first"] = "ending"
          /\ helper'["elevated"] = helper["elevated"] /\ helper["first"] = "delegating"
          /\ UNCHANGED parent
      BY <1>1, <1>p, <2>1, <2>3, GoesThere DEF Helpers, Launching
    <3>2. ApplyTyped'
      BY <1>1, <1>2, <2>1, <3>1, TypingFrame DEF ApplyTyped
    <3> QED
      BY <1>3, <1>4, <2>1, <2>3, <3>1, <3>2 DEF ApplyInv, OneWorks, Proofs, Files, KeepsWorkingVersion,
                HandedOver, Decided, Left, Helpers, Early, Late
  <2> QED
    BY <2>2, <2>3 DEF Helpers
<1>8. CASE LaunchFailed(h)
  <2>1. /\ helper[h] \in {"none", "starting", "ready"} /\ Launching(h)
        /\ helper' = [helper EXCEPT ![h] = "none", !["first"] = IF h = "first" THEN "none" ELSE "ending"]
        /\ IF h = "first"
           THEN apps' = apps \cup {App(parent.image, "up")} /\ parent' = NoParent /\ UNCHANGED excused
           ELSE UNCHANGED <<apps, parent>> /\ excused' = TRUE
    BY <1>8 DEF LaunchFailed, NotExcused, Excused
  <2>2. CASE h = "first"
    <3>1. /\ helper' \in [Helpers -> Places] /\ helper'["first"] = "none"
          /\ helper'["elevated"] = helper["elevated"]
      BY <1>1, <1>p, <2>1, <2>2 DEF ApplyTyped, Helpers
    <3>2. /\ apps' \subseteq [image : Pictures, at : {"starting", "up"}]
          /\ parent' \in [image : Pictures, at : {"none", "launching", "stopping", "gone"}]
          /\ parent'.at = "none"
      BY <1>1, <2>1, <2>2 DEF ApplyTyped, App, NoParent, Pictures
    <3>3. ApplyTyped'
      BY <1>1, <1>2, <2>1, <2>2, <3>1, <3>2, TypingFrame DEF ApplyTyped
    <3> QED
      BY <1>3, <1>4, <2>1, <2>2, <3>1, <3>2, <3>3 DEF ApplyInv, OneWorks, Proofs, Files, KeepsWorkingVersion,
                HandedOver, Decided, Left, Helpers, Early, Late
  <2>3. CASE h = "elevated"
    <3>1. /\ helper' \in [Helpers -> Places] /\ helper'["first"] = "ending"
          /\ helper'["elevated"] = "none"
      BY <1>1, <1>p, <2>1, <2>3 DEF ApplyTyped, Helpers
    <3>2. UNCHANGED <<apps, parent>> /\ excused' = TRUE
      BY <2>1, <2>3
    <3>3. ApplyTyped'
      BY <1>1, <1>2, <3>1, <3>2, TypingFrame DEF ApplyTyped
    <3> QED
      BY <1>3, <1>4, <3>1, <3>2, <3>3 DEF ApplyInv, OneWorks, Proofs, Files, KeepsWorkingVersion,
                HandedOver, Decided, Left, Helpers, Early, Late
  <2> QED
    BY <2>2, <2>3 DEF Helpers
<1>9. CASE SeeLauncherExit(h)
  <2>1. /\ helper[h] = "ready" /\ UNCHANGED <<apps, parent>>
        /\ \/ LauncherGone(h) /\ Goes(h, "replacing") /\ UNCHANGED excused
           \/ ~LauncherGone(h) /\ ~Launching(h) /\ Goes(h, "ending") /\ excused' = TRUE
    BY <1>9 DEF SeeLauncherExit, NotExcused, Excused
  <2>2. /\ helper' \in [Helpers -> Places]
        /\ \A g \in Helpers \ {h} : helper'[g] = helper[g]
        /\ \/ LauncherGone(h) /\ helper'[h] = "replacing" /\ UNCHANGED excused
           \/ helper'[h] = "ending" /\ excused' = TRUE
    BY <1>1, <1>p, <2>1, GoesThere
  <2>3. ApplyTyped'
    BY <1>1, <1>2, <2>1, <2>2, TypingFrame DEF ApplyTyped
  <2> QED
    BY <1>3, <1>4, <2>1, <2>2, <2>3 DEF ApplyInv, LauncherGone, OneWorks, Proofs, Files, KeepsWorkingVersion,
                HandedOver, Decided, Left, Helpers, Early, Late
<1> QED
    BY <1>5, <1>6, <1>7, <1>8, <1>9

\* The helper that works is alone: the first one is gone, the elevated one
\* has not been started or has ended.
LEMMA WorksAlone ==
    ASSUME ApplyInv, NEW h \in Helpers, NEW g \in Helpers \ {h},
           helper[h] \in Late \cup {"replacing"}
    PROVE  helper[g] = "none"
<1>1. CASE h = "first"
    BY <1>1 DEF ApplyInv, OneWorks, Helpers, Late
<1>2. CASE h = "elevated"
    BY <1>2 DEF ApplyInv, OneWorks, Helpers
<1> QED
    BY <1>1, <1>2 DEF Helpers

\* What a step of the working helper has to keep.
LEMMA WorkFrame ==
    ASSUME ApplyInv, NEW h \in Helpers, NEW at \in Places \ {"starting", "ready", "delegating"},
           helper[h] \in Late \cup {"replacing"},
           Goes(h, at), ApplyTyped', Proofs', KeepsWorkingVersion', Files(h)',
           UNCHANGED <<parent, before>>, excused => excused',
           at \in {"none", "ending"} =>
             excused' \/ (kept' = NoImage /\ exe' \in proven' \cup {before})
    PROVE  ApplyInv'
<1>1. /\ helper'[h] = at
      /\ \A g \in Helpers \ {h} : helper'[g] = helper[g] /\ helper[g] = "none"
    BY GoesThere, WorksAlone DEF ApplyInv
<1>2. OneWorks'
    BY <1>1 DEF ApplyInv, OneWorks, Helpers, Late
<1>3. ASSUME NEW g \in Helpers \ {h} PROVE Files(g)'
    BY <1>1 DEF Files, Early
<1>4. HandedOver'
  <2>1. helper[h] # "ready" /\ helper[h] # "starting" /\ helper[h] # "delegating"
    BY DEF Late
  <2> QED
    BY <1>1, <2>1 DEF ApplyInv, HandedOver, Helpers
<1>5. Decided'
    BY <1>1 DEF Decided, Helpers
<1> QED
    BY <1>2, <1>3, <1>4, <1>5 DEF ApplyInv

LEMMA WorkStep ==
    ASSUME ApplyInv, NEW h \in Helpers,
           ReplaceFails(h) \/ MoveOldAway(h) \/ MoveNewIn(h) \/ AskForHealth(h) \/ StartNew(h)
             \/ KeepNew(h) \/ GiveUpOnNew(h) \/ MoveFailedAway(h) \/ MoveOldBack(h)
             \/ DropBackup(h) \/ StartOld(h)
    PROVE  ApplyInv'
<1>1. ApplyTyped /\ Proofs /\ KeepsWorkingVersion /\ Files(h)
    BY DEF ApplyInv
<1>2. /\ exe \in Pictures /\ kept \in Pictures /\ offer \in Pictures /\ before \in Pictures
      /\ NoImage \in Pictures /\ ~NoImage.works
      /\ apps \subseteq [image : Pictures, at : {"starting", "up"}]
    BY <1>1 DEF ApplyTyped, Pictures, NoImage
<1>p. {"ending", "replaced", "asking", "starts", "waiting", "restore", "restoring", "restored",
       "restart"} \subseteq Places \ {"starting", "ready", "delegating"}
    BY DEF Places, Early, Late
<1>t. ASSUME NEW at \in Places, Goes(h, at), UNCHANGED <<parent, offer, round, before>>,
             exe' \in Pictures, kept' \in Pictures, excused' \in BOOLEAN,
             apps' \subseteq [image : Pictures, at : {"starting", "up"}],
             health' \in [image : Pictures, open : BOOLEAN, ack : BOOLEAN]
      PROVE  ApplyTyped'
    BY <1>1, <1>t, GoesThere DEF ApplyTyped
<1>h. health \in [image : Pictures, open : BOOLEAN, ack : BOOLEAN] /\ excused \in BOOLEAN
    BY <1>1 DEF ApplyTyped
<1>l. {"replaced", "asking", "starts", "waiting", "restore", "restoring", "restored", "restart"}
        \subseteq Late
    BY DEF Late
<1>3. CASE ReplaceFails(h)
  <2>1. /\ helper[h] = "replacing" /\ UNCHANGED <<parent, offer, round, before, proven>>
        /\ UNCHANGED <<exe, kept, apps, health>>
        /\ Goes(h, "ending") /\ excused' = TRUE
    BY <1>3 DEF ReplaceFails, Excused, NotExcused, storage, history
  <2>2. ApplyTyped'
    BY <1>2, <1>p, <1>h, <2>1, <1>t DEF App
  <2>3. helper'[h] = "ending"
    BY <1>1, <1>p, <2>1, GoesThere
  <2>4. Proofs' /\ KeepsWorkingVersion' /\ Files(h)'
    BY <1>1, <1>2, <2>1, <2>3 DEF Proofs, KeepsWorkingVersion, Files, Left, Early
  <2> QED
    BY <1>1, <1>2, <1>p, <1>l, <2>1, <2>2, <2>4, WorkFrame DEF Files, Proofs
<1>4. CASE MoveOldAway(h)
  <2>1. /\ helper[h] = "replacing" /\ UNCHANGED <<parent, offer, round, before, proven>>
        /\ kept' = (IF exe = NoImage THEN kept ELSE exe) /\ exe' = NoImage
        /\ UNCHANGED <<apps, health>>
        /\ Goes(h, "replaced") /\ UNCHANGED excused
    BY <1>4 DEF MoveOldAway, Excused, NotExcused, storage, history
  <2>2. ApplyTyped'
    BY <1>2, <1>p, <1>h, <2>1, <1>t DEF App
  <2>3. helper'[h] = "replaced"
    BY <1>1, <1>p, <2>1, GoesThere
  <2>4. Proofs' /\ KeepsWorkingVersion' /\ Files(h)'
    BY <1>1, <1>2, <2>1, <2>3 DEF Proofs, KeepsWorkingVersion, Files, Left, Early
  <2> QED
    BY <1>1, <1>2, <1>p, <1>l, <2>1, <2>2, <2>4, WorkFrame DEF Files, Proofs
<1>5. CASE MoveNewIn(h)
  <2>1. /\ helper[h] = "replaced" /\ UNCHANGED <<parent, offer, round, before, proven>>
        /\ UNCHANGED <<kept, apps, health>>
        /\ \/ Goes(h, "asking") /\ exe' = offer /\ UNCHANGED excused
           \/ Goes(h, "ending") /\ exe' = exe /\ excused' = TRUE
    BY <1>5 DEF MoveNewIn, Excused, NotExcused, storage, history
  <2>2. CASE Goes(h, "asking") /\ exe' = offer /\ UNCHANGED excused
    <3>1. ApplyTyped'
      BY <1>2, <1>p, <1>h, <2>1, <2>2, <1>t DEF App
    <3>2. helper'[h] = "asking"
      BY <1>1, <1>p, <2>1, <2>2, GoesThere
    <3>3. Proofs' /\ KeepsWorkingVersion' /\ Files(h)'
      BY <1>1, <1>2, <2>1, <2>2, <3>2 DEF Proofs, KeepsWorkingVersion, Files, Left, Early
    <3> QED
      BY <1>1, <1>2, <1>p, <1>l, <2>1, <2>2, <3>1, <3>3, WorkFrame DEF Files, Proofs
  <2>3. CASE Goes(h, "ending") /\ exe' = exe /\ excused' = TRUE
    <3>1. ApplyTyped'
      BY <1>2, <1>p, <1>h, <2>1, <2>3, <1>t DEF App
    <3>2. helper'[h] = "ending"
      BY <1>1, <1>p, <2>1, <2>3, GoesThere
    <3>3. Proofs' /\ KeepsWorkingVersion' /\ Files(h)'
      BY <1>1, <1>2, <2>1, <2>3, <3>2 DEF Proofs, KeepsWorkingVersion, Files, Left, Early
    <3> QED
      BY <1>1, <1>2, <1>p, <1>l, <2>1, <2>3, <3>1, <3>3, WorkFrame DEF Files, Proofs
  <2> QED
    BY <2>1, <2>2, <2>3
<1>6. CASE AskForHealth(h)
  <2>1. /\ helper[h] = "asking" /\ UNCHANGED <<parent, offer, round, before, proven>>
        /\ UNCHANGED <<exe, kept, apps, excused>>
        /\ \/ Goes(h, "starts") /\ health' = [image |-> offer, open |-> TRUE, ack |-> FALSE]
           \/ Goes(h, "restore") /\ health' = health
    BY <1>6 DEF AskForHealth, Excused, NotExcused, storage, history
  <2>2. CASE Goes(h, "starts") /\ health' = [image |-> offer, open |-> TRUE, ack |-> FALSE]
    <3>1. ApplyTyped'
      BY <1>2, <1>p, <1>h, <2>1, <2>2, <1>t DEF App
    <3>2. helper'[h] = "starts"
      BY <1>1, <1>p, <2>1, <2>2, GoesThere
    <3>3. Proofs' /\ KeepsWorkingVersion' /\ Files(h)'
      BY <1>1, <1>2, <2>1, <2>2, <3>2 DEF Proofs, KeepsWorkingVersion, Files, Left, Early
    <3> QED
      BY <1>1, <1>2, <1>p, <1>l, <2>1, <2>2, <3>1, <3>3, WorkFrame DEF Files, Proofs
  <2>3. CASE Goes(h, "restore") /\ health' = health
    <3>1. ApplyTyped'
      BY <1>2, <1>p, <1>h, <2>1, <2>3, <1>t DEF App
    <3>2. helper'[h] = "restore"
      BY <1>1, <1>p, <2>1, <2>3, GoesThere
    <3>3. Proofs' /\ KeepsWorkingVersion' /\ Files(h)'
      BY <1>1, <1>2, <2>1, <2>3, <3>2 DEF Proofs, KeepsWorkingVersion, Files, Left, Early
    <3> QED
      BY <1>1, <1>2, <1>p, <1>l, <2>1, <2>3, <3>1, <3>3, WorkFrame DEF Files, Proofs
  <2> QED
    BY <2>1, <2>2, <2>3
<1>7. CASE StartNew(h)
  <2>1. /\ helper[h] = "starts" /\ UNCHANGED <<parent, offer, round, before, proven>>
        /\ UNCHANGED <<exe, kept, health, excused>>
        /\ \/ Goes(h, "waiting") /\ apps' = apps \cup {App(exe, "starting")}
           \/ Goes(h, "restore") /\ apps' = apps
    BY <1>7 DEF StartNew, Excused, NotExcused, storage, history, AfterFailedStart
  <2>2. CASE Goes(h, "waiting") /\ apps' = apps \cup {App(exe, "starting")}
    <3>1. ApplyTyped'
      BY <1>2, <1>p, <1>h, <2>1, <2>2, <1>t DEF App
    <3>2. helper'[h] = "waiting"
      BY <1>1, <1>p, <2>1, <2>2, GoesThere
    <3>3. Proofs' /\ KeepsWorkingVersion' /\ Files(h)'
      BY <1>1, <1>2, <2>1, <2>2, <3>2 DEF Proofs, KeepsWorkingVersion, Files, Left, Early
    <3> QED
      BY <1>1, <1>2, <1>p, <1>l, <2>1, <2>2, <3>1, <3>3, WorkFrame DEF Files, Proofs
  <2>3. CASE Goes(h, "restore") /\ apps' = apps
    <3>1. ApplyTyped'
      BY <1>2, <1>p, <1>h, <2>1, <2>3, <1>t DEF App
    <3>2. helper'[h] = "restore"
      BY <1>1, <1>p, <2>1, <2>3, GoesThere
    <3>3. Proofs' /\ KeepsWorkingVersion' /\ Files(h)'
      BY <1>1, <1>2, <2>1, <2>3, <3>2 DEF Proofs, KeepsWorkingVersion, Files, Left, Early
    <3> QED
      BY <1>1, <1>2, <1>p, <1>l, <2>1, <2>3, <3>1, <3>3, WorkFrame DEF Files, Proofs
  <2> QED
    BY <2>1, <2>2, <2>3
<1>8. CASE KeepNew(h)
  <2>1. /\ helper[h] = "waiting" /\ UNCHANGED <<parent, offer, round, before, proven>>
        /\ UNCHANGED <<exe, apps, health>>
        /\ Goes(h, "ending") /\ health.ack /\ kept' \in {kept, NoImage} /\ excused' = (excused \/ kept' = kept)
    BY <1>8 DEF KeepNew, Excused, NotExcused, storage, history
  <2>2. ApplyTyped'
    BY <1>2, <1>p, <1>h, <2>1, <1>t DEF App
  <2>3. helper'[h] = "ending"
    BY <1>1, <1>p, <2>1, GoesThere
  <2>4. Proofs' /\ KeepsWorkingVersion' /\ Files(h)'
    BY <1>1, <1>2, <2>1, <2>3 DEF Proofs, KeepsWorkingVersion, Files, Left, Early
  <2> QED
    BY <1>1, <1>2, <1>p, <1>l, <2>1, <2>2, <2>4, WorkFrame DEF Files, Proofs
<1>9. CASE GiveUpOnNew(h)
  <2>1. /\ helper[h] = "waiting" /\ UNCHANGED <<parent, offer, round, before, proven>>
        /\ UNCHANGED <<exe, kept, health>>
        /\ Goes(h, "restore") /\ apps' \subseteq apps /\ UNCHANGED excused
    BY <1>9 DEF GiveUpOnNew, Excused, NotExcused, storage, history, Represents
  <2>2. ApplyTyped'
    BY <1>2, <1>p, <1>h, <2>1, <1>t DEF App
  <2>3. helper'[h] = "restore"
    BY <1>1, <1>p, <2>1, GoesThere
  <2>4. Proofs' /\ KeepsWorkingVersion' /\ Files(h)'
    BY <1>1, <1>2, <2>1, <2>3 DEF Proofs, KeepsWorkingVersion, Files, Left, Early
  <2> QED
    BY <1>1, <1>2, <1>p, <1>l, <2>1, <2>2, <2>4, WorkFrame DEF Files, Proofs
<1>10. CASE MoveFailedAway(h)
  <2>1. /\ helper[h] = "restore" /\ UNCHANGED <<parent, offer, round, before, proven>>
        /\ UNCHANGED <<kept, apps, health>>
        /\ \/ Goes(h, "restoring") /\ exe' = NoImage /\ UNCHANGED excused
           \/ Goes(h, "ending") /\ exe' = exe /\ excused' = TRUE
    BY <1>10 DEF MoveFailedAway, Excused, NotExcused, storage, history
  <2>2. CASE Goes(h, "restoring") /\ exe' = NoImage /\ UNCHANGED excused
    <3>1. ApplyTyped'
      BY <1>2, <1>p, <1>h, <2>1, <2>2, <1>t DEF App
    <3>2. helper'[h] = "restoring"
      BY <1>1, <1>p, <2>1, <2>2, GoesThere
    <3>3. Proofs' /\ KeepsWorkingVersion' /\ Files(h)'
      BY <1>1, <1>2, <2>1, <2>2, <3>2 DEF Proofs, KeepsWorkingVersion, Files, Left, Early
    <3> QED
      BY <1>1, <1>2, <1>p, <1>l, <2>1, <2>2, <3>1, <3>3, WorkFrame DEF Files, Proofs
  <2>3. CASE Goes(h, "ending") /\ exe' = exe /\ excused' = TRUE
    <3>1. ApplyTyped'
      BY <1>2, <1>p, <1>h, <2>1, <2>3, <1>t DEF App
    <3>2. helper'[h] = "ending"
      BY <1>1, <1>p, <2>1, <2>3, GoesThere
    <3>3. Proofs' /\ KeepsWorkingVersion' /\ Files(h)'
      BY <1>1, <1>2, <2>1, <2>3, <3>2 DEF Proofs, KeepsWorkingVersion, Files, Left, Early
    <3> QED
      BY <1>1, <1>2, <1>p, <1>l, <2>1, <2>3, <3>1, <3>3, WorkFrame DEF Files, Proofs
  <2> QED
    BY <2>1, <2>2, <2>3
<1>11. CASE MoveOldBack(h)
  <2>1. /\ helper[h] = "restoring" /\ UNCHANGED <<parent, offer, round, before, proven>>
        /\ UNCHANGED <<kept, apps, health>>
        /\ \/ Goes(h, "restored") /\ exe' = kept /\ UNCHANGED excused
           \/ Goes(h, "ending") /\ exe' = exe /\ excused' = TRUE
    BY <1>11 DEF MoveOldBack, Excused, NotExcused, storage, history
  <2>2. CASE Goes(h, "restored") /\ exe' = kept /\ UNCHANGED excused
    <3>1. ApplyTyped'
      BY <1>2, <1>p, <1>h, <2>1, <2>2, <1>t DEF App
    <3>2. helper'[h] = "restored"
      BY <1>1, <1>p, <2>1, <2>2, GoesThere
    <3>3. Proofs' /\ KeepsWorkingVersion' /\ Files(h)'
      BY <1>1, <1>2, <2>1, <2>2, <3>2 DEF Proofs, KeepsWorkingVersion, Files, Left, Early
    <3> QED
      BY <1>1, <1>2, <1>p, <1>l, <2>1, <2>2, <3>1, <3>3, WorkFrame DEF Files, Proofs
  <2>3. CASE Goes(h, "ending") /\ exe' = exe /\ excused' = TRUE
    <3>1. ApplyTyped'
      BY <1>2, <1>p, <1>h, <2>1, <2>3, <1>t DEF App
    <3>2. helper'[h] = "ending"
      BY <1>1, <1>p, <2>1, <2>3, GoesThere
    <3>3. Proofs' /\ KeepsWorkingVersion' /\ Files(h)'
      BY <1>1, <1>2, <2>1, <2>3, <3>2 DEF Proofs, KeepsWorkingVersion, Files, Left, Early
    <3> QED
      BY <1>1, <1>2, <1>p, <1>l, <2>1, <2>3, <3>1, <3>3, WorkFrame DEF Files, Proofs
  <2> QED
    BY <2>1, <2>2, <2>3
<1>12. CASE DropBackup(h)
  <2>1. /\ helper[h] = "restored" /\ UNCHANGED <<parent, offer, round, before, proven>>
        /\ UNCHANGED <<exe, apps, health>>
        /\ \/ Goes(h, "restart") /\ kept' = NoImage /\ UNCHANGED excused
           \/ Goes(h, "ending") /\ kept' = kept /\ excused' = TRUE
    BY <1>12 DEF DropBackup, Excused, NotExcused, storage, history, AfterRestore
  <2>2. CASE Goes(h, "restart") /\ kept' = NoImage /\ UNCHANGED excused
    <3>1. ApplyTyped'
      BY <1>2, <1>p, <1>h, <2>1, <2>2, <1>t DEF App
    <3>2. helper'[h] = "restart"
      BY <1>1, <1>p, <2>1, <2>2, GoesThere
    <3>3. Proofs' /\ KeepsWorkingVersion' /\ Files(h)'
      BY <1>1, <1>2, <2>1, <2>2, <3>2 DEF Proofs, KeepsWorkingVersion, Files, Left, Early
    <3> QED
      BY <1>1, <1>2, <1>p, <1>l, <2>1, <2>2, <3>1, <3>3, WorkFrame DEF Files, Proofs
  <2>3. CASE Goes(h, "ending") /\ kept' = kept /\ excused' = TRUE
    <3>1. ApplyTyped'
      BY <1>2, <1>p, <1>h, <2>1, <2>3, <1>t DEF App
    <3>2. helper'[h] = "ending"
      BY <1>1, <1>p, <2>1, <2>3, GoesThere
    <3>3. Proofs' /\ KeepsWorkingVersion' /\ Files(h)'
      BY <1>1, <1>2, <2>1, <2>3, <3>2 DEF Proofs, KeepsWorkingVersion, Files, Left, Early
    <3> QED
      BY <1>1, <1>2, <1>p, <1>l, <2>1, <2>3, <3>1, <3>3, WorkFrame DEF Files, Proofs
  <2> QED
    BY <2>1, <2>2, <2>3
<1>13. CASE StartOld(h)
  <2>1. /\ helper[h] = "restart" /\ UNCHANGED <<parent, offer, round, before, proven>>
        /\ UNCHANGED <<exe, kept, health>> /\ Goes(h, "ending")
    BY <1>13 DEF StartOld, storage, history
  <2>2. /\ apps' = apps \/ apps' = apps \cup {App(exe, "starting")}
        /\ excused' = excused \/ excused' = TRUE
    BY <1>13 DEF StartOld, Excused, NotExcused
  <2>3. apps' \subseteq [image : Pictures, at : {"starting", "up"}] /\ excused' \in BOOLEAN
    <3>1. App(exe, "starting") \in [image : Pictures, at : {"starting", "up"}]
      BY <1>2 DEF App
    <3> QED
      BY <1>2, <1>h, <2>2, <3>1
  <2>4. ApplyTyped'
    BY <1>2, <1>p, <1>h, <2>1, <2>3, <1>t
  <2>5. helper'[h] = "ending"
    BY <1>1, <1>p, <2>1, GoesThere
  <2>6. Proofs' /\ KeepsWorkingVersion' /\ Files(h)'
    BY <1>1, <1>2, <2>1, <2>5 DEF Proofs, KeepsWorkingVersion, Files, Left, Early
  <2>7. kept' = NoImage /\ exe' \in proven' \cup {before}
    BY <1>1, <2>1 DEF Files
  <2>8. excused => excused'
    BY <2>2
  <2> QED
    BY <1>p, <1>l, <2>1, <2>4, <2>6, <2>7, <2>8, WorkFrame
<1> QED
    BY <1>3, <1>4, <1>5, <1>6, <1>7, <1>8, <1>9, <1>10, <1>11, <1>12, <1>13

\* Steps that end a helper, or hand over to the elevated one.
LEMMA EndStep ==
    ASSUME ApplyInv, NEW h \in Helpers, End(h) \/ HelperDies(h)
    PROVE  ApplyInv'
<1>1. ApplyTyped
    BY DEF ApplyInv
<1>2. /\ Goes(h, "none") /\ helper[h] # "none"
      /\ UNCHANGED <<exe, kept, apps, parent, offer, round, before, proven>>
    BY DEF End, HelperDies, storage, history
<1>3. /\ helper' \in [Helpers -> Places] /\ helper'[h] = "none"
      /\ \A g \in Helpers \ {h} : helper'[g] = helper[g]
    BY <1>1, <1>2, GoesThere DEF Places
<1>4. health' \in {health, NoHealth}
    BY DEF End, HelperDies, storage
<1>5. ApplyTyped' /\ (excused => excused')
  <2>1. health' \in [image : Pictures, open : BOOLEAN, ack : BOOLEAN]
    BY <1>1, <1>4, NoHealthIsTyped DEF ApplyTyped
  <2>2. excused' = excused \/ excused' = TRUE
    BY DEF End, HelperDies, NotExcused, Excused
  <2> QED
    BY <1>1, <1>2, <1>3, <2>1, <2>2 DEF ApplyTyped
<1>6. Proofs'
  <2>1. CASE health' = health
    BY <1>2, <2>1 DEF ApplyInv, Proofs
  <2>2. CASE health' = NoHealth
    <3>1. health'.ack = FALSE
      BY <2>2, NoHealthIsTyped
    <3> QED
      BY <3>1 DEF Proofs
  <2> QED
    BY <1>4, <2>1, <2>2
<1>7. OneWorks'
  <2>1. CASE h = "first"
    BY <1>3, <2>1 DEF ApplyInv, OneWorks, Helpers
  <2>2. CASE h = "elevated"
    <3>1. helper'["elevated"] = "none"
      BY <1>3, <2>2
    <3> QED
      BY <3>1 DEF OneWorks, Late
  <2> QED
    BY <2>1, <2>2 DEF Helpers
<1>8. ASSUME NEW g \in Helpers PROVE Files(g)'
  <2>1. CASE g = h
    BY <1>3, <2>1 DEF Files, Early
  <2>2. CASE g # h
    <3>1. helper'[g] = helper[g] /\ Files(g) /\ Left' = Left
      BY <1>2, <1>3, <2>2 DEF ApplyInv, Left
    <3>2. helper[g] \in {"starts", "waiting"} => health' = health
      <4>1. CASE HelperDies(h)
        BY <4>1 DEF HelperDies, storage
      <4>2. CASE End(h)
        BY <2>2, <4>2, WorksAlone, <1>2 DEF Late
      <4> QED
        BY <4>1, <4>2
    <3> QED
      BY <1>2, <3>1, <3>2 DEF Files
  <2> QED
    BY <2>1, <2>2
<1>9. KeepsWorkingVersion'
    BY <1>2 DEF ApplyInv, KeepsWorkingVersion
<1>10. HandedOver' /\ Decided'
  <2>1. CASE HelperDies(h)
    BY <2>1 DEF HelperDies, Excused, HandedOver, Decided
  <2>2. CASE End(h)
    <3>1. helper[h] = "ending" /\ UNCHANGED excused
      BY <2>2 DEF End, NotExcused
    <3> QED
      BY <1>2, <1>3, <3>1 DEF ApplyInv, HandedOver, Decided, Helpers
  <2> QED
    BY <2>1, <2>2
<1> QED
    BY <1>5, <1>6, <1>7, <1>8, <1>9, <1>10 DEF ApplyInv

LEMMA DelegateStep ==
    ASSUME ApplyInv, Delegate
    PROVE  ApplyInv'
<1>1. ApplyTyped /\ helper["first"] = "replacing" /\ "first" \in Helpers /\ "elevated" \in Helpers
    BY DEF ApplyInv, Delegate, Helpers
<1>2. helper["elevated"] = "none"
    BY <1>1, WorksAlone DEF Helpers
<1>3. /\ UNCHANGED <<offer, round, storage>> /\ UNCHANGED <<apps, parent>>
      /\ \/ helper' = [first |-> "delegating", elevated |-> "starting"] /\ UNCHANGED excused
         \/ Goes("first", "ending") /\ excused' = TRUE
    BY DEF Delegate, NotExcused, Excused
<1>4. UNCHANGED <<exe, kept, health, offer, before, proven>>
    BY <1>3 DEF storage, history
<1>5. CASE helper' = [first |-> "delegating", elevated |-> "starting"] /\ UNCHANGED excused
  <2>1. /\ helper' \in [Helpers -> Places]
        /\ helper'["first"] = "delegating" /\ helper'["elevated"] = "starting"
    BY <1>5 DEF Helpers, Places, Early
  <2>2. ApplyTyped'
    BY <1>1, <1>3, <1>5, <2>1, TypingFrame DEF ApplyTyped
  <2> QED
    BY <1>1, <1>3, <1>4, <1>5, <2>1, <2>2
    DEF ApplyInv, OneWorks, Proofs, Files, KeepsWorkingVersion,
                HandedOver, Decided, Left, Helpers, Early, Late
<1>6. CASE Goes("first", "ending") /\ excused' = TRUE
  <2>1. /\ helper' \in [Helpers -> Places]
        /\ helper'["first"] = "ending" /\ helper'["elevated"] = "none"
    BY <1>1, <1>2, <1>6, GoesThere DEF Helpers, Places
  <2>2. ApplyTyped'
    BY <1>1, <1>3, <1>6, <2>1, TypingFrame DEF ApplyTyped
  <2> QED
    BY <1>1, <1>3, <1>4, <1>6, <2>1, <2>2
    DEF ApplyInv, OneWorks, Proofs, Files, KeepsWorkingVersion,
                HandedOver, Decided, Left, Helpers, Early, Late
<1> QED
    BY <1>3, <1>5, <1>6

\* The launcher: an update begins, or it exits.
LEMMA LauncherStep ==
    ASSUME ApplyInv, Stage \/ ParentExits
    PROVE  ApplyInv'
<1>1. ApplyTyped
    BY DEF ApplyInv
<1>2. CASE Stage
  <2>1. PICK a \in apps, works \in BOOLEAN :
          /\ parent' = App(a.image, "launching") /\ apps' \in {apps, apps \ {a}}
          /\ offer' = [version |-> round + 1, works |-> works]
    BY <1>2 DEF Stage
  <2>2. /\ round < MaxRounds /\ \A h \in Helpers : helper[h] = "none"
        /\ Goes("first", "starting") /\ round' = round + 1
        /\ before' = (IF exe = NoImage THEN kept ELSE exe) /\ excused' = FALSE
        /\ UNCHANGED <<exe, kept, health, proven>>
    BY <1>2 DEF Stage
  <2>3. /\ helper' \in [Helpers -> Places]
        /\ helper'["first"] = "starting" /\ helper'["elevated"] = "none"
    BY <1>1, <2>2, GoesThere DEF Helpers, Places, Early
  <2>4. offer' \in Pictures /\ round' \in 0..MaxRounds
    BY <1>1, <2>1, <2>2, ApplyAssumption DEF ApplyTyped, Pictures, Images
  <2>5. /\ parent' \in [image : Pictures, at : {"none", "launching", "stopping", "gone"}]
        /\ parent'.at = "launching" /\ before' \in Pictures
        /\ apps' \subseteq [image : Pictures, at : {"starting", "up"}]
    BY <1>1, <2>1, <2>2 DEF ApplyTyped, App
  <2>6. ApplyTyped'
    BY <1>1, <2>2, <2>3, <2>4, <2>5 DEF ApplyTyped
  <2> QED
    BY <2>2, <2>3, <2>5, <2>6
    DEF ApplyInv, OneWorks, Proofs, Files, KeepsWorkingVersion,
                HandedOver, Decided, Left, Helpers, Early, Late
<1>3. CASE ParentExits
  <2>1. /\ parent' = [parent EXCEPT !.at = "gone"] /\ UNCHANGED <<apps, helper, offer, round, storage>>
        /\ (parent.at = "stopping" /\ UNCHANGED excused) \/ excused' = TRUE
    BY <1>3 DEF ParentExits, NotExcused, Excused
  <2>2. /\ parent' \in [image : Pictures, at : {"none", "launching", "stopping", "gone"}]
        /\ parent'.at = "gone"
    BY <1>1, <2>1 DEF ApplyTyped
  <2>3. UNCHANGED <<exe, kept, health, before, proven>>
    BY <2>1 DEF storage, history
  <2>4. ApplyTyped'
    BY <1>1, <2>1, <2>2, TypingFrame DEF ApplyTyped
  <2> QED
    BY <2>1, <2>2, <2>3, <2>4
    DEF ApplyInv, OneWorks, Proofs, Files, KeepsWorkingVersion,
                HandedOver, Decided, Left, Helpers, Early, Late
<1> QED
    BY <1>2, <1>3

\* The instances: only an image that works acknowledges its start.
LEMMA AppStepKeeps ==
    ASSUME ApplyInv, UserStarts \/ AppStep
    PROVE  ApplyInv'
<1>1. ApplyTyped
    BY DEF ApplyInv
<1>2. UNCHANGED <<exe, kept, parent, helper, offer, round, before, excused>>
    BY DEF UserStarts, AppStep, ComeUp, FailToStart, NotExcused, storage, history
<1>3. CASE UserStarts
  <2>1. apps' = apps \cup {App(exe, "starting")} /\ UNCHANGED storage
    BY <1>3 DEF UserStarts
  <2>2. ApplyTyped'
    BY <1>1, <1>2, <2>1, TypingFrame DEF ApplyTyped, App
  <2> QED
    BY <1>2, <2>1, <2>2 DEF storage, history, ApplyInv, OneWorks, Proofs, Files, KeepsWorkingVersion,
                HandedOver, Decided, Left, Helpers, Early, Late
<1>4. ASSUME NEW a \in apps, FailToStart(a)
      PROVE  ApplyInv'
  <2>1. apps' = apps \ {a} /\ UNCHANGED storage
    BY <1>4 DEF FailToStart
  <2>2. ApplyTyped'
    BY <1>1, <1>2, <2>1, TypingFrame DEF ApplyTyped
  <2> QED
    BY <1>2, <2>1, <2>2 DEF storage, history, ApplyInv, OneWorks, Proofs, Files, KeepsWorkingVersion,
                HandedOver, Decided, Left, Helpers, Early, Late
<1>5. ASSUME NEW a \in apps, ComeUp(a)
      PROVE  ApplyInv'
  <2>1. apps' = (apps \ {a}) \cup {App(a.image, "up")} /\ a.image.works /\ a.image \in Pictures
    BY <1>1, <1>5 DEF ComeUp, ApplyTyped
  <2>2. \/ health.image = a.image /\ proven' = proven \cup {a.image}
             /\ health' = [health EXCEPT !.open = FALSE, !.ack = TRUE]
        \/ (\A h \in Helpers : helper[h] = "none") /\ health' = NoHealth /\ UNCHANGED proven
        \/ UNCHANGED <<health, proven>>
    BY <1>5 DEF ComeUp
  <2>3. health' \in [image : Pictures, open : BOOLEAN, ack : BOOLEAN]
    BY <1>1, <2>2, NoHealthIsTyped DEF ApplyTyped
  <2>a. ASSUME health' = [health EXCEPT !.open = FALSE, !.ack = TRUE]
        PROVE  health'.image = health.image
    BY <1>1, <2>a DEF ApplyTyped
  <2>4. Proofs' /\ proven \subseteq proven'
    BY <2>1, <2>2, <2>a, NoHealthIsTyped DEF ApplyInv, Proofs
  <2>5. health'.image = health.image \/ \A h \in Helpers : helper[h] = "none"
    BY <2>2, <2>a
  <2>6. ApplyTyped'
    BY <1>1, <1>2, <2>1, <2>3 DEF ApplyTyped, App
  <2>7. \A h \in Helpers : Files(h)'
    BY <1>2, <2>5 DEF ApplyInv, Files, Left
  <2> QED
    BY <1>2, <2>4, <2>6, <2>7 DEF ApplyInv, OneWorks, KeepsWorkingVersion, HandedOver, Decided
<1> QED
    BY <1>3, <1>4, <1>5 DEF AppStep

-----------------------------------------------------------------------------

LEMMA ApplyInvStep == ApplyInv /\ [ApplyNext]_applyVars => ApplyInv'
<1> SUFFICES ASSUME ApplyInv, [ApplyNext]_applyVars PROVE ApplyInv'
    OBVIOUS
<1>1. CASE UNCHANGED applyVars
    BY <1>1 DEF applyVars, ApplyInv, ApplyTyped, OneWorks, Proofs, Files, KeepsWorkingVersion,
                HandedOver, Decided, Left, Helpers, Early, Late
<1>2. ASSUME NEW h \in Helpers, HelperStep(h) \/ HelperDies(h)
      PROVE  ApplyInv'
    BY <1>2, LaunchStep, WorkStep, EndStep DEF HelperStep
<1> QED
    BY <1>1, <1>2, LauncherStep, DelegateStep, AppStepKeeps DEF ApplyNext

\* The invariant of the self-update: at most one helper works, each place has
\* its files, and only a helper that was killed or gave up leaves them so.
THEOREM ApplyInvariant == ApplySpec => []ApplyInv
<1> QED
    BY ApplyInitial, ApplyInvStep, PTL DEF ApplySpec

\* Whatever helper is killed or fails at whatever step of whatever update, and
\* whichever instances the user starts meanwhile, an executable that works is
\* installed or kept next to the installed one.
THEOREM WorkingVersionIsKept == ApplySpec => []KeepsWorkingVersion
<1>1. ApplyInv => KeepsWorkingVersion
    BY DEF ApplyInv
<1> QED
    BY <1>1, ApplyInvariant, PTL

\* An update whose helper was not killed and did not give up ends with the new
\* executable acknowledged or the old one restored, and without a backup.
THEOREM UpdatesAreDecided == ApplySpec => []UpdateIsDecided
<1>1. ApplyInv => UpdateIsDecided
    BY DEF ApplyInv, Decided, UpdateIsDecided
<1> QED
    BY <1>1, ApplyInvariant, PTL

================================================================================
