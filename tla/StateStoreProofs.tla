--------------------------- MODULE StateStoreProofs ---------------------------
(***************************************************************************)
(* An acknowledged update of the settings survives two faults -- damaged   *)
(* files, failed renames, dead processes -- for every number of processes, *)
(* threads and updates.                                                    *)
(***************************************************************************)
EXTENDS StateStore, TLAPS

Stages == {"idle", "open", "copy", "lock", "named", "load", "recover", "recovering",
           "write", "writing", "saved", "return"}
InStore == {"load", "recover", "recovering", "write", "writing", "saved", "return"}

Contents == [kind : {"missing", "damaged", "state"}, has : SUBSET Nat]
Calls == [at : Stages, update : Nat, copied : BOOLEAN, value : SUBSET Nat]

StoreTypes ==
    /\ files \in [{"primary", "backup", "corrupt"} -> Contents]
    /\ saving \in [Savers -> Calls]
    /\ storeMutex \in Savers \cup {Nobody}
    /\ updates \in Nat /\ faults \in Nat /\ faults <= MaxFaults
    /\ acked \in SUBSET Nat /\ latest \in Nat /\ overcopied \in BOOLEAN

\* Who works on the files has the named mutex, and an update to write.
Held ==
    \A t \in Savers :
        /\ saving[t].at \in InStore <=> storeMutex = t
        /\ saving[t].at \in {"write", "writing", "saved"} => saving[t].update # 0

Primary == files["primary"]
Backup == IF IsRead("backup") THEN files["backup"].has ELSE {}

\* What a thread relies on at each place, and what the next one finds if it
\* dies there.
At(t) ==
    /\ saving[t].at \in {"load", "return"} => acked \subseteq Recoverable
    /\ saving[t].at = "recover" => ~IsRead("primary")
    /\ saving[t].at = "recovering" => Primary.kind = "missing"
    /\ saving[t].at \in {"recover", "recovering"} =>
         IsRead("backup") /\ saving[t].value = Backup /\ acked \subseteq Backup
    /\ saving[t].at \in {"write", "writing"} => acked \subseteq saving[t].value
    /\ saving[t].at = "write" =>
         acked \subseteq Recoverable /\ (Primary.kind = "damaged" => faults >= 2)
    /\ saving[t].at = "writing" =>
         Primary.kind = "missing" /\ (acked \subseteq Backup \/ faults >= 2)
    /\ saving[t].at = "saved" =>
         IsRead("primary") /\ latest = saving[t].update /\ acked \cup {latest} \subseteq Primary.has

\* The files while nobody works on them, and what a damage costs.
Rest ==
    /\ storeMutex = Nobody => acked \subseteq Recoverable
    /\ IsRead("primary") => acked \ {latest} \subseteq Backup \/ faults >= 2
    /\ Primary.kind = "damaged" => faults >= 1
    /\ latest = 0 => acked = {}

StateInv ==
    /\ StoreTypes /\ Held
    /\ overcopied \/ (Rest /\ \A t \in Savers : At(t))

-----------------------------------------------------------------------------

LEMMA NoSaveIsACall == NoSave \in Calls
<1>1. "idle" \in Stages /\ FALSE \in BOOLEAN
    BY DEF Stages
<1>2. ASSUME NEW x \in Stages, NEW u \in Nat, NEW c \in BOOLEAN, NEW v \in SUBSET Nat
      PROVE  [at |-> x, update |-> u, copied |-> c, value |-> v] \in Calls
    BY DEF Calls
<1>3. {} \in SUBSET Nat
    OBVIOUS
<1> QED
    BY <1>1, <1>2, <1>3 DEF NoSave

LEMMA InitInv == StateInit => StateInv
<1> SUFFICES ASSUME StateInit PROVE StateInv
    OBVIOUS
<1>a. Missing \in Contents
    BY DEF Missing, Contents
<1>b. NoSave \in Calls
    BY NoSaveIsACall
<1>1. StoreTypes
  <2>1. files \in [{"primary", "backup", "corrupt"} -> Contents]
    BY <1>a DEF StateInit
  <2>2. saving \in [Savers -> Calls]
    BY <1>b DEF StateInit
  <2>3. 0 \in Nat /\ 0 <= MaxFaults /\ FALSE \in BOOLEAN /\ {} \in SUBSET Nat
    BY StateAssumption
  <2> QED
    BY <2>1, <2>2, <2>3 DEF StateInit, StoreTypes
<1>2. Held
    BY StateAssumption DEF StateInit, Held, NoSave, InStore
<1>3. Rest
    BY DEF StateInit, Rest, Primary, IsRead, Missing
<1>4. \A t \in Savers : At(t)
    BY DEF StateInit, At, NoSave
<1> QED
    BY <1>1, <1>2, <1>3, <1>4 DEF StateInv

\* Whoever has no business in the store relies on nothing.
LEMMA OutsideIsFree ==
    ASSUME NEW t \in Savers, saving[t].at \notin InStore
    PROVE  At(t)
    BY DEF At, InStore

\* A step of one thread that leaves the files alone and ends outside.
LEMMA StepOutside ==
    ASSUME StateInv, NEW t \in Savers, NEW r \in Calls,
           saving[t].at \notin InStore, r.at \notin InStore,
           saving' = [saving EXCEPT ![t] = r], updates' \in Nat,
           UNCHANGED <<files, storeMutex, faults, acked, latest, overcopied>>
    PROVE  StateInv'
<1>1. StoreTypes'
    BY DEF StateInv, StoreTypes
<1>2. \A u \in Savers : saving'[u] = saving[u] \/ (u = t /\ saving'[u] = r)
    BY DEF StateInv, StoreTypes
<1>3. Held'
    BY <1>2 DEF StateInv, Held, InStore
<1>4. Rest => Rest'
    BY DEF Rest, Recoverable, Backup, Primary, IsRead
<1>5. ASSUME NEW u \in Savers, At(u) PROVE At(u)'
    BY <1>2, <1>5 DEF At, InStore, Recoverable, Backup, Primary, IsRead
<1> QED
    BY <1>1, <1>3, <1>4, <1>5 DEF StateInv

\* A step of one thread inside, with what it must keep.
LEMMA StepInside ==
    ASSUME StateInv, NEW t \in Savers, NEW r \in Calls, storeMutex \in {t, Nobody},
           saving' = [saving EXCEPT ![t] = r],
           storeMutex' \in {t, Nobody}, r.at \in InStore <=> storeMutex' = t,
           r.at \in {"write", "writing", "saved"} => r.update # 0,
           StoreTypes',
           overcopied' = overcopied, ~overcopied => Rest' /\ At(t)'
    PROVE  StateInv'
<1>1. \A u \in Savers : u # t => saving'[u] = saving[u] /\ saving[u].at \notin InStore
    BY StateAssumption DEF StateInv, StoreTypes, Held
<1>2. saving'[t] = r
    BY DEF StateInv, StoreTypes
<1>3. Held'
    BY <1>1, <1>2, StateAssumption DEF StateInv, Held, InStore
<1>4. ASSUME NEW u \in Savers, u # t PROVE At(u)'
    BY <1>1, <1>4 DEF At, InStore
<1> QED
    BY <1>3, <1>4 DEF StateInv

\* The places before the store.
LEMMA BeforeKeepsInv ==
    ASSUME StateInv, NEW t \in Savers,
           BeginLoad(t) \/ BeginUpdate(t) \/ OpenDirectory(t) \/ LockDirectory(t)
    PROVE  StateInv'
<1>t. saving[t] \in Calls /\ updates \in Nat /\ updates + 1 \in Nat
    BY DEF StateInv, StoreTypes
<1>1. ASSUME NEW at \in {"open", "copy", "lock", "named"}, GoesTo(t, at),
             saving[t].at \in {"idle", "open", "lock"}, UNCHANGED updates,
             UNCHANGED <<files, storeMutex, faults, acked, latest, overcopied>>
      PROVE  StateInv'
  <2> DEFINE r == [saving[t] EXCEPT !.at = at]
  <2>1. r \in Calls /\ r.at \notin InStore
    BY <1>t, <1>1 DEF Calls, Stages, InStore
  <2>2. saving[t].at \notin InStore /\ updates' \in Nat
    BY <1>t, <1>1 DEF InStore
  <2>3. saving' = [saving EXCEPT ![t] = r]
    BY <1>1 DEF GoesTo, Saves
  <2> HIDE DEF r
  <2> QED
    BY <1>1, <2>1, <2>2, <2>3, StepOutside
<1>2. CASE BeginLoad(t)
    BY <1>1, <1>2 DEF BeginLoad
<1>3. CASE BeginUpdate(t)
  <2> DEFINE r == [saving[t] EXCEPT !.at = "open", !.update = updates']
  <2>1. r \in Calls /\ r.at \notin InStore /\ updates' \in Nat
    BY <1>t, <1>3 DEF BeginUpdate, Calls, Stages, InStore
  <2>2. saving[t].at \notin InStore
    BY <1>3 DEF BeginUpdate, InStore
  <2>3. /\ saving' = [saving EXCEPT ![t] = r]
        /\ UNCHANGED <<files, storeMutex, faults, acked, latest, overcopied>>
    BY <1>3 DEF BeginUpdate, Saves
  <2> HIDE DEF r
  <2> QED
    BY <2>1, <2>2, <2>3, StepOutside
<1>4. CASE OpenDirectory(t)
    BY <1>1, <1>4 DEF OpenDirectory
<1>5. CASE LockDirectory(t)
    BY <1>1, <1>5 DEF LockDirectory
<1> QED
    BY <1>2, <1>3, <1>4, <1>5

-----------------------------------------------------------------------------
(* The store. *)

LEMMA InsideHasTheMutex ==
    ASSUME StateInv, NEW t \in Savers, saving[t].at \in InStore
    PROVE  storeMutex = t /\ (overcopied \/ (At(t) /\ Rest))
<1>1. storeMutex = t
    BY DEF StateInv, Held
<1>2. overcopied \/ (At(t) /\ Rest)
    BY DEF StateInv
<1> QED
    BY <1>1, <1>2

\* Whoever returns from the store leaves what the next load finds.
LEMMA ReturnKeepsInv ==
    ASSUME StateInv, NEW t \in Savers, saving[t].at \in InStore, Return(t),
           UNCHANGED <<files, updates, latest, overcopied>>,
           faults' \in Nat, faults <= faults', faults' <= MaxFaults,
           acked' \in SUBSET Nat,
           ~overcopied =>
             /\ acked' \subseteq Recoverable
             /\ IsRead("primary") => acked' \ {latest} \subseteq Backup \/ faults' >= 2
             /\ latest = 0 => acked' = {}
    PROVE  StateInv'
<1>1. /\ saving' = [saving EXCEPT ![t] = NoSave]
      /\ storeMutex = t /\ storeMutex' = Nobody
    BY InsideHasTheMutex DEF Return, Saves
<1>2. NoSave \in Calls /\ NoSave.at = "idle"
    BY NoSaveIsACall DEF NoSave
<1>3. StoreTypes'
    BY <1>1, <1>2 DEF StateInv, StoreTypes
<1>4. ASSUME ~overcopied PROVE Rest' /\ At(t)'
  <2>1. Rest
    BY <1>4 DEF StateInv
  <2>2. faults \in Nat
    BY DEF StateInv, StoreTypes
  <2>3. Rest'
    BY <1>4, <2>1, <2>2 DEF Rest, Recoverable, Backup, Primary, IsRead
  <2>4. saving'[t].at = "idle"
    BY <1>1, <1>2 DEF StateInv, StoreTypes
  <2> QED
    BY <2>3, <2>4 DEF At
<1>5. NoSave.at \in InStore <=> storeMutex' = t
    BY <1>1, <1>2, StateAssumption DEF InStore
<1>6. ~(NoSave.at \in {"write", "writing", "saved"})
    BY <1>2
<1> QED
    BY <1>1, <1>2, <1>3, <1>4, <1>5, <1>6, StepInside

LEMMA LockStoreKeepsInv ==
    ASSUME StateInv, NEW t \in Savers, LockStore(t)
    PROVE  StateInv'
<1> DEFINE r == [saving[t] EXCEPT !.at = "load"]
<1>1. saving[t] \in Calls
    BY DEF StateInv, StoreTypes
<1>2. r \in Calls /\ r.at = "load"
    BY <1>1 DEF Calls, Stages
<1>3. /\ saving' = [saving EXCEPT ![t] = r] /\ storeMutex = Nobody /\ storeMutex' = t
      /\ UNCHANGED <<files, updates, faults, acked, latest, overcopied>>
    BY DEF LockStore, GoesTo, Saves
<1> HIDE DEF r
<1>4. StoreTypes'
    BY <1>2, <1>3 DEF StateInv, StoreTypes
<1>5. saving'[t] = r
    BY <1>3 DEF StateInv, StoreTypes
<1>6. ASSUME ~overcopied PROVE Rest' /\ At(t)'
  <2>1. Rest
    BY <1>6 DEF StateInv
  <2>2. Rest'
    BY <2>1, <1>3, StateAssumption DEF Rest, Recoverable, Backup, Primary, IsRead
  <2> QED
    BY <2>1, <2>2, <1>2, <1>3, <1>5 DEF Rest, At, Recoverable, IsRead
<1>7. r.at \in InStore <=> storeMutex' = t
    BY <1>2, <1>3 DEF InStore
<1> QED
    BY <1>2, <1>3, <1>4, <1>6, <1>7, StepInside

LEMMA FailSaveKeepsInv ==
    ASSUME StateInv, NEW t \in Savers, FailSave(t)
    PROVE  StateInv'
<1>1. CASE saving[t].at = "named"
  <2>1. /\ saving' = [saving EXCEPT ![t] = NoSave]
        /\ UNCHANGED <<files, updates, faults, acked, latest, overcopied>>
    BY DEF FailSave, Return, Saves
  <2>2. storeMutex' = storeMutex
    BY <1>1 DEF StateInv, Held, InStore, FailSave, Return
  <2>3. NoSave \in Calls /\ NoSave.at \notin InStore /\ saving[t].at \notin InStore
    BY <1>1, NoSaveIsACall DEF NoSave, InStore
  <2>4. updates' \in Nat
    BY <2>1 DEF StateInv, StoreTypes
  <2> QED
    BY <2>1, <2>2, <2>3, <2>4, StepOutside
<1>2. CASE saving[t].at \in {"load", "write"}
  <2>1. saving[t].at \in InStore
    BY <1>2 DEF InStore
  <2>2. ~overcopied => Rest /\ acked \subseteq Recoverable
    BY <2>1, <1>2, InsideHasTheMutex DEF At
  <2>3. faults \in Nat /\ faults <= MaxFaults /\ acked \in SUBSET Nat
    BY DEF StateInv, StoreTypes
  <2>4. Return(t) /\ UNCHANGED <<files, updates, faults, acked, latest, overcopied>>
    BY DEF FailSave
  <2> QED
    BY <2>1, <2>2, <2>3, <2>4, ReturnKeepsInv, StateAssumption DEF Rest
<1> QED
    BY <1>1, <1>2 DEF FailSave

\* A step that stays in the store: what is left to show of it.
LEMMA StayInside ==
    ASSUME StateInv, NEW t \in Savers, saving[t].at \in InStore,
           NEW r \in Calls, r.at \in InStore, r.update = saving[t].update,
           r.at \in {"write", "writing", "saved"} => r.update # 0,
           saving' = [saving EXCEPT ![t] = r],
           UNCHANGED <<storeMutex, updates, acked, overcopied>>,
           files' \in [{"primary", "backup", "corrupt"} -> Contents],
           faults' \in Nat, faults <= faults', faults' <= MaxFaults, latest' \in Nat,
           ~overcopied /\ Rest /\ At(t) /\ saving'[t] = r => Rest' /\ At(t)'
    PROVE  StateInv'
<1>1. StoreTypes'
    BY DEF StateInv, StoreTypes
<1>2. storeMutex = t /\ storeMutex' = t
    BY InsideHasTheMutex
<1>3. saving'[t] = r
    BY DEF StateInv, StoreTypes
<1>4. ~overcopied => Rest' /\ At(t)'
    BY <1>3, InsideHasTheMutex
<1> QED
    BY <1>1, <1>2, <1>4, StepInside

LEMMA Types ==
    ASSUME StateInv, NEW t \in Savers
    PROVE  /\ saving[t] \in Calls /\ saving[t].at \in Stages
           /\ saving[t].update \in Nat /\ saving[t].value \in SUBSET Nat
           /\ files \in [{"primary", "backup", "corrupt"} -> Contents]
           /\ Primary \in Contents /\ Primary.has \in SUBSET Nat
           /\ Primary.kind \in {"missing", "damaged", "state"}
           /\ files["backup"] \in Contents /\ Backup \in SUBSET Nat
           /\ faults \in Nat /\ faults <= MaxFaults /\ MaxFaults \in Nat
           /\ acked \in SUBSET Nat /\ latest \in Nat
<1>1. saving[t] \in Calls /\ files \in [{"primary", "backup", "corrupt"} -> Contents]
    BY DEF StateInv, StoreTypes
<1>2. /\ saving[t].at \in Stages
      /\ saving[t].update \in Nat /\ saving[t].value \in SUBSET Nat
    BY <1>1 DEF Calls
<1>3. Primary \in Contents /\ files["backup"] \in Contents
    BY <1>1 DEF Primary
<1>4. /\ Primary.has \in SUBSET Nat /\ Primary.kind \in {"missing", "damaged", "state"}
      /\ files["backup"].has \in SUBSET Nat
    BY <1>3 DEF Contents
<1>5. Backup \in SUBSET Nat
    BY <1>4 DEF Backup
<1> QED
    BY <1>1, <1>2, <1>3, <1>4, <1>5, StateAssumption DEF StateInv, StoreTypes

LEMMA LoadStateKeepsInv ==
    ASSUME StateInv, NEW t \in Savers, LoadState(t)
    PROVE  StateInv'
<1>1. /\ saving[t].at = "load" /\ saving[t].at \in InStore
      /\ UNCHANGED <<files, updates, faults, acked, latest, overcopied>>
    BY DEF LoadState, InStore
<1>2. AfterLoad(t) \in {"return", "write"} /\ (AfterLoad(t) = "write" => saving[t].update # 0)
    BY DEF AfterLoad
<1>3. ASSUME NEW v \in SUBSET Nat, NEW place \in {"return", "write", "recover"},
             Loaded(t, v, place), UNCHANGED storeMutex,
             place = "write" => saving[t].update # 0,
             ~overcopied =>
               /\ place = "recover" => ~IsRead("primary") /\ IsRead("backup") /\ v = Backup
               /\ place # "recover" => v = Recoverable /\ Primary.kind # "damaged"
      PROVE  StateInv'
  <2> DEFINE r == [saving[t] EXCEPT !.value = v, !.at = place]
  <2>1. place \in Stages /\ place \in InStore
    BY DEF Stages, InStore
  <2>c. saving[t] \in Calls
    BY Types
  <2>2. r \in Calls /\ r.at = place /\ r.update = saving[t].update /\ r.value = v
    <3> DEFINE c == saving[t]
    <3>1. c \in Calls
      BY <2>c
    <3> HIDE DEF c
    <3>2. [c EXCEPT !.value = v] \in Calls
      BY <3>1 DEF Calls
    <3>3. [c EXCEPT !.value = v, !.at = place] \in Calls
      BY <2>1, <3>2 DEF Calls
    <3>4. LET e == [c EXCEPT !.value = v, !.at = place]
          IN e.at = place /\ e.update = c.update /\ e.value = v
      BY <3>1 DEF Calls
    <3> QED
      BY <3>3, <3>4 DEF c
  <2>3. saving' = [saving EXCEPT ![t] = r]
    BY <1>3 DEF Loaded, Saves
  <2> HIDE DEF r
  <2>4. ASSUME ~overcopied, Rest, At(t), saving'[t] = r PROVE Rest' /\ At(t)'
    <3>1. acked \subseteq Recoverable
      BY <1>1, <2>4 DEF At
    <3>2. place = "recover" => acked \subseteq Backup
      BY <1>3, <2>4, <3>1 DEF Recoverable, Backup
    <3>3. Rest'
      BY <1>1, <1>3, <2>4 DEF Rest, Recoverable, Backup, Primary, IsRead
    <3>4. At(t)'
      BY <1>1, <1>3, <2>2, <2>4, <3>1, <3>2 DEF At, Recoverable, Backup, Primary, IsRead
    <3> QED
      BY <3>3, <3>4
  <2>5. /\ files' \in [{"primary", "backup", "corrupt"} -> Contents]
        /\ faults' \in Nat /\ faults <= faults' /\ faults' <= MaxFaults /\ latest' \in Nat
    BY <1>1, Types
  <2>6. r.at \in {"write", "writing", "saved"} => r.update # 0
    BY <1>3, <2>2
  <2> QED
    BY <1>1, <1>3, <2>1, <2>2, <2>3, <2>4, <2>5, <2>6, StayInside
<1>4. CASE IsRead("primary") /\ Loaded(t, files["primary"].has, AfterLoad(t)) /\ UNCHANGED storeMutex
    BY <1>2, <1>3, <1>4, Types DEF Primary, Recoverable, IsRead
<1>5. CASE /\ ~IsRead("primary") /\ IsRead("backup")
           /\ Loaded(t, files["backup"].has, "recover") /\ UNCHANGED storeMutex
    BY <1>3, <1>5, Types DEF Backup
<1>6. CASE LoadDefaults(t) /\ files["primary"].kind = "missing" /\ files["backup"].kind = "missing"
    BY <1>2, <1>3, <1>6 DEF LoadDefaults, Primary, Recoverable, IsRead
<1>7. CASE LoadDefaults(t) /\ Return(t)
  <2>1. ~overcopied => Rest /\ acked \subseteq Recoverable
    BY <1>1, InsideHasTheMutex DEF At
  <2> QED
    BY <1>1, <1>7, <2>1, Types, ReturnKeepsInv DEF Rest
<1> QED
    BY <1>4, <1>5, <1>6, <1>7 DEF LoadState, LoadDefaults

-----------------------------------------------------------------------------
(* The two renames of a replacement. *)

LEMMA CallAt ==
    ASSUME StateInv, NEW t \in Savers, NEW place \in Stages
    PROVE  /\ [saving[t] EXCEPT !.at = place] \in Calls
           /\ [saving[t] EXCEPT !.at = place].at = place
           /\ [saving[t] EXCEPT !.at = place].update = saving[t].update
           /\ [saving[t] EXCEPT !.at = place].value = saving[t].value
<1> DEFINE c == saving[t]
<1>1. c \in Calls
    BY Types
<1> HIDE DEF c
<1>2. /\ [c EXCEPT !.at = place] \in Calls
      /\ [c EXCEPT !.at = place].at = place
      /\ [c EXCEPT !.at = place].update = c.update
      /\ [c EXCEPT !.at = place].value = c.value
    BY <1>1 DEF Calls
<1> QED
    BY <1>2 DEF c

\* StayInside for the steps that only go to another place.
LEMMA GoInside ==
    ASSUME StateInv, NEW t \in Savers, saving[t].at \in InStore,
           NEW place \in InStore, GoesTo(t, place),
           place \in {"write", "writing", "saved"} => saving[t].update # 0,
           UNCHANGED <<storeMutex, updates, acked, overcopied>>,
           files' \in [{"primary", "backup", "corrupt"} -> Contents],
           faults' \in Nat, faults <= faults', faults' <= MaxFaults, latest' \in Nat,
           ~overcopied /\ Rest /\ At(t) /\ saving'[t] = [saving[t] EXCEPT !.at = place]
             => Rest' /\ At(t)'
    PROVE  StateInv'
<1> DEFINE r == [saving[t] EXCEPT !.at = place]
<1>1. place \in Stages
    BY DEF Stages, InStore
<1>2. /\ r \in Calls /\ r.at = place
      /\ r.update = saving[t].update /\ r.value = saving[t].value
    BY <1>1, CallAt
<1>3. saving' = [saving EXCEPT ![t] = r]
    BY DEF GoesTo, Saves
<1> HIDE DEF r
<1>4. ~overcopied /\ Rest /\ At(t) /\ saving'[t] = r => Rest' /\ At(t)'
    BY DEF r
<1>5. r.at \in {"write", "writing", "saved"} => r.update # 0
    BY <1>2
<1> QED
    BY <1>2, <1>3, <1>4, <1>5, StayInside

LEMMA RenameOldKeepsInv ==
    ASSUME StateInv, NEW t \in Savers, RenameOld(t)
    PROVE  StateInv'
<1>1. UNCHANGED <<storeMutex, updates, faults, acked, latest, overcopied>>
    BY DEF RenameOld
<1>2. /\ files \in [{"primary", "backup", "corrupt"} -> Contents] /\ Primary \in Contents
      /\ faults \in Nat /\ faults <= MaxFaults /\ latest \in Nat
    BY Types
<1>q. /\ faults' \in Nat /\ faults <= faults' /\ faults' <= MaxFaults /\ latest' \in Nat
      /\ UNCHANGED <<storeMutex, updates, acked, overcopied>>
    BY <1>1, <1>2
<1>3. Missing \in Contents /\ Missing.kind = "missing"
    BY DEF Missing, Contents
<1>4. storeMutex # Nobody
    BY InsideHasTheMutex, StateAssumption DEF RenameOld, InStore
<1>5. CASE saving[t].at = "recover"
  <2>1. files' = [files EXCEPT !["corrupt"] = Primary, !["primary"] = Missing]
    BY <1>5 DEF RenameOld, RecoveryLeaves, Primary
  <2>2. /\ files' \in [{"primary", "backup", "corrupt"} -> Contents]
        /\ files'["primary"] = Missing /\ files'["backup"] = files["backup"]
    BY <1>2, <1>3, <2>1
  <2>3. GoesTo(t, "recovering") /\ "recovering" \in InStore /\ saving[t].at \in InStore
    BY <1>5 DEF RenameOld, InStore
  <2>4. ASSUME Rest PROVE Rest'
    BY <1>1, <1>3, <1>4, <2>2, <2>4 DEF Rest, Primary, IsRead
  <2>5. ASSUME At(t), saving'[t].at = "recovering", saving'[t].value = saving[t].value
        PROVE  At(t)'
    BY <1>1, <1>3, <1>5, <2>2, <2>5 DEF At, Primary, Backup, IsRead
  <2>9. ~overcopied /\ Rest /\ At(t) /\ saving'[t] = [saving[t] EXCEPT !.at = "recovering"]
          => Rest' /\ At(t)'
    BY <2>4, <2>5, CallAt DEF Stages
  <2> QED
    BY <1>q, <2>2, <2>3, <2>9, GoInside
<1>6. CASE saving[t].at = "write"
  <2>1. files' = [files EXCEPT !["backup"] = Primary, !["primary"] = Missing]
    BY <1>6 DEF RenameOld, UpdateLeaves, Primary
  <2>2. /\ files' \in [{"primary", "backup", "corrupt"} -> Contents]
        /\ files'["primary"] = Missing /\ files'["backup"] = Primary
    BY <1>2, <1>3, <2>1
  <2>3. GoesTo(t, "writing") /\ "writing" \in InStore /\ saving[t].at \in InStore
    BY <1>6 DEF RenameOld, InStore
  <2>4. ASSUME Rest PROVE Rest'
    BY <1>1, <1>3, <1>4, <2>2, <2>4 DEF Rest, Primary, IsRead
  <2>5. Primary.kind \in {"damaged", "state"}
    BY <1>6, Types DEF RenameOld, Primary
  <2>6. ASSUME At(t), saving'[t].at = "writing", saving'[t].value = saving[t].value
        PROVE  At(t)'
    <3>1. acked \subseteq saving[t].value /\ acked \subseteq Recoverable
      BY <1>6, <2>6 DEF At
    <3>2. Primary.kind = "damaged" => faults >= 2
      BY <1>6, <2>6 DEF At
    <3>3. Primary.kind = "state" => Backup' = Recoverable
      BY <2>2 DEF Backup, Recoverable, IsRead, Primary
    <3>4. Primary'.kind = "missing"
      BY <1>3, <2>2 DEF Primary
    <3> QED
      BY <1>1, <2>5, <2>6, <3>1, <3>2, <3>3, <3>4 DEF At
  <2>7. saving[t].update # 0
    BY <1>6 DEF StateInv, Held
  <2>9. ~overcopied /\ Rest /\ At(t) /\ saving'[t] = [saving[t] EXCEPT !.at = "writing"]
          => Rest' /\ At(t)'
    BY <2>4, <2>6, CallAt DEF Stages
  <2> QED
    BY <1>q, <2>2, <2>3, <2>7, <2>9, GoInside
<1> QED
    BY <1>5, <1>6 DEF RenameOld

LEMMA AfterLoadIsInside ==
    ASSUME NEW t \in Savers
    PROVE  /\ AfterLoad(t) \in {"return", "write"} /\ AfterLoad(t) \in InStore
           /\ AfterLoad(t) = "write" => saving[t].update # 0
    BY DEF AfterLoad, InStore

LEMMA RenameNewKeepsInv ==
    ASSUME StateInv, NEW t \in Savers, RenameNew(t)
    PROVE  StateInv'
<1>1. /\ UNCHANGED <<storeMutex, updates, faults, acked, overcopied>>
      /\ files' = [files EXCEPT !["primary"] = Holding(Content(t))]
      /\ saving[t].at \in {"recover", "recovering", "write", "writing"}
    BY DEF RenameNew
<1>2. /\ files \in [{"primary", "backup", "corrupt"} -> Contents]
      /\ faults \in Nat /\ faults <= MaxFaults /\ latest \in Nat
      /\ saving[t].update \in Nat /\ saving[t].value \in SUBSET Nat
    BY Types
<1>3. Content(t) \in SUBSET Nat
    BY <1>2 DEF Content
<1>4. Holding(Content(t)) \in Contents
    BY <1>3 DEF Holding, Contents
<1>5. /\ files' \in [{"primary", "backup", "corrupt"} -> Contents]
      /\ Primary' = Holding(Content(t)) /\ files'["backup"] = files["backup"]
    BY <1>1, <1>2, <1>4 DEF Primary
<1>6. Primary'.kind = "state" /\ Primary'.has = Content(t) /\ Backup' = Backup
    BY <1>5 DEF Holding, Backup, IsRead
<1>7. storeMutex # Nobody /\ saving[t].at \in InStore
    BY <1>1, InsideHasTheMutex, StateAssumption DEF InStore
<1>8. faults' \in Nat /\ faults <= faults' /\ faults' <= MaxFaults
    BY <1>1, <1>2
<1>9. CASE saving[t].at \in {"recover", "recovering"}
  <2>1. GoesTo(t, AfterLoad(t)) /\ latest' = latest
    BY <1>9 DEF RenameNew
  <2>2. Content(t) = saving[t].value
    BY <1>9 DEF Content
  <2>3. ASSUME ~overcopied, Rest, At(t),
               saving'[t] = [saving[t] EXCEPT !.at = AfterLoad(t)]
        PROVE  Rest' /\ At(t)'
    <3>1. Content(t) = Backup /\ acked \subseteq Backup
      BY <1>9, <2>2, <2>3 DEF At
    <3>2. Rest'
      BY <1>1, <1>6, <1>7, <2>1, <2>3, <3>1 DEF Rest, IsRead, Primary
    <3>3. saving'[t].at = AfterLoad(t) /\ saving'[t].value = saving[t].value
      BY <2>3, CallAt, AfterLoadIsInside DEF Stages, InStore
    <3>4. Recoverable' = Content(t)
      BY <1>6 DEF Recoverable, IsRead, Primary
    <3>5. At(t)'
      BY <1>1, <1>6, <2>2, <3>1, <3>3, <3>4, AfterLoadIsInside DEF At
    <3> QED
      BY <3>2, <3>5
  <2> QED
    BY <1>1, <1>2, <1>5, <1>7, <1>8, <2>1, <2>3, AfterLoadIsInside, GoInside
<1>10. CASE saving[t].at \in {"write", "writing"}
  <2>1. GoesTo(t, "saved") /\ latest' = saving[t].update /\ "saved" \in InStore
    BY <1>10 DEF RenameNew, InStore
  <2>2. Content(t) = saving[t].value \cup {saving[t].update}
    BY <1>10 DEF Content
  <2>3. saving[t].update # 0
    BY <1>10 DEF StateInv, Held
  <2>4. ASSUME ~overcopied, Rest, At(t), saving'[t] = [saving[t] EXCEPT !.at = "saved"]
        PROVE  Rest' /\ At(t)'
    <3>1. acked \subseteq Content(t)
      BY <1>10, <2>2, <2>4 DEF At
    <3>2. acked \subseteq Backup \/ faults >= 2
      <4>1. CASE saving[t].at = "writing"
        BY <4>1, <2>4 DEF At
      <4>2. CASE saving[t].at = "write"
        <5>1. Primary.kind = "missing"
          BY <4>2 DEF RenameNew, Primary
        <5>2. Recoverable = Backup
          BY <5>1 DEF Recoverable, Backup, IsRead, Primary
        <5> QED
          BY <4>2, <2>4, <5>2 DEF At
      <4> QED
        BY <4>1, <4>2, <1>10
    <3>3. acked \ {latest'} \subseteq Backup' \/ faults' >= 2
      BY <1>1, <1>6, <3>2
    <3>4. Rest'
      BY <1>1, <1>6, <1>7, <2>1, <2>3, <3>3 DEF Rest
    <3>5. saving'[t].at = "saved" /\ saving'[t].update = saving[t].update
      BY <2>4, CallAt DEF Stages
    <3>6. acked' \cup {latest'} \subseteq Primary'.has
      BY <1>1, <1>6, <2>1, <2>2, <3>1
    <3>7. At(t)'
      BY <1>6, <2>1, <3>5, <3>6 DEF At, IsRead, Primary
    <3> QED
      BY <3>4, <3>7
  <2>5. latest' \in Nat
    BY <1>2, <2>1
  <2> QED
    BY <1>1, <1>5, <1>7, <1>8, <2>1, <2>3, <2>4, <2>5, GoInside
<1> QED
    BY <1>1, <1>9, <1>10

\* A failed rename is a fault; the second one is the last.
LEMMA RenameFailsKeepsInv ==
    ASSUME StateInv, MaxFaults <= 2, NEW t \in Savers, RenameFails(t)
    PROVE  StateInv'
<1>1. /\ UNCHANGED <<files, updates, acked, latest, overcopied>>
      /\ faults' = faults + 1 /\ faults < MaxFaults
      /\ saving[t].at \in {"recover", "recovering", "write", "writing"}
    BY DEF RenameFails
<1>2. /\ files \in [{"primary", "backup", "corrupt"} -> Contents]
      /\ faults \in Nat /\ MaxFaults \in Nat /\ latest \in Nat /\ acked \in SUBSET Nat
      /\ Primary.kind \in {"missing", "damaged", "state"}
    BY Types
<1>3. /\ faults' \in Nat /\ faults <= faults' /\ faults' <= MaxFaults
      /\ ~(faults >= 2) /\ (faults >= 1 => faults' >= 2)
    BY <1>1, <1>2
<1>4. storeMutex # Nobody /\ saving[t].at \in InStore
    BY <1>1, InsideHasTheMutex, StateAssumption DEF InStore
<1>5. CASE saving[t].at \in {"recover", "recovering"}
  <2>1. GoesTo(t, AfterLoad(t)) /\ UNCHANGED storeMutex
    BY <1>5 DEF RenameFails
  <2>2. ASSUME ~overcopied, Rest, At(t),
               saving'[t] = [saving[t] EXCEPT !.at = AfterLoad(t)]
        PROVE  Rest' /\ At(t)'
    <3>1. /\ saving[t].value = Backup /\ acked \subseteq Backup
          /\ ~IsRead("primary")
      BY <1>5, <2>2 DEF At, IsRead, Primary
    <3>2. Recoverable = Backup
      BY <3>1 DEF Recoverable, Backup
    <3>3. Rest'
      BY <1>1, <1>2, <1>3, <1>4, <2>1, <2>2, <3>1 DEF Rest, IsRead, Primary
    <3>4. saving'[t].at = AfterLoad(t) /\ saving'[t].value = saving[t].value
      BY <2>2, CallAt, AfterLoadIsInside DEF Stages, InStore
    <3>5. Recoverable' = Recoverable /\ Primary' = Primary
      BY <1>1 DEF Recoverable, IsRead, Primary
    <3>6. Primary'.kind = "damaged" => faults' >= 2
      BY <1>3, <2>2, <3>5 DEF Rest
    <3>7. At(t)'
      BY <1>1, <3>1, <3>2, <3>4, <3>5, <3>6, AfterLoadIsInside DEF At
    <3> QED
      BY <3>3, <3>7
  <2> QED
    BY <1>1, <1>2, <1>3, <1>4, <2>1, <2>2, AfterLoadIsInside, GoInside
<1>6. CASE saving[t].at \in {"write", "writing"}
  <2>1. Return(t)
    BY <1>6 DEF RenameFails
  <2>2. ASSUME ~overcopied
        PROVE  /\ acked' \subseteq Recoverable
               /\ IsRead("primary") => acked' \ {latest} \subseteq Backup \/ faults' >= 2
               /\ latest = 0 => acked' = {}
    <3>1. Rest /\ At(t)
      BY <1>4, <2>2, InsideHasTheMutex
    <3>2. acked \subseteq Recoverable
      <4>1. CASE saving[t].at = "write"
        BY <3>1, <4>1 DEF At
      <4>2. CASE saving[t].at = "writing"
        <5>1. Primary.kind = "missing" /\ acked \subseteq Backup
          BY <1>3, <3>1, <4>2 DEF At
        <5> QED
          BY <5>1 DEF Recoverable, Backup, IsRead, Primary
      <4> QED
        BY <1>6, <4>1, <4>2
    <3> QED
      BY <1>1, <1>3, <3>1, <3>2 DEF Rest
  <2>3. acked' \in SUBSET Nat
    BY <1>1, <1>2
  <2> QED
    BY <1>1, <1>3, <1>4, <2>1, <2>2, <2>3, ReturnKeepsInv
<1> QED
    BY <1>1, <1>5, <1>6

LEMMA ReturnsKeepInv ==
    ASSUME StateInv, NEW t \in Savers, ReturnLoaded(t) \/ ReturnSaved(t)
    PROVE  StateInv'
<1>1. /\ UNCHANGED <<files, updates, faults, latest, overcopied>> /\ Return(t)
      /\ saving[t].at \in {"return", "saved"} /\ saving[t].at \in InStore
    BY DEF ReturnLoaded, ReturnSaved, InStore
<1>2. /\ faults \in Nat /\ faults <= MaxFaults /\ MaxFaults \in Nat
      /\ acked \in SUBSET Nat /\ saving[t].update \in Nat
    BY Types
<1>3. faults' \in Nat /\ faults <= faults' /\ faults' <= MaxFaults
    BY <1>1, <1>2
<1>4. CASE ReturnLoaded(t)
  <2>1. acked' = acked /\ saving[t].at = "return"
    BY <1>4 DEF ReturnLoaded
  <2>2. ~overcopied => Rest /\ acked \subseteq Recoverable
    BY <1>1, <2>1, InsideHasTheMutex DEF At
  <2> QED
    BY <1>1, <1>2, <1>3, <2>1, <2>2, ReturnKeepsInv DEF Rest
<1>5. CASE ReturnSaved(t)
  <2>1. acked' \subseteq acked \cup {saving[t].update} /\ saving[t].at = "saved"
    BY <1>5 DEF ReturnSaved
  <2>2. acked' \in SUBSET Nat
    BY <1>2, <2>1
  <2>3. saving[t].update # 0
    BY <2>1 DEF StateInv, Held
  <2>4. ASSUME ~overcopied
        PROVE  /\ acked' \subseteq Recoverable
               /\ IsRead("primary") => acked' \ {latest} \subseteq Backup \/ faults' >= 2
               /\ latest = 0 => acked' = {}
    <3>1. Rest /\ At(t)
      BY <1>1, <2>4, InsideHasTheMutex
    <3>2. /\ IsRead("primary") /\ latest = saving[t].update
          /\ acked \cup {latest} \subseteq Primary.has
      BY <2>1, <3>1 DEF At
    <3>3. acked' \subseteq Recoverable
      BY <2>1, <3>2 DEF Recoverable, Primary
    <3>4. acked' \ {latest} \subseteq acked \ {latest} /\ latest # 0
      BY <2>1, <2>3, <3>2
    <3> QED
      BY <1>1, <3>1, <3>3, <3>4 DEF Rest
  <2> QED
    BY <1>1, <1>3, <2>2, <2>4, ReturnKeepsInv
<1> QED
    BY <1>4, <1>5

-----------------------------------------------------------------------------
(* The copy of the older directory, and the faults. *)

LEMMA CopyLegacyFileKeepsInv ==
    ASSUME StateInv, NEW t \in Savers, CopyLegacyFile(t)
    PROVE  StateInv'
<1> DEFINE place == IF saving[t].copied THEN "lock" ELSE "copy"
           r == [saving[t] EXCEPT !.copied = TRUE, !.at = place]
<1>1. /\ UNCHANGED <<storeMutex, updates, faults, acked, latest>>
      /\ saving' = [saving EXCEPT ![t] = r] /\ saving[t].at = "copy"
      /\ overcopied' = (overcopied \/ latest # 0 \/ storeMutex # Nobody)
    BY DEF CopyLegacyFile, Saves
<1>2. \E name \in {"primary", "backup"} : files' = [files EXCEPT ![name] = Holding({})]
    BY DEF CopyLegacyFile
<1>3. /\ saving[t] \in Calls /\ files \in [{"primary", "backup", "corrupt"} -> Contents]
      /\ faults \in Nat
    BY Types
<1>4. Holding({}) \in Contents /\ Holding({}).kind = "state"
    BY DEF Holding, Contents
<1>5. place \in Stages /\ place \notin InStore /\ place \notin {"write", "writing", "saved"}
    BY DEF Stages, InStore
<1>6. r \in Calls /\ r.at = place
  <2> DEFINE c == saving[t]
  <2> HIDE DEF c, place
  <2>1. c \in Calls
    BY <1>3 DEF c
  <2>2. /\ [c EXCEPT !.copied = TRUE, !.at = place] \in Calls
        /\ [c EXCEPT !.copied = TRUE, !.at = place].at = place
    BY <1>5, <2>1 DEF Calls
  <2> QED
    BY <2>2 DEF c
<1> HIDE DEF r, place
<1>7. /\ files' \in [{"primary", "backup", "corrupt"} -> Contents]
      /\ files'["primary"] = files["primary"] \/ files'["primary"] = Holding({})
    BY <1>2, <1>3, <1>4
<1>8. \A u \in Savers : u # t => saving'[u] = saving[u]
    BY <1>1
<1>9. saving'[t] = r
    BY <1>1 DEF StateInv, StoreTypes
<1>10. StoreTypes'
    BY <1>1, <1>6, <1>7 DEF StateInv, StoreTypes
<1>11. saving[t].at \notin InStore
    BY <1>1 DEF InStore
<1>12. Held'
    BY <1>1, <1>5, <1>6, <1>8, <1>9, <1>11 DEF StateInv, Held
<1>13. ASSUME ~overcopied' PROVE Rest' /\ \A u \in Savers : At(u)'
  <2>1. ~overcopied /\ latest = 0 /\ storeMutex = Nobody
    BY <1>1, <1>13
  <2>2. acked = {} /\ (Primary.kind = "damaged" => faults >= 1)
    BY <2>1 DEF StateInv, Rest
  <2>3. Primary'.kind = "damaged" => Primary.kind = "damaged"
    BY <1>4, <1>7 DEF Primary
  <2>4. Rest'
    BY <1>1, <2>1, <2>2, <2>3 DEF Rest
  <2>5. \A u \in Savers : saving'[u].at \notin InStore
    BY <1>1, <1>10, <1>12, <2>1, StateAssumption DEF Held
  <2> QED
    BY <2>4, <2>5 DEF At, InStore
<1> QED
    BY <1>10, <1>12, <1>13 DEF StateInv

\* Wherever the holder stops, the next load finds the acknowledged updates.
LEMMA NothingIsLost ==
    ASSUME StateInv, ~overcopied, faults < 2
    PROVE  acked \subseteq Recoverable
<1>1. Rest /\ faults \in Nat /\ storeMutex \in Savers \cup {Nobody}
    BY DEF StateInv, StoreTypes
<1>2. CASE storeMutex = Nobody
    BY <1>1, <1>2 DEF Rest
<1>3. ASSUME NEW t \in Savers, storeMutex = t PROVE acked \subseteq Recoverable
  <2>1. At(t) /\ saving[t].at \in InStore
    BY <1>3 DEF StateInv, Held
  <2>2. CASE saving[t].at \in {"load", "return", "write"}
    BY <2>1, <2>2 DEF At
  <2>3. CASE saving[t].at \in {"recover", "recovering"}
    <3>1. ~IsRead("primary") /\ acked \subseteq Backup
      BY <2>1, <2>3 DEF At, IsRead, Primary
    <3> QED
      BY <3>1 DEF Recoverable, Backup
  <2>4. CASE saving[t].at = "writing"
    <3>1. Primary.kind = "missing" /\ acked \subseteq Backup
      BY <1>1, <2>1, <2>4 DEF At
    <3> QED
      BY <3>1 DEF Recoverable, Backup, IsRead, Primary
  <2>5. CASE saving[t].at = "saved"
    BY <2>1, <2>5 DEF At, Recoverable, Primary
  <2> QED
    BY <2>1, <2>2, <2>3, <2>4, <2>5 DEF InStore
<1> QED
    BY <1>1, <1>2, <1>3

LEMMA SaverDiesKeepsInv ==
    ASSUME StateInv, MaxFaults <= 2, NEW p \in SaverProcesses, SaverDies(p)
    PROVE  StateInv'
<1>1. /\ UNCHANGED <<files, updates, acked, latest, overcopied>>
      /\ faults' = faults + 1 /\ faults < MaxFaults
      /\ saving' = [t \in Savers |-> IF SaverHome[t] = p THEN NoSave ELSE saving[t]]
      /\ storeMutex' = IF storeMutex # Nobody /\ SaverHome[storeMutex] = p
                       THEN Nobody ELSE storeMutex
    BY DEF SaverDies
<1>2. /\ faults \in Nat /\ saving \in [Savers -> Calls] /\ MaxFaults \in Nat
      /\ storeMutex \in Savers \cup {Nobody}
    BY StateAssumption DEF StateInv, StoreTypes
<1>3. faults < 2 /\ faults' \in Nat /\ faults' <= MaxFaults /\ faults <= faults'
    BY <1>1, <1>2
<1>4. NoSave \in Calls /\ NoSave.at = "idle"
    BY NoSaveIsACall DEF NoSave
<1>5. StoreTypes'
  <2>1. saving' \in [Savers -> Calls]
    BY <1>1, <1>2, <1>4
  <2>2. storeMutex' \in Savers \cup {Nobody}
    BY <1>1, <1>2
  <2> QED
    BY <1>1, <1>3, <2>1, <2>2 DEF StateInv, StoreTypes
<1>6. \A t \in Savers : \/ saving'[t] = NoSave /\ SaverHome[t] = p
                        \/ saving'[t] = saving[t] /\ SaverHome[t] # p
    BY <1>1
<1>7. Held'
  <2> SUFFICES ASSUME NEW t \in Savers
               PROVE  /\ saving'[t].at \in InStore <=> storeMutex' = t
                      /\ saving'[t].at \in {"write", "writing", "saved"} => saving'[t].update # 0
    BY DEF Held
  <2>1. /\ saving[t].at \in InStore <=> storeMutex = t
        /\ saving[t].at \in {"write", "writing", "saved"} => saving[t].update # 0
    BY DEF StateInv, Held
  <2>2. t # Nobody
    BY StateAssumption
  <2>3. CASE saving'[t] = NoSave /\ SaverHome[t] = p
    BY <1>1, <1>4, <2>2, <2>3 DEF InStore
  <2>4. CASE saving'[t] = saving[t] /\ SaverHome[t] # p
    BY <1>1, <2>1, <2>2, <2>4
  <2> QED
    BY <1>6, <2>3, <2>4
<1>8. ASSUME ~overcopied' PROVE Rest' /\ \A t \in Savers : At(t)'
  <2>1. ~overcopied /\ Rest
    BY <1>1, <1>8 DEF StateInv
  <2>2. acked \subseteq Recoverable
    BY <1>3, <2>1, NothingIsLost
  <2>3. /\ Recoverable' = Recoverable /\ Primary' = Primary /\ Backup' = Backup
        /\ IsRead("primary")' = IsRead("primary") /\ IsRead("backup")' = IsRead("backup")
    BY <1>1 DEF Recoverable, Primary, Backup, IsRead
  <2>4. (faults >= 2 => faults' >= 2) /\ (faults >= 1 => faults' >= 1)
    BY <1>1, <1>2
  <2>5. Rest'
    BY <1>1, <2>1, <2>2, <2>3, <2>4 DEF Rest
  <2>6. ASSUME NEW t \in Savers PROVE At(t)'
    <3>1. CASE saving'[t] = NoSave
      BY <1>4, <3>1 DEF At
    <3>2. CASE saving'[t] = saving[t]
      <4>1. At(t)
        BY <2>1 DEF StateInv
      <4> QED
        BY <1>1, <2>3, <2>4, <3>2, <4>1 DEF At
    <3> QED
      BY <1>6, <3>1, <3>2
  <2> QED
    BY <2>5, <2>6
<1> QED
    BY <1>5, <1>7, <1>8 DEF StateInv

LEMMA FileIsDamagedKeepsInv ==
    ASSUME StateInv, MaxFaults <= 2, FileIsDamaged
    PROVE  StateInv'
<1>1. /\ UNCHANGED <<storeMutex, saving, updates, latest, overcopied>>
      /\ faults' = faults + 1 /\ faults < MaxFaults /\ acked' = acked \ {latest}
      /\ files' = [files EXCEPT !["primary"] = Damaged]
      /\ storeMutex = Nobody /\ IsRead("primary")
    BY DEF FileIsDamaged
<1>2. /\ files \in [{"primary", "backup", "corrupt"} -> Contents]
      /\ faults \in Nat /\ MaxFaults \in Nat /\ acked \in SUBSET Nat
    BY StateAssumption DEF StateInv, StoreTypes
<1>3. /\ ~(faults >= 2) /\ faults' \in Nat /\ faults' <= MaxFaults /\ faults' >= 1
    BY <1>1, <1>2
<1>4. Damaged \in Contents /\ Damaged.kind = "damaged"
    BY DEF Damaged, Contents
<1>5. /\ files' \in [{"primary", "backup", "corrupt"} -> Contents]
      /\ files'["primary"] = Damaged /\ files'["backup"] = files["backup"]
    BY <1>1, <1>2, <1>4
<1>6. StoreTypes'
    BY <1>1, <1>2, <1>3, <1>5 DEF StateInv, StoreTypes
<1>7. Held'
    BY <1>1 DEF StateInv, Held
<1>8. ASSUME ~overcopied' PROVE Rest' /\ \A t \in Savers : At(t)'
  <2>1. ~overcopied /\ Rest
    BY <1>1, <1>8 DEF StateInv
  <2>2. acked' \subseteq Backup /\ (latest = 0 => acked = {})
    BY <1>1, <1>3, <2>1 DEF Rest
  <2>3. ~IsRead("primary")' /\ Backup' = Backup
    BY <1>4, <1>5 DEF IsRead, Backup
  <2>4. Recoverable' = Backup
    BY <2>3 DEF Recoverable, Backup
  <2>5. Rest'
    BY <1>1, <1>3, <2>2, <2>3, <2>4 DEF Rest
  <2>6. \A t \in Savers : saving'[t].at \notin InStore
    BY <1>1, StateAssumption DEF StateInv, Held
  <2> QED
    BY <2>5, <2>6 DEF At, InStore
<1> QED
    BY <1>6, <1>7, <1>8 DEF StateInv

-----------------------------------------------------------------------------
(* The theorems. *)

LEMMA StutterKeepsInv == StateInv /\ UNCHANGED stateVars => StateInv'
<1> SUFFICES ASSUME StateInv, UNCHANGED stateVars PROVE StateInv'
    OBVIOUS
<1>1. UNCHANGED <<files, storeMutex, saving, updates, faults, acked, latest, overcopied>>
    BY DEF stateVars
<1>2. StoreTypes' /\ Held'
    BY <1>1 DEF StateInv, StoreTypes, Held
<1>3. Rest => Rest'
    BY <1>1 DEF Rest, Recoverable, Backup, Primary, IsRead
<1>4. ASSUME NEW t \in Savers, At(t) PROVE At(t)'
    BY <1>1, <1>4 DEF At, Recoverable, Backup, Primary, IsRead
<1> QED
    BY <1>1, <1>2, <1>3, <1>4 DEF StateInv

LEMMA StepKeepsInv ==
    ASSUME StateInv, MaxFaults <= 2, [StateNext]_stateVars
    PROVE  StateInv'
<1>1. ASSUME NEW t \in Savers,
             BeginLoad(t) \/ BeginUpdate(t) \/ OpenDirectory(t) \/ LockDirectory(t)
      PROVE  StateInv'
    BY <1>1, BeforeKeepsInv
<1>2. ASSUME NEW t \in Savers, CopyLegacyFile(t) PROVE StateInv'
    BY <1>2, CopyLegacyFileKeepsInv
<1>3. ASSUME NEW t \in Savers, LockStore(t) \/ FailSave(t) \/ LoadState(t) PROVE StateInv'
    BY <1>3, LockStoreKeepsInv, FailSaveKeepsInv, LoadStateKeepsInv
<1>4. ASSUME NEW t \in Savers, RenameOld(t) \/ RenameNew(t) \/ RenameFails(t) PROVE StateInv'
    BY <1>4, RenameOldKeepsInv, RenameNewKeepsInv, RenameFailsKeepsInv
<1>5. ASSUME NEW t \in Savers, ReturnLoaded(t) \/ ReturnSaved(t) PROVE StateInv'
    BY <1>5, ReturnsKeepInv
<1>6. ASSUME NEW p \in SaverProcesses, SaverDies(p) PROVE StateInv'
    BY <1>6, SaverDiesKeepsInv
<1>7. CASE FileIsDamaged
    BY <1>7, FileIsDamagedKeepsInv
<1>8. CASE UNCHANGED stateVars
    BY <1>8, StutterKeepsInv
<1> QED
    BY <1>1, <1>2, <1>3, <1>4, <1>5, <1>6, <1>7, <1>8 DEF StateNext

\* While two faults may occur, whoever works on the files holds the named mutex
\* and can stop anywhere: file, backup and what it has loaded together keep
\* every acknowledged update (state_store.go Update, recovery and replacement).
THEOREM StateInvariant ==
    ASSUME MaxFaults <= 2
    PROVE  StateSpec => []StateInv
<1>1. StateInit => StateInv
    BY InitInv
<1>2. StateInv /\ [StateNext]_stateVars => StateInv'
    BY StepKeepsInv
<1> QED
    BY <1>1, <1>2, PTL DEF StateSpec

\* An update that returned without an error is found by the next load, for any
\* number of processes, threads and updates and up to two faults: damage, a
\* failed rename or a death at any point of a save or a recovery.
THEOREM AcknowledgedAlwaysSurvives ==
    ASSUME MaxFaults <= 2
    PROVE  StateSpec => []AcknowledgedSurvives
<1>1. StateInv => AcknowledgedSurvives
    BY DEF StateInv, Rest, AcknowledgedSurvives
<1>2. StateSpec => []StateInv
    BY StateInvariant
<1> QED
    BY <1>1, <1>2, PTL
===============================================================================
