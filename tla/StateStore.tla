------------------------------ MODULE StateStore ------------------------------
(***************************************************************************)
(* The settings of PatchBoard on disk: state.json, which every process of  *)
(* the user loads and updates under a mutex of its own and a named one,    *)
(* the backup each replacement leaves, and the copy of the directory an    *)
(* older version used.  What a file holds is the set of updates in it.     *)
(***************************************************************************)
EXTENDS Naturals

CONSTANTS
    Savers,      \* the threads that load or update
    SaverHome,   \* thread -> its process
    MaxUpdates,  \* bound on the updates
    MaxFaults,   \* bound on damaged files, failed renames and dead processes
    Nobody

ASSUME StateAssumption ==
    /\ MaxUpdates \in Nat /\ MaxFaults \in Nat
    /\ DOMAIN SaverHome = Savers /\ Nobody \notin Savers

VARIABLES
    legacy,      \* the directory of the older version is still there
    files,       \* name -> what the file holds
    dirLock,     \* process -> the thread in stateDirectoryMutex
    storeMutex,  \* the thread that owns the named mutex
    saving,      \* thread -> its call
    updates,     \* updates begun so far
    faults,      \* faults so far
    acked,       \* history: updates that returned without an error
    latest,      \* history: the last update that replaced the file
    overcopied   \* history: a copy ran when the store was already in use

stateVars == <<legacy, files, dirLock, storeMutex, saving, updates, faults,
               acked, latest, overcopied>>

Missing == [kind |-> "missing", has |-> {}]
Damaged == [kind |-> "damaged", has |-> {}]
Holding(s) == [kind |-> "state", has |-> s]

IsRead(name) == files[name].kind = "state"

\* The names a replacement leaves the old file under.
UpdateLeaves == "backup"
RecoveryLeavesBackup == "backup"
RecoveryLeaves == "corrupt"

SaverProcesses == {SaverHome[t] : t \in Savers}

NoSave == [at |-> "idle", update |-> 0, copied |-> FALSE, value |-> {}]

StateInit ==
    /\ legacy \in BOOLEAN
    /\ files = [name \in {"primary", "backup", "corrupt"} |-> Missing]
    /\ dirLock = [p \in SaverProcesses |-> Nobody]
    /\ storeMutex = Nobody
    /\ saving = [t \in Savers |-> NoSave]
    /\ updates = 0 /\ faults = 0
    /\ acked = {} /\ latest = 0 /\ overcopied = FALSE

Saves(t, r) == saving' = [saving EXCEPT ![t] = r]
GoesTo(t, at) == Saves(t, [saving[t] EXCEPT !.at = at])
Free(t) == dirLock[SaverHome[t]] = Nobody
Enter(t) == dirLock' = [dirLock EXCEPT ![SaverHome[t]] = t]
Leave(t) == dirLock' = [dirLock EXCEPT ![SaverHome[t]] = Nobody]

-----------------------------------------------------------------------------
(* Opening the store: the directory, with the copy of the older one. *)

BeginLoad(t) ==
    /\ saving[t].at = "idle"
    /\ GoesTo(t, "open")
    /\ UNCHANGED <<legacy, files, dirLock, storeMutex, updates, faults, acked, latest, overcopied>>

BeginUpdate(t) ==
    /\ saving[t].at = "idle" /\ updates < MaxUpdates
    /\ updates' = updates + 1
    /\ Saves(t, [saving[t] EXCEPT !.at = "open", !.update = updates'])
    /\ UNCHANGED <<legacy, files, dirLock, storeMutex, faults, acked, latest, overcopied>>

\* Only a missing state.json counts as a directory without a state.
MustCopy == legacy /\ files["primary"].kind = "missing"

OpenDirectory(t) ==
    /\ saving[t].at = "open" /\ Free(t)
    /\ IF MustCopy THEN Enter(t) /\ GoesTo(t, "copy")
                   ELSE UNCHANGED dirLock /\ GoesTo(t, "lock")
    /\ UNCHANGED <<legacy, files, storeMutex, updates, faults, acked, latest, overcopied>>

\* The older state.json first, then its backup; the named mutex is not taken.
CopyLegacyFile(t) ==
    /\ saving[t].at = "copy"
    /\ files' = [files EXCEPT ![IF saving[t].copied THEN "backup" ELSE "primary"] = Holding({})]
    /\ overcopied' = (overcopied \/ latest # 0 \/ storeMutex # Nobody)
    /\ Saves(t, [saving[t] EXCEPT !.copied = TRUE,
                                  !.at = IF saving[t].copied THEN "lock" ELSE "copy"])
    /\ IF saving[t].copied THEN Leave(t) ELSE UNCHANGED dirLock
    /\ UNCHANGED <<legacy, storeMutex, updates, faults, acked, latest>>

-----------------------------------------------------------------------------
(* Load and Update under both locks. *)

LockDirectory(t) ==
    /\ saving[t].at = "lock" /\ Free(t)
    /\ Enter(t)
    /\ GoesTo(t, "named")
    /\ UNCHANGED <<legacy, files, storeMutex, updates, faults, acked, latest, overcopied>>

\* An abandoned mutex is acquired like a free one.
LockStore(t) ==
    /\ saving[t].at = "named" /\ storeMutex = Nobody
    /\ storeMutex' = t
    /\ GoesTo(t, "load")
    /\ UNCHANGED <<legacy, files, dirLock, updates, faults, acked, latest, overcopied>>

Return(t) ==
    /\ Saves(t, NoSave)
    /\ Leave(t)
    /\ storeMutex' = IF storeMutex = t THEN Nobody ELSE storeMutex

\* The context is done, or the new file cannot be written next to the old one.
FailSave(t) ==
    /\ saving[t].at \in {"named", "load", "write"}
    /\ Return(t)
    /\ UNCHANGED <<legacy, files, updates, faults, acked, latest, overcopied>>

AfterLoad(t) == IF saving[t].update = 0 THEN "return" ELSE "write"

Loaded(t, value, at) == Saves(t, [saving[t] EXCEPT !.value = value, !.at = at])

\* Neither file is there, or neither can be read: the latter is an error.
LoadDefaults(t) ==
    /\ ~IsRead("primary") /\ ~IsRead("backup")
    /\ IF files["primary"].kind = "missing" /\ files["backup"].kind = "missing"
       THEN Loaded(t, {}, AfterLoad(t)) /\ UNCHANGED <<dirLock, storeMutex>>
       ELSE Return(t)

LoadState(t) ==
    /\ saving[t].at = "load"
    /\ \/ /\ IsRead("primary")
          /\ Loaded(t, files["primary"].has, AfterLoad(t))
          /\ UNCHANGED <<dirLock, storeMutex>>
       \/ /\ ~IsRead("primary") /\ IsRead("backup")
          /\ Loaded(t, files["backup"].has, "recover")
          /\ UNCHANGED <<dirLock, storeMutex>>
       \/ LoadDefaults(t)
    /\ UNCHANGED <<legacy, files, updates, faults, acked, latest, overcopied>>

Content(t) ==
    IF saving[t].at \in {"recover", "recovering"} THEN saving[t].value
    ELSE saving[t].value \cup {saving[t].update}

\* ReplaceFileW renames the old file, then the new one; a missing target is
\* a single move.
RenameOld(t) ==
    /\ saving[t].at \in {"recover", "write"} /\ files["primary"].kind # "missing"
    /\ LET name == IF saving[t].at = "recover" THEN RecoveryLeaves ELSE UpdateLeaves
       IN files' = [files EXCEPT ![name] = files["primary"], !["primary"] = Missing]
    /\ GoesTo(t, IF saving[t].at = "recover" THEN "recovering" ELSE "writing")
    /\ UNCHANGED <<legacy, dirLock, storeMutex, updates, faults, acked, latest, overcopied>>

RenameNew(t) ==
    /\ \/ saving[t].at \in {"recovering", "writing"}
       \/ saving[t].at \in {"recover", "write"} /\ files["primary"].kind = "missing"
    /\ files' = [files EXCEPT !["primary"] = Holding(Content(t))]
    /\ IF saving[t].at \in {"recover", "recovering"}
       THEN GoesTo(t, AfterLoad(t)) /\ UNCHANGED latest
       ELSE GoesTo(t, "saved") /\ latest' = saving[t].update
    /\ UNCHANGED <<legacy, dirLock, storeMutex, updates, faults, acked, overcopied>>

\* What fails in a recovery is only logged.
RenameFails(t) ==
    /\ saving[t].at \in {"recover", "recovering", "write", "writing"} /\ faults < MaxFaults
    /\ faults' = faults + 1
    /\ IF saving[t].at \in {"recover", "recovering"}
       THEN GoesTo(t, AfterLoad(t)) /\ UNCHANGED <<dirLock, storeMutex>>
       ELSE Return(t)
    /\ UNCHANGED <<legacy, files, updates, acked, latest, overcopied>>

ReturnLoaded(t) ==
    /\ saving[t].at = "return"
    /\ Return(t)
    /\ UNCHANGED <<legacy, files, updates, faults, acked, latest, overcopied>>

\* The files are protected after the replacement, which may fail: an error
\* for an update that is on disk.
ReturnSaved(t) ==
    /\ saving[t].at = "saved"
    /\ Return(t)
    /\ acked' \in {acked, acked \cup {saving[t].update}}
    /\ UNCHANGED <<legacy, files, updates, faults, latest, overcopied>>

-----------------------------------------------------------------------------
(* Faults. *)

\* A process dies, with its locks; it may start again.
SaverDies(p) ==
    /\ faults < MaxFaults /\ \E t \in Savers : SaverHome[t] = p /\ saving[t] # NoSave
    /\ faults' = faults + 1
    /\ saving' = [t \in Savers |-> IF SaverHome[t] = p THEN NoSave ELSE saving[t]]
    /\ dirLock' = [dirLock EXCEPT ![p] = Nobody]
    /\ storeMutex' = IF storeMutex # Nobody /\ SaverHome[storeMutex] = p THEN Nobody ELSE storeMutex
    /\ UNCHANGED <<legacy, files, updates, acked, latest, overcopied>>

\* state.json is damaged while nobody uses it.  The backup is one update
\* behind, so that update is lost and no other.
FileIsDamaged ==
    /\ faults < MaxFaults /\ storeMutex = Nobody /\ IsRead("primary")
    /\ \A t \in Savers : saving[t].at # "copy"
    /\ faults' = faults + 1
    /\ files' = [files EXCEPT !["primary"] = Damaged]
    /\ acked' = acked \ {latest}
    /\ UNCHANGED <<legacy, dirLock, storeMutex, saving, updates, latest, overcopied>>

StateNext ==
    \/ \E t \in Savers :
         \/ BeginLoad(t) \/ BeginUpdate(t) \/ OpenDirectory(t) \/ CopyLegacyFile(t)
         \/ LockDirectory(t) \/ LockStore(t) \/ FailSave(t) \/ LoadState(t)
         \/ RenameOld(t) \/ RenameNew(t) \/ RenameFails(t)
         \/ ReturnLoaded(t) \/ ReturnSaved(t)
    \/ \E p \in SaverProcesses : SaverDies(p)
    \/ FileIsDamaged

StateSpec == StateInit /\ [][StateNext]_stateVars

-----------------------------------------------------------------------------
(* Properties. *)

\* What the next load finds.
Recoverable ==
    IF IsRead("primary") THEN files["primary"].has
    ELSE IF IsRead("backup") THEN files["backup"].has ELSE {}

\* An update that returned without an error is found by every later load,
\* whatever the other processes save, wherever a save or a recovery fails or
\* its process dies, and when state.json is damaged -- then the backup has all
\* but the last.  A copy of the older directory into a store in use is excepted.
AcknowledgedSurvives == overcopied \/ storeMutex # Nobody \/ acked \subseteq Recoverable

\* "missing primary did not recover last-known-good backup"
\* (state_store_test.go:269): without state.json the backup is what counts.
MissingStateIsRecovered ==
    [][files["primary"].kind = "missing" /\ files'["primary"].kind = "state"
         => files["backup"].has \subseteq files'["primary"].has]_stateVars
===============================================================================
