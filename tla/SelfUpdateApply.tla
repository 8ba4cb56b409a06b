---------------------------- MODULE SelfUpdateApply ----------------------------
(***************************************************************************)
(* PatchBoard replaces its own executable.  The running instance stages    *)
(* the new one and starts it as a helper; the helper waits for its parent, *)
(* replaces the executable and keeps the old one, starts the new one and   *)
(* waits for its acknowledgement, or puts the old one back.  A helper      *)
(* without the rights for it delegates to an elevated one.                 *)
(***************************************************************************)
EXTENDS Integers

CONSTANTS
    MaxRounds,       \* bound on the updates
    MaxHelperDeaths, \* bound on the helpers that are killed
    StagingLimit     \* maxPendingHealthRequests

ASSUME ApplyAssumption ==
    MaxRounds \in Nat /\ MaxHelperDeaths \in Nat /\ StagingLimit \in Nat

Helpers == {"first", "elevated"}
Images == [version : 0..MaxRounds, works : BOOLEAN]
NoImage == [version |-> -1, works |-> FALSE]

VARIABLES
    exe,      \* the installed executable
    kept,     \* its .bak
    apps,     \* running instances: image, "starting" or "up"; equal ones count once
    admin,    \* they run elevated: a restart goes through the shell
    parent,   \* the instance that updates
    helper,   \* helper -> its place in the code
    offer,    \* the image being installed
    health,   \* the startup health request
    entries,  \* files in the staging directory
    round, killed,
    before,   \* history: the executable, or what is left of it, when the update began
    proven,    \* history: the images that have acknowledged their start
    excused   \* history: a helper was killed or failed without a restart

applyVars == <<exe, kept, apps, admin, parent, helper, offer, health, entries,
               round, killed, before, proven, excused>>

App(image, at) == [image |-> image, at |-> at]
NoParent == App(NoImage, "none")
NoHealth == [image |-> NoImage, open |-> FALSE, ack |-> FALSE]

ApplyInit ==
    /\ exe = [version |-> 0, works |-> TRUE]
    /\ kept = NoImage
    /\ apps = {App(exe, "up")}
    /\ admin \in BOOLEAN
    /\ parent = NoParent
    /\ helper = [h \in Helpers |-> "none"]
    /\ offer = NoImage
    /\ health = NoHealth
    /\ entries = 0
    /\ round = 0 /\ killed = 0
    /\ before = exe /\ proven = {} /\ excused = FALSE

history == <<before, proven>>
storage == <<exe, kept, health, entries, history>>
Goes(h, at) == helper' = [helper EXCEPT ![h] = at]
Excused == excused' = TRUE
NotExcused == UNCHANGED excused

-----------------------------------------------------------------------------
(* The launch: the launcher is the parent, or the first helper. *)

\* The verified executable stays in the staging directory.  An equal instance
\* of the one that updates may stay.
Stage ==
    /\ round < MaxRounds /\ parent.at \in {"none", "gone"}
    /\ \A h \in Helpers : helper[h] = "none"
    /\ \E a \in apps, works \in BOOLEAN :
         /\ a.at = "up"
         /\ parent' = App(a.image, "launching")
         /\ apps' \in {apps, apps \ {a}}
         /\ offer' = [version |-> round + 1, works |-> works]
    /\ Goes("first", "starting")
    /\ round' = round + 1
    /\ entries' = entries + 1
    /\ before' = (IF exe = NoImage THEN kept ELSE exe) /\ excused' = FALSE
    /\ UNCHANGED <<exe, kept, admin, health, killed, proven>>

Launching(h) == IF h = "first" THEN parent.at = "launching" ELSE helper["first"] = "delegating"
LauncherGone(h) == IF h = "first" THEN parent.at = "gone" ELSE helper["first"] = "none"

\* The request is validated and the launcher's process is held open.
BecomeReady(h) ==
    /\ helper[h] = "starting" /\ Launching(h)
    /\ Goes(h, "ready")
    /\ UNCHANGED <<apps, admin, parent, offer, round, killed, storage>> /\ NotExcused

\* It reads the readiness: the parent shuts down, the first helper ends.
ReadReady(h) ==
    /\ helper[h] = "ready" /\ Launching(h)
    /\ IF h = "first" THEN parent' = [parent EXCEPT !.at = "stopping"] /\ UNCHANGED helper
                      ELSE Goes("first", "ending") /\ UNCHANGED parent
    /\ UNCHANGED <<apps, admin, offer, round, killed, storage>> /\ NotExcused

\* A refusal, a timeout, a cancelled job or a helper that is gone: what is left
\* of it is terminated and the parent goes on as before.
LaunchFailed(h) ==
    /\ helper[h] \in {"none", "starting", "ready"} /\ Launching(h)
    /\ helper' = [helper EXCEPT ![h] = "none", !["first"] = IF h = "first" THEN "none" ELSE "ending"]
    /\ IF h = "first"
       THEN /\ apps' = apps \cup {App(parent.image, "up")} /\ parent' = NoParent
            /\ NotExcused
       ELSE UNCHANGED <<apps, parent>> /\ Excused
    /\ UNCHANGED <<admin, offer, round, killed, storage>>

\* The shutdown ends; a parent that dies has not read the readiness.
ParentExits ==
    /\ parent.at \in {"launching", "stopping"}
    /\ parent' = [parent EXCEPT !.at = "gone"]
    /\ IF parent.at = "stopping" THEN NotExcused ELSE Excused
    /\ UNCHANGED <<apps, admin, helper, offer, round, killed, storage>>

\* Nobody reads the readiness any more.
HelperIsAlone(h) ==
    /\ helper[h] = "starting" /\ LauncherGone(h)
    /\ Goes(h, "none")
    /\ UNCHANGED <<apps, admin, parent, offer, round, killed, storage>> /\ NotExcused

SeeLauncherExit(h) ==
    /\ helper[h] = "ready"
    /\ \/ LauncherGone(h) /\ Goes(h, "replacing") /\ NotExcused
       \/ ~LauncherGone(h) /\ ~Launching(h) /\ Goes(h, "ending") /\ Excused
    /\ UNCHANGED <<apps, admin, parent, offer, round, killed, storage>>

-----------------------------------------------------------------------------
(* The replacement. *)

\* Access is denied: the consent is asked for, and given or not.
Delegate ==
    /\ helper["first"] = "replacing"
    /\ \/ helper' = [first |-> "delegating", elevated |-> "starting"] /\ NotExcused
       \/ Goes("first", "ending") /\ Excused
    /\ UNCHANGED <<apps, admin, parent, offer, round, killed, storage>>

\* The staged file cannot be read, copied or no longer has its hash.
ReplaceFails(h) ==
    /\ helper[h] = "replacing"
    /\ Goes(h, "ending") /\ Excused
    /\ UNCHANGED <<apps, admin, parent, offer, round, killed, storage>>

\* ReplaceFileW: the old file, then the new one.
MoveOldAway(h) ==
    /\ helper[h] = "replacing"
    /\ kept' = IF exe = NoImage THEN kept ELSE exe
    /\ exe' = NoImage
    /\ Goes(h, "replaced")
    /\ UNCHANGED <<apps, admin, parent, offer, health, entries, round, killed, history>> /\ NotExcused

MoveNewIn(h) ==
    /\ helper[h] = "replaced"
    /\ \/ exe' = offer /\ Goes(h, "asking") /\ NotExcused
       \/ UNCHANGED exe /\ Goes(h, "ending") /\ Excused
    /\ UNCHANGED <<apps, admin, parent, offer, kept, health, entries, round, killed, history>>

AskForHealth(h) ==
    /\ helper[h] = "asking"
    /\ \/ /\ health' = [image |-> offer, open |-> TRUE, ack |-> FALSE]
          /\ entries' = entries + 1
          /\ Goes(h, "starts")
       \/ UNCHANGED <<health, entries>> /\ Goes(h, "restore")
    /\ UNCHANGED <<exe, kept, apps, admin, parent, offer, round, killed, history>> /\ NotExcused

LeaveUnverified == "ending"
AfterFailedStart == "restore"

StartNew(h) ==
    /\ helper[h] = "starts"
    /\ \/ apps' = apps \cup {App(exe, "starting")} /\ Goes(h, "waiting")
       \/ UNCHANGED apps /\ Goes(h, AfterFailedStart)
    /\ UNCHANGED <<admin, parent, offer, round, killed, storage>> /\ NotExcused

-----------------------------------------------------------------------------
(* The instances: the new one acknowledges as soon as it listens. *)

\* All files of the directory are counted, whatever they are.
ReadsRequests == entries <= StagingLimit

ComeUp(a) ==
    /\ a.at = "starting" /\ a.image.works
    /\ apps' = (apps \ {a}) \cup {App(a.image, "up")}
    /\ \/ /\ health.open /\ health.image = a.image /\ ReadsRequests
          /\ health' = [health EXCEPT !.open = FALSE, !.ack = TRUE]
          /\ proven' = proven \cup {a.image}
          /\ UNCHANGED entries
       \/ /\ health.open /\ ReadsRequests /\ \A h \in Helpers : helper[h] = "none"
          /\ health' = NoHealth          \* expired: its helper is gone
          /\ entries' = entries - 1
          /\ UNCHANGED proven
       \/ /\ ~health.open \/ health.image # a.image \/ ~ReadsRequests
          /\ UNCHANGED <<health, entries, proven>>
    /\ UNCHANGED <<exe, kept, admin, parent, helper, offer, round, killed, before>> /\ NotExcused

\* An instance that does not work exits, or hangs.
FailToStart(a) ==
    /\ a.at = "starting" /\ ~a.image.works
    /\ apps' = apps \ {a}
    /\ UNCHANGED <<admin, parent, helper, offer, round, killed, storage>> /\ NotExcused

\* Whenever there is an executable, also while a helper works: no instance
\* keeps another one from running.
UserStarts ==
    /\ exe # NoImage
    /\ apps' = apps \cup {App(exe, "starting")}
    /\ UNCHANGED <<admin, parent, helper, offer, round, killed, storage>> /\ NotExcused

-----------------------------------------------------------------------------
(* The decision. *)

\* The backup of an acknowledged executable is removed; it may stay.
KeepNew(h) ==
    /\ helper[h] = "waiting" /\ health.ack
    /\ kept' \in {kept, NoImage}
    /\ Goes(h, "ending")
    /\ excused' = (excused \/ kept' = kept)
    /\ UNCHANGED <<exe, apps, admin, parent, offer, health, entries, round, killed, history>>

\* It exited or the time is over, which an acknowledgement may just miss.
\* Only a process the helper has started itself is terminated, not one that
\* the user or the shell has started.
Represents(h) == h = "first" /\ ~admin

GiveUpOnNew(h) ==
    /\ helper[h] = "waiting"
    /\ apps' \in {apps} \cup (IF Represents(h) THEN {{a \in apps : a.image # offer}} ELSE {})
    /\ Goes(h, "restore")
    /\ UNCHANGED <<admin, parent, offer, round, killed, storage>> /\ NotExcused

MoveFailedOver(h) ==
    /\ helper[h] = "restore" /\ kept # NoImage
    /\ kept' = exe /\ exe' = NoImage /\ Goes(h, "restoring")
    /\ UNCHANGED <<apps, admin, parent, offer, health, entries, round, killed, history>> /\ NotExcused

\* The copy of the backup takes the place of the new executable, which is
\* kept as .failed.
MoveFailedAway(h) ==
    /\ helper[h] = "restore"
    /\ \/ kept # NoImage /\ exe' = NoImage /\ Goes(h, "restoring") /\ NotExcused
       \/ UNCHANGED exe /\ Goes(h, "ending") /\ Excused
    /\ UNCHANGED <<apps, admin, parent, offer, kept, health, entries, round, killed, history>>

MoveOldBack(h) ==
    /\ helper[h] = "restoring"
    /\ \/ exe' = kept /\ Goes(h, "restored") /\ NotExcused
       \/ UNCHANGED exe /\ Goes(h, "ending") /\ Excused
    /\ UNCHANGED <<apps, admin, parent, offer, kept, health, entries, round, killed, history>>

RestoreOnly == "ending"
AfterRestore == "restart"

DropBackup(h) ==
    /\ helper[h] = "restored"
    /\ \/ kept' = NoImage /\ Goes(h, AfterRestore) /\ NotExcused
       \/ UNCHANGED kept /\ Goes(h, "ending") /\ Excused
    /\ UNCHANGED <<exe, apps, admin, parent, offer, health, entries, round, killed, history>>

StartOld(h) ==
    /\ helper[h] = "restart"
    /\ \/ apps' = apps \cup {App(exe, "starting")} /\ NotExcused
       \/ UNCHANGED apps /\ Excused
    /\ Goes(h, "ending")
    /\ UNCHANGED <<admin, parent, offer, round, killed, storage>>

\* The request and its answer are removed, the outcome is left next to the
\* staged executable: one file for both helpers.
End(h) ==
    /\ helper[h] = "ending"
    /\ Goes(h, "none")
    /\ LET asked == health.image = offer
       IN /\ health' = IF asked THEN NoHealth ELSE health
          /\ entries' = entries - (IF asked THEN 1 ELSE 0) + (IF h = "first" THEN 1 ELSE 0)
    /\ UNCHANGED <<exe, kept, apps, admin, parent, offer, round, killed, history>> /\ NotExcused

HelperDies(h) ==
    /\ helper[h] # "none" /\ killed < MaxHelperDeaths
    /\ killed' = killed + 1
    /\ Goes(h, "none") /\ Excused
    /\ UNCHANGED <<apps, admin, parent, offer, round, storage>>

-----------------------------------------------------------------------------

HelperStep(h) ==
    \/ BecomeReady(h) \/ HelperIsAlone(h) \/ ReadReady(h) \/ LaunchFailed(h) \/ SeeLauncherExit(h)
    \/ ReplaceFails(h) \/ MoveOldAway(h) \/ MoveNewIn(h) \/ AskForHealth(h)
    \/ StartNew(h) \/ KeepNew(h) \/ GiveUpOnNew(h) \/ MoveFailedAway(h)
    \/ MoveOldBack(h) \/ DropBackup(h) \/ StartOld(h) \/ End(h)

AppStep == \E a \in apps : ComeUp(a) \/ FailToStart(a)

ApplyNext ==
    \/ Stage \/ ParentExits \/ Delegate \/ UserStarts
    \/ \E h \in Helpers : HelperStep(h) \/ HelperDies(h)
    \/ AppStep

ApplySpec == ApplyInit /\ [][ApplyNext]_applyVars

\* Everybody goes on: the waits have time limits, and an instance that works
\* comes up.  Nobody has to start an update or PatchBoard.
ApplyFairness ==
    /\ \A h \in Helpers : WF_applyVars(HelperStep(h))
    /\ WF_applyVars(ParentExits)
    /\ WF_applyVars(AppStep)

-----------------------------------------------------------------------------
(* Properties. *)

\* Wherever a helper is killed or fails, an executable that works is
\* installed or kept next to the installed one, if there was one to begin
\* with: an old instance may start an update over one that was cut short.
KeepsWorkingVersion == before.works => exe.works \/ kept.works

\* An update whose helper was not killed ends with a decision and without a
\* backup: the executable is the one from before, or one that has
\* acknowledged its start.
UpdateIsDecided ==
    (\A h \in Helpers : helper[h] = "none") /\ parent.at = "gone" /\ ~excused
       => kept = NoImage /\ exe \in proven \cup {before}

\* An instance that has stopped for an update is followed by one that runs,
\* unless the helper was killed or gave up without a restart, or the old
\* executable did not work either.
PatchBoardComesBack ==
    parent.at = "stopping" ~> (excused \/ ~before.works \/ \E a \in apps : a.at = "up")

\* "too many pending self-update startup health requests"
\* (self_update_health_windows.go:93): with a single one, the instance it is
\* about acknowledges it when it comes up.
HealthyStartIsAcknowledged ==
    [][\A a \in apps :
         ComeUp(a) /\ health.open /\ health.image = a.image /\ (\E h \in Helpers : helper[h] = "waiting")
           => health'.ack]_applyVars
================================================================================
