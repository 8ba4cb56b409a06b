------------------------------ MODULE MCPlatform ------------------------------
(* Small instances of StateStore, AutoUpdateSettings and SelfUpdateApply.  *)
(* They share no state: a behaviour is one of one of them.                 *)
EXTENDS StateStore, AutoUpdateSettings, SelfUpdateApply, TLC

CONSTANTS Parts, a, b, c, r1, r2, PatchBoard, Scheduled

Homes == [t \in Savers |-> IF t = b THEN Scheduled ELSE PatchBoard]

\* Bound on the updates of an elevated PatchBoard.  What its helper does, a
\* helper to which the update was delegated does as well.
ElevatedRounds == 1

VARIABLE part

platformVars == <<part, stateVars, settingsVars, applyVars>>

Init ==
    /\ part \in Parts
    /\ StateInit /\ SettingsInit /\ ApplyInit
    /\ part # "state" => ~legacy
    /\ part # "settings" => ~setting
    /\ part # "update" => ~admin

Next ==
    /\ UNCHANGED part
    /\ \/ part = "state" /\ StateNext /\ UNCHANGED <<settingsVars, applyVars>>
       \/ part = "settings" /\ SettingsNext /\ UNCHANGED <<stateVars, applyVars>>
       \/ /\ part = "update" /\ ApplyNext /\ (admin => round' <= ElevatedRounds)
          /\ UNCHANGED <<stateVars, settingsVars>>

Spec == Init /\ [][Next]_platformVars /\ ApplyFairness
===============================================================================
