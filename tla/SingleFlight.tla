---------------------------- MODULE SingleFlight ----------------------------
(***************************************************************************)
(* What a caller of the background Store scan may rely on, whoever runs    *)
(* it: at most one flight at a time, and no request is satisfied by a      *)
(* flight that had begun before the request was made.                      *)
(* (src/internal/updater/app_inventory.go, runStoreScan: "exactly one      *)
(* follow-up so a forced refresh is never dropped".)                       *)
(***************************************************************************)

VARIABLES
    phase,  \* no flight, a flight that has still to begin, or one on its way
    again,  \* another flight was requested
    open    \* requests are served: the process is not shutting down

vars == <<phase, again, open>>

TypeOK == /\ phase \in {"idle", "pending", "working"}
          /\ again \in BOOLEAN
          /\ open \in BOOLEAN

Init == phase = "idle" /\ again = FALSE /\ open = TRUE

Ask == \/ phase = "idle" /\ phase' = "pending" /\ UNCHANGED <<again, open>>
       \/ phase # "idle" /\ again' = TRUE /\ UNCHANGED <<phase, open>>

Begin == /\ phase = "pending"
         /\ phase' = "working"
         /\ UNCHANGED <<again, open>>

(* The flight lands; a request that came after it had begun is served by   *)
(* the next one.                                                           *)
Land == /\ phase = "working"
        /\ open
        /\ phase' = IF again THEN "pending" ELSE "idle"
        /\ again' = FALSE
        /\ UNCHANGED open

Close == /\ open
         /\ open' = FALSE
         /\ UNCHANGED <<phase, again>>

(* Only a shutdown drops requests.                                         *)
Drop == /\ ~open
        /\ phase # "idle"
        /\ phase' = "idle"
        /\ again' \in {again, FALSE}
        /\ UNCHANGED open

Next == Ask \/ Begin \/ Land \/ Close \/ Drop

(* A pending flight begins or is dropped, and a flight ends.               *)
Spec == /\ Init
        /\ [][Next]_vars
        /\ WF_vars(Begin \/ Drop)
        /\ WF_vars(Land \/ Drop)
=============================================================================
