-------------------------- MODULE MCOperationJobs --------------------------
(* Small instances of OperationJobs for TLC.                               *)
EXTENDS OperationJobs, TLC

ClientSymmetry == Permutations(Clients)

Job(type, keys) == [type |-> type, keys |-> keys, rejected |-> FALSE]

(* An update, one of the same package that is rejected, and a job without  *)
(* keys.                                                                   *)
MixedRequests ==
    {Job("update-all", {"p", "q"}),
     [type |-> "update", keys |-> {"q"}, rejected |-> TRUE],
     Job("manager-install", {})}

(* The same job again and again: nothing is a duplicate.                   *)
InstallRequests == {Job("manager-install", {})}

(* Jobs that may be submitted again and again: nothing is a duplicate.     *)
RepeatableRequests == {Job("manager-install", {}), Job("app-self-update", {})}
=============================================================================
