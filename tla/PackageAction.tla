----------------------------- MODULE PackageAction -----------------------------
(***************************************************************************)
(* How the update of one package goes on after each command attempt: the   *)
(* repair of winget sources, transient retries, retries with more options, *)
(* forced attempts, other names of the package.  Decisions are made on the *)
(* text of ALL attempts so far, because a merged result keeps the output   *)
(* of every attempt with the code of the last one.                         *)
(*                                                                         *)
(* A text is the set of the signs the code looks for in it.                *)
(***************************************************************************)
EXTENDS Naturals

CONSTANTS Packages,
          Kind,        \* package -> "winget", "choco" or "store"
          Consent,     \* package -> subset of {"unknown", "pinned"} the user allowed
          Candidates,  \* package -> number of its targets
          HasName,     \* package -> its display name is a further target
          MaxAttempts  \* packageActionMaxAttempts

ASSUME ActionAssumption ==
    /\ Kind \in [Packages -> {"winget", "choco", "store"}]
    /\ Consent \in [Packages -> SUBSET {"unknown", "pinned"}]
    /\ Candidates \in [Packages -> Nat \ {0}]
    /\ HasName \in [Packages -> BOOLEAN]
    /\ MaxAttempts \in Nat \ {0}

Signs == {"source", "transient", "unknown", "pinned", "inapplicable", "mismatch",
          "missing", "apply", "consent", "success", "declined", "error"}
Codes == {"ok", "failed", "timeout", "cancelled", "accepted", "skipped"}

Result(code, text) == [ok |-> code = "ok", code |-> code, says |-> text]

\* normalizePackageActionResult: a failure that only talks of success is one.
Normalized(r) == [r EXCEPT !.ok = @ \/ r.says = {"success"}]

Retryable(r) == ~r.ok /\ r.code \notin {"cancelled", "timeout"}
AsksFor(option, r) == Retryable(r) /\ option \in r.says
Repairable(r) == ~r.ok /\ r.says \cap {"inapplicable", "mismatch"} # {}
Transient(r) == ~r.ok /\ "transient" \in r.says
\* As Alternate, with the refusal for missing consent not looked at.
AlternateAlways(r) == Retryable(r) /\ r.says \cap {"inapplicable", "missing"} # {}

Alternate(r) ==
    Retryable(r) /\ "consent" \notin r.says /\ r.says \cap {"inapplicable", "missing"} # {}

\* One attempt: which target, with which options, for which purpose; and the
\* texts of the current command, of its plan and of the earlier targets.
Attempt(p, target, text) ==
    [package |-> p, target |-> target, step |-> "plain", options |-> {},
     phase |-> "first", try |-> 1, command |-> {}, plan |-> {}, earlier |-> text]

\* storeProductIDFirstExactUpdateRunner: a Store package that has a Product ID
\* is first updated by WinGet, if there is one, from its msstore source.
Exact(p) == [Attempt(p, 1, {}) EXCEPT !.step = "msstore"]
FirstAttempts(p) == {Attempt(p, 1, {})} \cup IF Kind[p] = "store" THEN {Exact(p)} ELSE {}

\* The attempt is a command of WinGet.
ByWinget(a) == Kind[a.package] = "winget" \/ a.step = "msstore"

\* normalizeStoreUpdateCommandResult: the Store CLI may report an error in its
\* output whatever its exit code.
Checked(a, r) ==
    IF \/ Kind[a.package] # "store" \/ a.step = "msstore"
       \/ r.code \in {"cancelled", "timeout"} \/ "error" \notin r.says
    THEN r ELSE [r EXCEPT !.ok = FALSE, !.code = IF @ = "ok" THEN "failed" ELSE @]

Over(r) == [over |-> TRUE, result |-> r]
Goes(a) == [over |-> FALSE, next |-> a]

\* runPackageUpdateCandidates and the fallback to the name.
AfterTarget(a, r, live) ==
    LET p == a.package
        all == [r EXCEPT !.says = a.earlier \cup @]
        another == ~r.ok /\ live /\ Alternate(r)
    IN IF a.target < Candidates[p] /\ another
       THEN Goes(Attempt(p, a.target + 1, all.says))
       ELSE IF /\ a.target <= Candidates[p] /\ Kind[p] = "winget" /\ HasName[p]
               /\ live /\ Alternate(all)
       THEN Goes(Attempt(p, Candidates[p] + 1, all.says))
       ELSE Over(all)

\* runWingetUpgradePlanWithFallbacks, for winget: options the output asks for
\* if the user allowed them, then force, then a forced installation.
AfterWingetCommand(a, c, live) ==
    LET r == [c EXCEPT !.says = a.plan \cup @]
        End(result) == AfterTarget(a, result, live)
        Step(step, options) ==
            Goes([a EXCEPT !.step = step, !.options = options, !.phase = "first",
                           !.try = 1, !.command = {}, !.plan = r.says])
        Force == IF Repairable(r) /\ live THEN Step("force", a.options \cup {"force"})
                                          ELSE End(r)
        WithOption(option, otherwise) ==
            CASE ~AsksFor(option, r)               -> otherwise
              [] AsksFor(option, r) /\ ~live       -> End(r)
              [] AsksFor(option, r) /\ live /\ option \notin Consent[a.package]
                   -> End([r EXCEPT !.says = @ \cup {"consent"}])
              [] OTHER                             -> Step(option, a.options \cup {option})
        stop == c.ok \/ ~live
    IN CASE a.step = "plain"   -> WithOption("unknown", WithOption("pinned", Force))
         [] a.step = "unknown" -> IF stop THEN End(r) ELSE WithOption("pinned", Force)
         [] a.step = "pinned"  -> IF stop THEN End(r) ELSE Force
         [] a.step = "force"   -> IF ~stop /\ Repairable(c) THEN Step("install", {"force"})
                                                            ELSE End(r)
         [] OTHER              -> End(r)

\* From WinGet to the Store CLI if the Product ID was not accepted, and
\* runStoreUpdateCommandWithApplyFallback for the Store CLI.
AfterStoreCommand(a, c, live) ==
    LET r == Checked(a, c)
    IN CASE a.step = "msstore" ->
              IF live /\ Alternate(r) THEN Goes(Attempt(a.package, 1, r.says)) ELSE Over(r)
         [] a.step = "plain" /\ live /\ AsksFor("apply", r) ->
              Goes([a EXCEPT !.step = "bare", !.phase = "first", !.try = 1,
                             !.command = {}, !.plan = r.says])
         [] OTHER -> AfterTarget(a, [r EXCEPT !.says = a.plan \cup @], live)

\* ExecuteWithCallbacks, once the runner came to r: a command that succeeded
\* is accepted, and a success only when the new state of the package shows.
StoreResults(r, live) ==
    IF ~r.ok \/ r.code = "cancelled"
    THEN {IF live THEN r ELSE Result("cancelled", r.says)}
    ELSE {Result(code, r.says) :
            code \in {"ok", "accepted"} \cup IF live THEN {} ELSE {"cancelled"}}

AfterCommand(a, c, live) ==
    CASE Kind[a.package] = "winget" -> AfterWingetCommand(a, c, live)
      [] Kind[a.package] = "store"  -> AfterStoreCommand(a, c, live)
      [] OTHER                      -> AfterTarget(a, c, live)

\* As AfterRepair, with the repair's result taken for the command's.
RepairIsEnough(a, o, r, live) == AfterCommand(a, r, live)

\* After a repair of winget's sources that ended with o the command is run
\* again, if the repair worked; r has the texts of all attempts.
AfterRepair(a, o, r, live) ==
    IF live /\ o.ok THEN Goes([a EXCEPT !.phase = "again", !.command = r.says])
                    ELSE AfterCommand(a, r, live)

\* The loop of retryPackageActionOnTransientFailure counts its attempts.
SameTry(a) == a.try  \* as NextTry, with the count left alone
NextTry(a) == a.try + 1

\* runPackageActionCommand: an attempt with outcome o ended.
AfterAttempt(a, o, live) ==
    LET r == [o EXCEPT !.says = a.command \cup @]
        source == live /\ ~o.ok /\ ByWinget(a) /\ "source" \in o.says
        Repair(phase) == Goes([a EXCEPT !.phase = phase, !.command = r.says])
        Retry == IF Transient(r) /\ live /\ a.try < MaxAttempts
                 THEN Goes([a EXCEPT !.phase = "retry", !.try = NextTry(a), !.command = r.says])
                 ELSE AfterCommand(a, r, live)
    IN CASE a.phase = "first"         -> IF source THEN Repair("source update") ELSE Retry
         [] a.phase = "source update" -> IF source THEN Repair("source reset")
                                                   ELSE AfterRepair(a, o, r, live)
         [] a.phase = "source reset"  -> AfterRepair(a, o, r, live)
         [] OTHER                     -> Retry

\* An attempt that works on the package itself and not on winget's sources.
OnPackage(a) == a.phase \notin {"source update", "source reset"}

\* The attempt did what was asked of the package.
Succeeds(a, o) == OnPackage(a) /\ Checked(a, o).ok

\* packageUpdateQueueStopReason: after this result nothing else is tried.
StopReason(r) == r.code \in {"timeout", "cancelled"} \/ "declined" \in r.says
=============================================================================
