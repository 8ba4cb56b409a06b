------------------------------ MODULE MCPackages ------------------------------
(* Small instances of PackageUpdates for TLC.                              *)
EXTENDS PackageUpdates, TLC

CONSTANTS w1, w2, c1, s1, PatchBoard, Elevated, Scheduled

KindOf == w1 :> "winget" @@ w2 :> "winget" @@ c1 :> "choco" @@ s1 :> "store"
ConsentTo == w1 :> {} @@ w2 :> {"unknown", "pinned"} @@ c1 :> {} @@ s1 :> {}
TargetsOf == w1 :> 2 @@ w2 :> 1 @@ c1 :> 1 @@ s1 :> 1
Named == w1 :> TRUE @@ w2 :> FALSE @@ c1 :> FALSE @@ s1 :> FALSE
HomeOf == Body :> PatchBoard @@ Worker :> Elevated @@ Task :> Scheduled

NoOthers == [p \in Packages |-> {}]

\* One package, with the ways the retries go.
Retrying(package, texts) ==
    [job |-> <<package>>, task |-> << >>, admin |-> package # c1, sameUser |-> TRUE,
     texts |-> texts, codes |-> {"ok", "failed"}, mayCancel |-> {}, deaths |-> 0,
     matches |-> NoOthers]

\* A batch and other packages, next to a scheduled run.
Batches(packages, task, codes, mayCancel, deathsAllowed) ==
    [job |-> packages, task |-> task, admin |-> FALSE, sameUser |-> TRUE,
     texts |-> {{}}, codes |-> codes, mayCancel |-> mayCancel, deaths |-> deathsAllowed,
     matches |-> NoOthers]

AllMachines ==
    {Retrying(w1, {{"source"}, {"inapplicable"}}),
     Retrying(w1, {{"source"}, {"transient"}, {"unknown"}}),
     Retrying(w1, {{"source"}, {"success"}, {"missing"}, {"pinned"}}),
     Retrying(w2, {{"unknown"}, {"pinned"}, {"mismatch"}, {"missing"}}),
     Retrying(s1, {{"apply"}, {"transient"}, {"missing"}}),
     Retrying(s1, {{"source"}, {"missing"}, {"error"}}),
     Retrying(c1, {{"missing"}, {"transient"}}),
     [Batches(<<w1, c1, s1>>, << >>, {"ok", "failed", "timeout", "cancelled"}, {}, 0)
         EXCEPT !.texts = {{}, {"declined"}}],
     Batches(<<w1, c1, s1>>, << >>, {"ok", "failed"}, {Body}, 2),
     Batches(<<c1>>, << >>, {"ok", "failed"}, {Body}, 1),
     Batches(<<w1, c1>>, <<w2>>, {"ok", "failed"}, {Body, Task}, 0),
     Batches(<<s1, w2>>, <<s1>>, {"ok"}, {}, 2),
     \* Two requests that may become one package.
     [Batches(<<w1, w2>>, << >>, {"ok", "failed", "timeout"}, {}, 0)
         EXCEPT !.matches = w1 :> {w2} @@ w2 :> {} @@ NoOthers]}
===============================================================================
