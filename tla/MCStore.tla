------------------------------ MODULE MCStore ------------------------------
(* Small instances of StoreUpdate (and with it of StoreScan) for TLC.      *)
EXTENDS StoreUpdate, TLC

CONSTANTS f, p, q, s1, s2, s3, u1, A, B

OneFamily == {f}
TwoProducts == {p, q}
AllOffers == {<<p, 2>>, <<q, 2>>, <<p, 3>>, <<p, 0>>}

\* Two goroutines of one process and one of another.
HomeOf == [s \in {s1, s2, s3} |-> IF s = s3 THEN B ELSE A]

\* All kinds of evidence, through one scan after another.
Evidential(deployed, offers) ==
    [deployed |-> deployed, offers |-> offers, scanners |-> {s1}, updaters |-> {},
     maxTime |-> 2, faults |-> 0, versions |-> {1}]

\* Competing scans, crashes and damaged files, with little evidence.
Contended(offers, maxTime) ==
    [deployed |-> {"updates"}, offers |-> offers, scanners |-> {s1, s3},
     updaters |-> {}, maxTime |-> maxTime, faults |-> 1, versions |-> {1}]

\* Updates while scans publish and packages change; the listing may not name
\* the version it offers.
Updating(offers, faultsAllowed, versions) ==
    [deployed |-> {"updates"}, offers |-> offers, scanners |-> {s1},
     updaters |-> {u1}, maxTime |-> 2, faults |-> faultsAllowed, versions |-> versions]

AllMachines ==
    {Evidential({"updates", "winget", "exact"}, {<<p, 2>>, <<q, 2>>}),
     Evidential({"updates", "exact", "winrt"}, {<<p, 2>>, <<p, 3>>}),
     Contended({<<p, 2>>}, 2), Contended({}, 3),
     Updating({<<p, 2>>, <<p, 0>>}, 0, {1, 2}), Updating({<<p, 2>>}, 1, {1})}

\* One scan after another, and nothing that goes wrong but the enumeration.
QuietMachines == {Evidential({"updates"}, {<<p, 2>>})}
=============================================================================
