------------------------------ MODULE MCStore ------------------------------
(***************************************************************************)
(* The store on its own: two machine ids, two installation ids, hosts that *)
(* share an identifier, and reports that retry, conflict and skip.         *)
(***************************************************************************)
EXTENDS InstallationStore, TLC

CONSTANTS m1, m2, i1, i2, d1, d2

MCObservations == {{d1}, {d2}, {d1, d2}}

Report(stage, source, key, body) ==
    [stage |-> stage, source |-> source, key |-> key,
     code |-> IF stage = "FAILED" THEN "E" ELSE "", body |-> body]

MCText == {"", "server", "server:created", "server:queued", "server:pxe_booted",
           "a", "b", "x", "y", "E"}

MCReports ==
    {Report("INSTALLER_STARTED", "installer", "a", "x"),
     Report("INSTALLER_STARTED", "installer", "b", "x"),
     Report("DISK_PREPARATION", "installer", "a", "y"),
     Report("FAILED", "installer", "b", "x")}

\* Nothing tells ids or identifiers apart, and every property is one of safety.
Symmetry ==
    Permutations(Machines) \cup Permutations(Installations) \cup Permutations(Identifiers)

=============================================================================
