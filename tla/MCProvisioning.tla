--------------------------- MODULE MCProvisioning ---------------------------
(***************************************************************************)
(* Provisioning with two requests in flight against one machine.           *)
(***************************************************************************)
EXTENDS Provisioning, TLC

CONSTANTS m1, i1, i2, d1, r1, r2

MCObservations == {{d1}}

Report(stage, source, key) ==
    [stage |-> stage, source |-> source, key |-> key,
     code |-> IF stage = "FAILED" THEN "E" ELSE "", body |-> "x"]

MCText ==
    {"", "server", "server:created", "server:queued", "server:pxe_booted",
     "f", "x", "E"} \cup Stages

\* What an installer can say right after the check-in.
ConcurrentReports == {Report("FAILED", "installer", "f")}

Symmetry == Permutations(Requests) \cup Permutations(Installations)
=============================================================================
