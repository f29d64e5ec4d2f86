------------------------------ MODULE MCServer ------------------------------
(***************************************************************************)
(* One server with one machine, one installation and one request at a time.*)
(***************************************************************************)
EXTENDS ServerProcess

CONSTANTS m1, i1, d1, r1, k1, k2

MCObservations == {{d1}}

Report(stage, source) ==
    [stage |-> stage, source |-> source, key |-> stage,
     code |-> IF stage = "FAILED" THEN "E" ELSE "", body |-> "x"]

MCText ==
    {"", "server", "server:created", "server:queued", "server:pxe_booted",
     "x", "E"} \cup Stages

\* An installation that gets as far as the installer and fails there.
MCReports == {Report(s, "installer") : s \in {"INSTALLER_STARTED", "FAILED"}}
=============================================================================
