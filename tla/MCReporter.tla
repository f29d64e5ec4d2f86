----------------------------- MODULE MCReporter -----------------------------
(***************************************************************************)
(* One installation, from its handoff to the second start of its           *)
(* first-boot unit.                                                        *)
(***************************************************************************)
EXTENDS Reporter

CONSTANTS m1, i1, d1

MCStamps == {"t1", "t2"}

\* An installation that gets through, and one that does not.
MCRuns == {<<"os-install", "sensitive", "profile">>, <<"os-install", "base-failed">>}

MCText ==
    {"", "server", "server:created", "server:queued", "server:pxe_booted"} \cup MCStamps
        \cup Stages \cup Lines \cup Range(ValidatorKey)
        \cup {NoTPMFailure, FirstBootFailure}

=============================================================================
