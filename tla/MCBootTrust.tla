---------------------------- MODULE MCBootTrust ----------------------------
(***************************************************************************)
(* Boot trust with two TPM keys and two challenges.                        *)
(***************************************************************************)
EXTENDS BootTrust, TLC

CONSTANTS m1, i1, i2, d1, k1, k2, c1, c2

MCText == {"", "server", "server:created", "server:queued", "server:pxe_booted",
           "f", "x", "E"}

MCReports ==
    {[stage |-> "FAILED", source |-> "installer", key |-> "f", code |-> "E", body |-> "x"]}

Symmetry ==
    Permutations(Keys) \cup Permutations(Challenges) \cup Permutations(Installations)
=============================================================================
