----------------------------- MODULE MCLimiter ------------------------------
(***************************************************************************)
(* Three hosts and a table for two of them, swept from one on.             *)
(***************************************************************************)
EXTENDS DiscoveryLimiter, TLC

CONSTANTS c1, c2, c3

Symmetry == Permutations(Clients)
=============================================================================
