--------------------------- MODULE MCOperatorAuth ---------------------------
(***************************************************************************)
(* Two identities, two requests at once.                                   *)
(***************************************************************************)
EXTENDS OperatorAuth, TLC

CONSTANTS u1, u2, r1, r2, f1, f2, f3, t1, s1, s2, s3

Symmetry ==
    Permutations(Users) \cup Permutations(Requests) \cup Permutations(Flows)
        \cup Permutations(Tickets) \cup Permutations(Sessions)
=============================================================================
