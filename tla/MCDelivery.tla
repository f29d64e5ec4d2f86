----------------------------- MODULE MCDelivery -----------------------------
(***************************************************************************)
(* Two installer versions, and the releases the archive may have signed.   *)
(***************************************************************************)
EXTENDS ArtifactDelivery

CONSTANTS v1, v2, i1, i2, old

Release(current, first, second) ==
    [current |-> current,
     manifests |-> [v \in Versions |-> IF v = v1 THEN first ELSE second]]

\* A first release, its successor, one whose current installer is listed under
\* two versions, one where it is listed under none.
MCReleases ==
    {Release(v1, v1, None), Release(v2, v1, v2), Release(v2, v2, v2), Release(v2, v1, None)}
=============================================================================
