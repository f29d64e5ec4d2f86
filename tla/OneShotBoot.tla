---------------------------- MODULE OneShotBoot ----------------------------
(***************************************************************************)
(* What the server promises about the destructive boot of an installation, *)
(* without machines, requests or a database (docs/adr/0005): an armed      *)
(* installation is handed to an installer at most once.  Spending the      *)
(* assignment creates the only token there will ever be for it; delivering *)
(* the payload or failing to deliver it destroys the token, and nothing    *)
(* brings it back.                                                         *)
(***************************************************************************)
EXTENDS Naturals

CONSTANT Installations

VARIABLES
    phase,      \* of each installation
    token,      \* the installations whose payload is being delivered
    delivered   \* how many times each payload was delivered

vars == <<phase, token, delivered>>

Phases == {"fresh", "idle", "armed", "spent", "cancelled", "deleted"}

TypeOK ==
    /\ phase \in [Installations -> Phases]
    /\ token \subseteq Installations
    /\ delivered \in [Installations -> Nat]

Init ==
    /\ phase = [i \in Installations |-> "fresh"]
    /\ token = {}
    /\ delivered = [i \in Installations |-> 0]

Move(i, from, to) ==
    /\ phase[i] \in from
    /\ phase' = [phase EXCEPT ![i] = to]

Create(i) == Move(i, {"fresh"}, "idle") /\ UNCHANGED <<token, delivered>>

Arm(i) == Move(i, {"idle"}, "armed") /\ UNCHANGED <<token, delivered>>

Cancel(i) == Move(i, {"armed"}, "cancelled") /\ UNCHANGED <<token, delivered>>

\* An armed installation cannot be deleted; a token outlives its installation.
Delete(i) ==
    Move(i, {"idle", "spent", "cancelled"}, "deleted") /\ UNCHANGED <<token, delivered>>

Spend(i) ==
    /\ Move(i, {"armed"}, "spent")
    /\ token' = token \cup {i}
    /\ UNCHANGED delivered

Deliver(i) ==
    /\ i \in token
    /\ token' = token \ {i}
    /\ delivered' = [delivered EXCEPT ![i] = @ + 1]
    /\ UNCHANGED phase

\* A response that cannot be written, or a server that stops.
Lose(lost) ==
    /\ lost \subseteq token
    /\ token' = token \ lost
    /\ UNCHANGED <<phase, delivered>>

Next ==
    \/ \E i \in Installations :
          Create(i) \/ Arm(i) \/ Cancel(i) \/ Delete(i) \/ Spend(i) \/ Deliver(i)
    \/ \E lost \in SUBSET Installations : Lose(lost)

Spec == Init /\ [][Next]_vars

=============================================================================
