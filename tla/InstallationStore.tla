------------------------- MODULE InstallationStore -------------------------
(***************************************************************************)
(* The server's durable state, internal/store: machines and their          *)
(* identifiers, installation specs, one-shot assignments, lifecycle        *)
(* events, lifecycle credentials and the audit log.  The database has one  *)
(* connection (store.go, SetMaxOpenConns(1)) and every operation below is  *)
(* one transaction, so every action is one atomic step; a transaction that *)
(* is rejected rolls back and is a stuttering step.                        *)
(*                                                                         *)
(* Spec is the store under its most general client: any operation may be   *)
(* called at any time with any argument.  The modules that extend this one *)
(* add the handlers that decide which operation is called when.            *)
(***************************************************************************)
EXTENDS Lifecycle, FiniteSets

CONSTANTS
    Machines,       \* the machine ids idgen may hand out (bound: its size)
    Installations,  \* the installation ids idgen may hand out (bound: its size)
    Identifiers,    \* hardware identifiers (kind, value) of network hosts
    Observations,   \* the sets of identifiers hosts present together
    ObservedStates,   \* the Secure Boot states hosts report
    OperatorPolicies, \* the policies operators choose
    Text,           \* what idempotency keys, error codes and bodies may say
    Reports,        \* the lifecycle reports clients may send
    None            \* no machine, no row

ASSUME DomainAssumption ==
    /\ Machines \cap Installations = {}
    /\ Observations \subseteq (SUBSET Identifiers) \ {{}}

EventType ==
    [stage : Stages, source : Sources, key : Text, code : Text, body : Text]

Policies == {"pending", "local", "provision", "blocked"}
SecureBootStates == {"unknown", "enabled", "disabled", "setup_mode", "unsupported"}
AssignmentStates == {"none", "armed", "consumed", "cancelled"}
CredentialStates == {"none", "active", "expired", "revoked"}

\* A lifecycle event reported by a client is audited under its stage.
AuditTypes ==
    Stages \cup
    {"MACHINE_DISCOVERED", "MACHINE_SEEN", "MACHINE_POLICY_CHANGED",
     "INSTALLATION_CREATED", "INSTALLATION_ARMED", "ASSIGNMENT_CONSUMED",
     "ASSIGNMENT_CANCELLED", "BOOT_TRUST_KEY_DISCOVERED", "BOOT_TRUST_KEY_APPROVED",
     "BOOT_TRUST_KEY_REVOKED", "BOOT_TRUST_VERIFIED", "DELETED"}

ASSUME NoneAssumption == None \notin Machines \cup Installations \cup Policies

ASSUME InputAssumption ==
    /\ ObservedStates \subseteq SecureBootStates
    /\ OperatorPolicies \subseteq Policies
    /\ Reports \subseteq EventType
    /\ {"", "server", "server:created", "server:queued", "server:pxe_booted"} \subseteq Text

VARIABLES
    policy,         \* machines.policy; None when there is no such row
    secureBoot,     \* machines.secure_boot_state, the last observation
    owner,          \* machine_identifiers: the machine of each identifier
    specMachine,    \* installation_specs.machine_id
    assignment,     \* installation_assignments.state
    asgMachine,     \* installation_assignments.machine_id
    events,         \* installation_lifecycle_events in sequence order
    credential,     \* installation_lifecycle_credentials
    audit           \* the events table, as a set of <<entity, event type>>

machineVars == <<policy, secureBoot, owner>>
assignmentVars == <<assignment, asgMachine>>
storeVars == <<policy, secureBoot, owner, specMachine, assignment, asgMachine,
               events, credential, audit>>

\* The schema: the tables, the values their CHECK constraints allow.
TypeOK ==
    /\ policy \in [Machines -> Policies \cup {None}]
    /\ secureBoot \in [Machines -> SecureBootStates \cup {None}]
    /\ owner \in [Identifiers -> Machines \cup {None}]
    /\ specMachine \in [Installations -> Machines \cup {None}]
    /\ assignment \in [Installations -> AssignmentStates]
    /\ asgMachine \in [Installations -> Machines \cup {None}]
    /\ events \in [Installations -> Seq(EventType)]
    /\ credential \in [Installations -> CredentialStates]
    /\ audit \subseteq (Machines \cup Installations) \X AuditTypes

Init ==
    /\ policy = [m \in Machines |-> None]
    /\ secureBoot = [m \in Machines |-> None]
    /\ owner = [d \in Identifiers |-> None]
    /\ specMachine = [i \in Installations |-> None]
    /\ assignment = [i \in Installations |-> "none"]
    /\ asgMachine = [i \in Installations |-> None]
    /\ events = [i \in Installations |-> <<>>]
    /\ credential = [i \in Installations |-> "none"]
    /\ audit = {}

(***************************************************************************)
(* Reads.                                                                  *)
(***************************************************************************)
MachineExists(m) == m \in Machines /\ policy[m] # None

SpecExists(i) == specMachine[i] # None

\* The deletion row outlives the entity, and idgen never repeats an id.
Deleted(x) == <<x, "DELETED">> \in audit

Fresh(x) == ~Deleted(x) /\ IF x \in Machines THEN policy[x] = None
                                             ELSE specMachine[x] = None

CurrentStage(i) ==
    IF events[i] = <<>> THEN NoStage ELSE events[i][Len(events[i])].stage

\* Faulty variant: only the latest event is looked at.
KeyTaken_LastOnly(i, key) == \E k \in {Len(events[i])} \ {0} : events[i][k].key = key

KeyTaken(i, key) == \E k \in DOMAIN events[i] : events[i][k].key = key

\* The row a retry with the same key is compared with is the same row.
Duplicate(i, report) ==
    /\ ReportValid(report)
    /\ \E k \in DOMAIN events[i] : events[i][k] = report

\* Faulty variant: the stage is not compared with the current one.
Accepts_AnyOrder(i, report) ==
    ReportValid(report) /\ SpecExists(i) /\ ~KeyTaken(i, report.key)

Accepts(i, report) ==
    /\ ReportValid(report)
    /\ SpecExists(i)
    /\ ~KeyTaken(i, report.key)
    /\ CanAdvance(CurrentStage(i), report.stage)

\* Faulty variant: installations are not counted.
NoSpecs_Unchecked(m) == TRUE

NoSpecs(m) == \A i \in Installations : specMachine[i] # m

\* Faulty variant: only consumed assignments are counted.
NoneArmed_Consumed(m) ==
    \A i \in Installations : ~(asgMachine[i] = m /\ assignment[i] = "consumed")

NoneArmed(m) ==
    \A i \in Installations : ~(asgMachine[i] = m /\ assignment[i] = "armed")

NeverAssigned(i) == assignment[i] = "none"

IsArmed(i) == assignment[i] = "armed"

(***************************************************************************)
(* The audit log: every transaction adds its row, and a deletion replaces  *)
(* the rows of what it deletes by one row of the system's.                 *)
(***************************************************************************)
Audited(x, type) == audit \cup {<<x, type>>}

\* Faulty variant: the rows of the deleted entity are kept.
AuditedDeletion_KeepsRows(x) == audit \cup {<<x, "DELETED">>}

AuditedDeletion(x) == {e \in audit : e[1] # x} \cup {<<x, "DELETED">>}

(***************************************************************************)
(* Machines.                                                               *)
(***************************************************************************)
\* Faulty variants: a new machine is approved at once; it has no policy.
InitialPolicy_Provision == "provision"
InitialPolicy_Empty == ""

InitialPolicy == "pending"

Matches(obs) == {owner[d] : d \in obs} \ {None}

DiscoverMachine(obs, state, m) ==
    /\ \/ /\ Matches(obs) = {}
          /\ Fresh(m)
          /\ policy' = [policy EXCEPT ![m] = InitialPolicy]
          /\ audit' = Audited(m, "MACHINE_DISCOVERED")
       \/ /\ Matches(obs) = {m}
          /\ audit' = Audited(m, "MACHINE_SEEN")
          /\ UNCHANGED policy
    /\ secureBoot' = [secureBoot EXCEPT ![m] = state]
    /\ owner' = [d \in Identifiers |->
                    IF d \in obs /\ owner[d] = None THEN m ELSE owner[d]]
    /\ UNCHANGED <<specMachine, assignmentVars, events, credential>>

SetMachinePolicy(m, p) ==
    /\ MachineExists(m)
    /\ policy[m] # p
    /\ policy' = [policy EXCEPT ![m] = p]
    /\ audit' = Audited(m, "MACHINE_POLICY_CHANGED")
    /\ UNCHANGED <<secureBoot, owner, specMachine, assignmentVars, events, credential>>

\* The identifiers go with the row (ON DELETE CASCADE).
DeleteMachine(m) ==
    /\ MachineExists(m)
    /\ NoSpecs(m)
    /\ NoneArmed(m)
    /\ policy' = [policy EXCEPT ![m] = None]
    /\ secureBoot' = [secureBoot EXCEPT ![m] = None]
    /\ owner' = [d \in Identifiers |-> IF owner[d] = m THEN None ELSE owner[d]]
    /\ audit' = AuditedDeletion(m)
    /\ UNCHANGED <<specMachine, assignmentVars, events, credential>>

(***************************************************************************)
(* Lifecycle events.                                                       *)
(***************************************************************************)
ServerKey(stage) ==
    IF stage = "CREATED" THEN "server:created"
    ELSE IF stage = "QUEUED" THEN "server:queued"
    ELSE "server:pxe_booted"

ServerEvent(stage) ==
    [stage |-> stage, source |-> "server", key |-> ServerKey(stage),
     code |-> "", body |-> "server"]

\* Faulty variant: the new event takes the place of the latest one.
WithEvent_Overwrite(i, event) ==
    [events EXCEPT ![i] = IF @ = <<>> THEN <<event>> ELSE [@ EXCEPT ![Len(@)] = event]]

WithEvent(i, event) == [events EXCEPT ![i] = Append(@, event)]

\* Inside the transaction of CreateInstallationSpec and ArmInstallation: the
\* events of installation i after the server's own event.
CanRecordServer(i, stage) ==
    IF KeyTaken(i, ServerKey(stage))
    THEN \E k \in DOMAIN events[i] :
            events[i][k].key = ServerKey(stage) /\ events[i][k].stage = stage
    ELSE CanAdvance(CurrentStage(i), stage)

AppendServerLifecycleEvent(i, stage) ==
    /\ CanRecordServer(i, stage)
    /\ events' = IF KeyTaken(i, ServerKey(stage)) THEN events
                 ELSE WithEvent(i, ServerEvent(stage))

\* A terminal stage revokes the credential whatever its expiry.
AppendLifecycleEvent(i, report) ==
    /\ Accepts(i, report)
    /\ events' = WithEvent(i, report)
    /\ audit' = Audited(i, report.stage)
    /\ credential' =
            IF Terminal(report.stage) /\ credential[i] # "none"
            THEN [credential EXCEPT ![i] = "revoked"]
            ELSE credential
    /\ UNCHANGED <<machineVars, specMachine, assignmentVars>>

(***************************************************************************)
(* Installations and their assignments.                                    *)
(***************************************************************************)
\* The machine is looked up before the transaction; the foreign key checks it
\* again at the insert, and a machine id never comes back.
CreateInstallationSpec(i, m) ==
    /\ Fresh(i)
    /\ MachineExists(m)
    /\ specMachine' = [specMachine EXCEPT ![i] = m]
    /\ AppendServerLifecycleEvent(i, "CREATED")
    /\ audit' = Audited(i, "INSTALLATION_CREATED")
    /\ UNCHANGED <<machineVars, assignmentVars, credential>>

ArmInstallation(m, i) ==
    /\ MachineExists(m)
    /\ policy[m] = "provision"
    /\ specMachine[i] = m
    /\ NeverAssigned(i)
    /\ NoneArmed(m)
    /\ assignment' = [assignment EXCEPT ![i] = "armed"]
    /\ asgMachine' = [asgMachine EXCEPT ![i] = m]
    /\ AppendServerLifecycleEvent(i, "QUEUED")
    /\ audit' = Audited(i, "INSTALLATION_ARMED")
    /\ UNCHANGED <<machineVars, specMachine, credential>>

CancelAssignment(i) ==
    /\ IsArmed(i)
    /\ assignment' = [assignment EXCEPT ![i] = "cancelled"]
    /\ audit' = Audited(i, "ASSIGNMENT_CANCELLED")
    /\ UNCHANGED <<machineVars, specMachine, asgMachine, events, credential>>

ConsumeAssignment(i) ==
    /\ IsArmed(i)
    /\ assignment' = [assignment EXCEPT ![i] = "consumed"]
    /\ audit' = Audited(i, "ASSIGNMENT_CONSUMED")
    /\ UNCHANGED <<machineVars, specMachine, asgMachine, events, credential>>

DeleteInstallation(i) ==
    /\ SpecExists(i)
    /\ ~IsArmed(i)
    /\ specMachine' = [specMachine EXCEPT ![i] = None]
    /\ assignment' = [assignment EXCEPT ![i] = "none"]
    /\ asgMachine' = [asgMachine EXCEPT ![i] = None]
    /\ events' = [events EXCEPT ![i] = <<>>]
    /\ credential' = [credential EXCEPT ![i] = "none"]
    /\ audit' = AuditedDeletion(i)
    /\ UNCHANGED machineVars

(***************************************************************************)
(* The lifecycle credential.  CompleteBootTrustChallenge is the only code  *)
(* that issues one; this is what its transaction does to the tables above, *)
(* under the checks it makes on them (the proof itself is BootTrust's).    *)
(***************************************************************************)
ReleaseCredential(i) ==
    /\ SpecExists(i)
    /\ assignment[i] \notin {"none", "cancelled"}
    /\ policy[specMachine[i]] = "provision"
    /\ credential[i] = "none"
    /\ credential' = [credential EXCEPT ![i] = "active"]
    /\ audit' = Audited(i, "BOOT_TRUST_VERIFIED")
    /\ UNCHANGED <<machineVars, specMachine, assignmentVars, events>>

\* The credential's lifetime passes (expires_at against the server's clock).
ExpireCredential(i) ==
    /\ credential[i] = "active"
    /\ credential' = [credential EXCEPT ![i] = "expired"]
    /\ UNCHANGED <<machineVars, specMachine, assignmentVars, events, audit>>

MachineOperation ==
    \E m \in Machines :
        \/ \E obs \in Observations, state \in ObservedStates :
              DiscoverMachine(obs, state, m)
        \/ \E p \in OperatorPolicies : SetMachinePolicy(m, p)
        \/ DeleteMachine(m)
        \/ \E i \in Installations :
              CreateInstallationSpec(i, m) \/ ArmInstallation(m, i)

InstallationOperation ==
    \E i \in Installations :
        \/ CancelAssignment(i)
        \/ ConsumeAssignment(i)
        \/ DeleteInstallation(i)
        \/ ReleaseCredential(i)
        \/ ExpireCredential(i)
        \/ \E report \in Reports \cup {ServerEvent("PXE_BOOTED")} :
              AppendLifecycleEvent(i, report)

Next == MachineOperation \/ InstallationOperation

Spec == Init /\ [][Next]_storeVars

(***************************************************************************)
(* Properties of the store under every client.                             *)
(***************************************************************************)

\* Rows only refer to rows that exist, across every order of create, arm,
\* delete and rediscovery: identifiers and specs name existing machines, an
\* assignment names the machine of its spec, a registered machine keeps an
\* identifier (or the next boot would register the host twice), and an installation without a
\* spec has left nothing behind (deletion.go removes every dependent table).
ReferentialIntegrity ==
    /\ \A d \in Identifiers : owner[d] # None => MachineExists(owner[d])
    /\ \A m \in Machines : MachineExists(m) => \E d \in Identifiers : owner[d] = m
    /\ \A i \in Installations :
        /\ SpecExists(i) => MachineExists(specMachine[i])
        /\ assignment[i] # "none" => SpecExists(i) /\ asgMachine[i] = specMachine[i]
        /\ ~SpecExists(i) => /\ assignment[i] = "none"
                             /\ asgMachine[i] = None
                             /\ events[i] = <<>>
                             /\ credential[i] = "none"

\* A machine never has two installations armed at once, so the destructive
\* installation its next boot runs is unambiguous (assignments.go and the
\* partial unique index of schema.go).
OneArmedPerMachine ==
    \A i, j \in Installations :
        /\ assignment[i] = "armed"
        /\ assignment[j] = "armed"
        /\ asgMachine[i] = asgMachine[j]
        => i = j

\* The recorded history of an installation is a path of CanAdvance that
\* starts at CREATED: no retry, reordering or race skips or repeats a stage.
LifecycleOrdered ==
    \A i \in Installations :
        /\ SpecExists(i) => events[i] # <<>> /\ events[i][1].stage = "CREATED"
        /\ \A k \in 1 .. Len(events[i]) - 1 :
              CanAdvance(events[i][k].stage, events[i][k + 1].stage)

\* Each idempotency key names one event of an installation, so that a retry
\* has exactly one answer (UNIQUE(installation_id, idempotency_key)).
KeysIdentifyEvents ==
    \A i \in Installations : \A j, k \in DOMAIN events[i] :
        events[i][j].key = events[i][k].key => j = k

\* A machine only becomes provisionable through an audited policy change, and
\* loses it with its row: a rediscovered machine starts at pending.
ApprovalIsAudited ==
    \A m \in Machines :
        policy[m] \notin {"pending", None} =>
            <<m, "MACHINE_POLICY_CHANGED">> \in audit

\* The audit log agrees with the scheduling state: an assignment is armed,
\* consumed or cancelled exactly as its rows of the audit log say, until the
\* installation is deleted.
AuditAgrees ==
    \A i \in Installations :
        /\ SpecExists(i) <=> <<i, "INSTALLATION_CREATED">> \in audit
        /\ assignment[i] # "none" <=> <<i, "INSTALLATION_ARMED">> \in audit
        /\ assignment[i] = "consumed" <=> <<i, "ASSIGNMENT_CONSUMED">> \in audit
        /\ assignment[i] = "cancelled" <=> <<i, "ASSIGNMENT_CANCELLED">> \in audit

\* History is append-only: a step keeps every recorded event of every
\* installation as it is, unless it deletes the installation for good.
HistoryIsAppendOnly ==
    [][\A i \in Installations :
          \/ /\ Len(events'[i]) >= Len(events[i])
             /\ \A k \in DOMAIN events[i] : events'[i][k] = events[i][k]
          \/ <<i, "DELETED">> \in audit']_storeVars

\* An assignment is one-shot: from armed it goes to consumed or cancelled,
\* neither of which it leaves, and it goes with its installation.
AssignmentIsOneShot ==
    [][\A i \in Installations :
          \/ assignment'[i] = assignment[i]
          \/ assignment[i] = "none" /\ assignment'[i] = "armed" /\ ~Deleted(i)
          \/ assignment[i] = "armed" /\ assignment'[i] \in {"consumed", "cancelled"}
          \/ assignment[i] \in {"consumed", "cancelled"} /\ ~SpecExists(i)']_storeVars

=============================================================================
