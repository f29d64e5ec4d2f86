---------------------- MODULE InstallationStoreProofs ----------------------
(***************************************************************************)
(* Proofs about the store for every number of machines, installations,     *)
(* identifiers and reports, and for every client: the theorems hold of any *)
(* handlers that go through the store's operations.                        *)
(***************************************************************************)
EXTENDS InstallationStore, SequenceTheorems, TLAPS

(***************************************************************************)
(* Facts about lifecycle events.                                           *)
(***************************************************************************)

\* The server's own events are events of the schema's type.
LEMMA ServerEventType ==
    ASSUME NEW stage \in ServerStages
    PROVE  ServerEvent(stage) \in EventType
  BY InputAssumption DEF ServerEvent, ServerKey, EventType, ServerStages, Stages, Sources

\* NO_STAGE is not a stage, so an installation with events has a stage.
LEMMA NoStageIsNoStage == NoStage \notin Stages
  BY DEF NoStage, Stages, ServerStages, InstallerStages, TerminalStages

\* A first event can only be one of the server's.
LEMMA FirstStage ==
    ASSUME NEW stage, CanAdvance(NoStage, stage)
    PROVE  stage \in ServerStages
  BY NoStageIsNoStage DEF CanAdvance, MayFail

\* Every advance makes progress, so no stage is ever entered twice.
LEMMA AdvanceIncreasesRank ==
    ASSUME NEW s \in Stages, NEW t \in Stages, CanAdvance(s, t)
    PROVE  Rank[s] < Rank[t]
  <1>1. s # NoStage
    BY NoStageIsNoStage
  <1>2. CASE s \in MayFail /\ t = "FAILED"
    BY <1>2 DEF MayFail, Rank, Stages, ServerStages, InstallerStages, TerminalStages
  <1>3. CASE t \in Successors[s]
    BY <1>3 DEF Successors, Rank, Stages, ServerStages, InstallerStages, TerminalStages
  <1>4. QED
    BY <1>1, <1>2, <1>3 DEF CanAdvance

(***************************************************************************)
(* Type correctness.                                                       *)
(***************************************************************************)

AuditType == audit \subseteq (Machines \cup Installations) \X AuditTypes

\* A new row is well-typed when its entity and its type are.
LEMMA AuditedTyped ==
    ASSUME AuditType, NEW x \in Machines \cup Installations, NEW type \in AuditTypes,
           audit' = Audited(x, type)
    PROVE  AuditType'
  BY DEF AuditType, Audited

\* So is what a deletion leaves.
LEMMA AuditedDeletionTyped ==
    ASSUME AuditType, NEW x \in Machines \cup Installations, audit' = AuditedDeletion(x)
    PROVE  AuditType'
  <1>1. "DELETED" \in AuditTypes
    BY DEF AuditTypes
  <1>2. QED
    BY <1>1 DEF AuditType, AuditedDeletion

\* The server's events keep the event table well-typed.
LEMMA ServerAppendTyped ==
    ASSUME TypeOK, NEW i \in Installations, NEW stage \in ServerStages,
           AppendServerLifecycleEvent(i, stage)
    PROVE  events' \in [Installations -> Seq(EventType)]
  <1>1. ServerEvent(stage) \in EventType
    BY ServerEventType
  <1>2. WithEvent(i, ServerEvent(stage)) \in [Installations -> Seq(EventType)]
    BY <1>1 DEF TypeOK, WithEvent
  <1>3. QED
    BY <1>2 DEF AppendServerLifecycleEvent, TypeOK

\* Each step keeps the tables well-typed: the CHECK constraints of schema.go
\* never reject what the operations write.
LEMMA TypeStep ==
    ASSUME TypeOK, [Next]_storeVars
    PROVE  TypeOK'
  <1> USE DomainAssumption, NoneAssumption
  <1>a. AuditType
    BY DEF TypeOK, AuditType
  <1>1. ASSUME NEW m \in Machines, NEW obs \in Observations,
               NEW state \in ObservedStates, DiscoverMachine(obs, state, m)
        PROVE  TypeOK'
    <2>1. AuditType'
      BY <1>a, <1>1, AuditedTyped DEF DiscoverMachine, AuditTypes
    <2>2. /\ policy' \in [Machines -> Policies \cup {None}]
          /\ secureBoot' \in [Machines -> SecureBootStates \cup {None}]
          /\ owner' \in [Identifiers -> Machines \cup {None}]
      BY <1>1, InputAssumption DEF TypeOK, DiscoverMachine, InitialPolicy, Policies
    <2>3. UNCHANGED <<specMachine, assignment, asgMachine, events, credential>>
      BY <1>1 DEF DiscoverMachine, assignmentVars
    <2>4. QED
      BY <2>1, <2>2, <2>3 DEF TypeOK, AuditType
  <1>2. ASSUME NEW m \in Machines, NEW p \in OperatorPolicies, SetMachinePolicy(m, p)
        PROVE  TypeOK'
    <2>1. AuditType'
      BY <1>a, <1>2, AuditedTyped DEF SetMachinePolicy, AuditTypes
    <2>2. QED
      BY <1>2, <2>1, InputAssumption DEF TypeOK, AuditType, SetMachinePolicy, assignmentVars
  <1>3. ASSUME NEW m \in Machines, DeleteMachine(m)
        PROVE  TypeOK'
    <2>1. AuditType'
      BY <1>a, <1>3, AuditedDeletionTyped DEF DeleteMachine
    <2>2. QED
      BY <1>3, <2>1 DEF TypeOK, AuditType, DeleteMachine, assignmentVars
  <1>4. ASSUME NEW m \in Machines, NEW i \in Installations, CreateInstallationSpec(i, m)
        PROVE  TypeOK'
    <2>1. AuditType'
      BY <1>a, <1>4, AuditedTyped DEF CreateInstallationSpec, AuditTypes
    <2>2. events' \in [Installations -> Seq(EventType)]
      BY <1>4, ServerAppendTyped DEF CreateInstallationSpec, ServerStages
    <2>3. QED
      BY <1>4, <2>1, <2>2
      DEF TypeOK, AuditType, CreateInstallationSpec, machineVars, assignmentVars
  <1>5. ASSUME NEW m \in Machines, NEW i \in Installations, ArmInstallation(m, i)
        PROVE  TypeOK'
    <2>1. AuditType'
      BY <1>a, <1>5, AuditedTyped DEF ArmInstallation, AuditTypes
    <2>2. events' \in [Installations -> Seq(EventType)]
      BY <1>5, ServerAppendTyped DEF ArmInstallation, ServerStages
    <2>3. QED
      BY <1>5, <2>1, <2>2
      DEF TypeOK, AuditType, ArmInstallation, machineVars, AssignmentStates
  <1>6. ASSUME NEW i \in Installations, CancelAssignment(i) \/ ConsumeAssignment(i)
        PROVE  TypeOK'
    <2>1. AuditType'
      BY <1>a, <1>6, AuditedTyped DEF CancelAssignment, ConsumeAssignment, AuditTypes
    <2>2. QED
      BY <1>6, <2>1 DEF TypeOK, AuditType, CancelAssignment, ConsumeAssignment,
         machineVars, AssignmentStates
  <1>7. ASSUME NEW i \in Installations, DeleteInstallation(i)
        PROVE  TypeOK'
    <2>1. AuditType'
      BY <1>a, <1>7, AuditedDeletionTyped DEF DeleteInstallation
    <2>2. QED
      BY <1>7, <2>1 DEF TypeOK, AuditType, DeleteInstallation, machineVars,
         AssignmentStates, CredentialStates
  <1>8. ASSUME NEW i \in Installations, ReleaseCredential(i) \/ ExpireCredential(i)
        PROVE  TypeOK'
    <2>1. AuditType'
      BY <1>a, <1>8, AuditedTyped
      DEF ReleaseCredential, ExpireCredential, AuditTypes, AuditType
    <2>2. QED
      BY <1>8, <2>1 DEF TypeOK, AuditType, ReleaseCredential, ExpireCredential,
         machineVars, assignmentVars, CredentialStates
  <1>9. ASSUME NEW i \in Installations,
               NEW report \in Reports \cup {ServerEvent("PXE_BOOTED")},
               AppendLifecycleEvent(i, report)
        PROVE  TypeOK'
    <2>1. report \in EventType
      BY ServerEventType, InputAssumption DEF ServerStages
    <2>2. WithEvent(i, report) \in [Installations -> Seq(EventType)]
      BY <2>1 DEF TypeOK, WithEvent
    <2>3. report.stage \in AuditTypes
      BY <2>1 DEF AuditTypes, EventType
    <2>4. AuditType'
      BY <1>a, <1>9, <2>3, AuditedTyped DEF AppendLifecycleEvent
    <2>5. credential' \in [Installations -> CredentialStates]
      BY <1>9 DEF TypeOK, AppendLifecycleEvent, CredentialStates
    <2>6. QED
      BY <1>9, <2>2, <2>4, <2>5
      DEF TypeOK, AuditType, AppendLifecycleEvent, machineVars, assignmentVars
  <1>10. CASE UNCHANGED storeVars
    BY <1>10 DEF TypeOK, storeVars
  <1>11. QED
    BY <1>1, <1>2, <1>3, <1>4, <1>5, <1>6, <1>7, <1>8, <1>9, <1>10
    DEF Next, MachineOperation, InstallationOperation

\* The store's tables are always well-typed.
THEOREM StoreTyped == Spec => []TypeOK
  <1>1. Init => TypeOK
    BY DEF Init, TypeOK, AssignmentStates, CredentialStates
  <1>2. QED
    BY <1>1, TypeStep, PTL DEF Spec

(***************************************************************************)
(* Referential integrity and the one armed assignment of a machine.        *)
(***************************************************************************)

\* Every operation keeps the rows consistent with one another.
LEMMA ReferentialStep ==
    ASSUME TypeOK, ReferentialIntegrity, [Next]_storeVars
    PROVE  ReferentialIntegrity'
  <1> USE DomainAssumption, NoneAssumption DEF MachineExists, SpecExists
  <1>1. ASSUME NEW m \in Machines, NEW obs \in Observations,
               NEW state \in ObservedStates, DiscoverMachine(obs, state, m)
        PROVE  ReferentialIntegrity'
    <2>1. policy' \in [Machines -> Policies \cup {None}] /\ policy'[m] # None
      <3>1. CASE Matches(obs) = {}
        BY <1>1, <3>1, InputAssumption
        DEF TypeOK, DiscoverMachine, InitialPolicy, Policies
      <3>2. CASE Matches(obs) = {m}
        <4>1. PICK d \in obs : owner[d] = m
          BY <3>2 DEF Matches
        <4>2. d \in Identifiers
          BY <4>1
        <4>3. QED
          BY <1>1, <3>2, <4>1, <4>2 DEF TypeOK, ReferentialIntegrity, DiscoverMachine
      <3>3. QED
        BY <1>1, <3>1, <3>2 DEF DiscoverMachine
    <2>2. \A n \in Machines : n # m => policy'[n] = policy[n]
      BY <1>1 DEF TypeOK, DiscoverMachine
    <2>3. \A d \in Identifiers : owner'[d] \in {owner[d], m}
      BY <1>1 DEF DiscoverMachine
    <2>4. \A d \in Identifiers : owner[d] # None => owner'[d] = owner[d]
      BY <1>1 DEF DiscoverMachine
    <2>5. \E d \in Identifiers : owner'[d] = m
      <3>1. PICK d \in obs : d \in Identifiers
        OBVIOUS
      <3>2. CASE Matches(obs) = {}
        BY <1>1, <3>1, <3>2 DEF DiscoverMachine, Matches
      <3>3. CASE Matches(obs) = {m}
        <4>1. PICK e \in obs : owner[e] = m
          BY <3>3 DEF Matches
        <4>2. QED
          BY <2>4, <4>1
      <3>4. QED
        BY <1>1, <3>2, <3>3 DEF DiscoverMachine
    <2>6. UNCHANGED <<specMachine, assignment, asgMachine, events, credential>>
      BY <1>1 DEF DiscoverMachine, assignmentVars
    <2>7. \A n \in Machines : policy[n] # None => policy'[n] # None
      BY <2>1, <2>2
    <2>8. QED
      <3>1. \A d \in Identifiers :
               owner'[d] # None => owner'[d] \in Machines /\ policy'[owner'[d]] # None
        BY <2>1, <2>3, <2>7 DEF TypeOK, ReferentialIntegrity
      <3>2. \A n \in Machines :
               policy'[n] # None => \E d \in Identifiers : owner'[d] = n
        <4>1. SUFFICES ASSUME NEW n \in Machines, policy'[n] # None, n # m
                       PROVE  \E d \in Identifiers : owner'[d] = n
          BY <2>5
        <4>2. PICK d \in Identifiers : owner[d] = n
          BY <2>2, <4>1 DEF ReferentialIntegrity
        <4>3. QED
          BY <2>4, <4>2
      <3>3. \A i \in Installations :
               specMachine'[i] # None =>
                  specMachine'[i] \in Machines /\ policy'[specMachine'[i]] # None
        BY <2>6, <2>7 DEF TypeOK, ReferentialIntegrity
      <3>4. QED
        BY <2>6, <3>1, <3>2, <3>3 DEF ReferentialIntegrity
  <1>2. ASSUME NEW m \in Machines, NEW p \in OperatorPolicies, SetMachinePolicy(m, p)
        PROVE  ReferentialIntegrity'
    <2>1. p # None
      BY InputAssumption
    <2>2. \A n \in Machines : policy'[n] = None <=> policy[n] = None
      BY <1>2, <2>1 DEF TypeOK, SetMachinePolicy
    <2>3. QED
      BY <1>2, <2>2 DEF TypeOK, ReferentialIntegrity, SetMachinePolicy, assignmentVars
  <1>3. ASSUME NEW m \in Machines, DeleteMachine(m)
        PROVE  ReferentialIntegrity'
    BY <1>3 DEF TypeOK, ReferentialIntegrity, DeleteMachine, NoSpecs, assignmentVars
  <1>4. ASSUME NEW m \in Machines, NEW i \in Installations, CreateInstallationSpec(i, m)
        PROVE  ReferentialIntegrity'
    <2>1. \A j \in Installations : j # i => events'[j] = events[j]
      BY <1>4 DEF TypeOK, CreateInstallationSpec, AppendServerLifecycleEvent, WithEvent
    <2>2. QED
      BY <1>4, <2>1 DEF TypeOK, ReferentialIntegrity, CreateInstallationSpec, Fresh,
         machineVars, assignmentVars
  <1>5. ASSUME NEW m \in Machines, NEW i \in Installations, ArmInstallation(m, i)
        PROVE  ReferentialIntegrity'
    <2>1. \A j \in Installations : j # i => events'[j] = events[j]
      BY <1>5 DEF TypeOK, ArmInstallation, AppendServerLifecycleEvent, WithEvent
    <2>2. QED
      BY <1>5, <2>1 DEF TypeOK, ReferentialIntegrity, ArmInstallation, machineVars
  <1>6. ASSUME NEW i \in Installations,
               CancelAssignment(i) \/ ConsumeAssignment(i) \/ DeleteInstallation(i)
        PROVE  ReferentialIntegrity'
    <2>1. CASE CancelAssignment(i)
      BY <2>1 DEF TypeOK, ReferentialIntegrity, CancelAssignment, IsArmed, machineVars
    <2>2. CASE ConsumeAssignment(i)
      BY <2>2 DEF TypeOK, ReferentialIntegrity, ConsumeAssignment, IsArmed, machineVars
    <2>3. CASE DeleteInstallation(i)
      BY <2>3 DEF TypeOK, ReferentialIntegrity, DeleteInstallation, machineVars
    <2>4. QED
      BY <1>6, <2>1, <2>2, <2>3
  <1>7. ASSUME NEW i \in Installations, ReleaseCredential(i) \/ ExpireCredential(i)
        PROVE  ReferentialIntegrity'
    BY <1>7 DEF TypeOK, ReferentialIntegrity, ReleaseCredential, ExpireCredential,
       machineVars, assignmentVars
  <1>8. ASSUME NEW i \in Installations,
               NEW report \in Reports \cup {ServerEvent("PXE_BOOTED")},
               AppendLifecycleEvent(i, report)
        PROVE  ReferentialIntegrity'
    BY <1>8 DEF TypeOK, ReferentialIntegrity, AppendLifecycleEvent, Accepts, WithEvent,
       machineVars, assignmentVars
  <1>9. CASE UNCHANGED storeVars
    BY <1>9 DEF ReferentialIntegrity, storeVars
  <1>10. QED
    BY <1>1, <1>2, <1>3, <1>4, <1>5, <1>6, <1>7, <1>8, <1>9
    DEF Next, MachineOperation, InstallationOperation

\* Only ArmInstallation arms, and it looks for an armed assignment first.
LEMMA OneArmedStep ==
    ASSUME TypeOK, ReferentialIntegrity, OneArmedPerMachine, [Next]_storeVars
    PROVE  OneArmedPerMachine'
  <1>1. ASSUME NEW m \in Machines, NEW i \in Installations, ArmInstallation(m, i)
        PROVE  OneArmedPerMachine'
    BY <1>1 DEF TypeOK, OneArmedPerMachine, ArmInstallation, NoneArmed
  <1>2. ASSUME NEW i \in Installations,
               CancelAssignment(i) \/ ConsumeAssignment(i) \/ DeleteInstallation(i)
        PROVE  OneArmedPerMachine'
    BY <1>2 DEF TypeOK, OneArmedPerMachine, CancelAssignment, ConsumeAssignment,
       DeleteInstallation
  <1>3. CASE UNCHANGED assignmentVars
    BY <1>3 DEF OneArmedPerMachine, assignmentVars
  <1>4. QED
    BY <1>1, <1>2, <1>3 DEF Next, MachineOperation, InstallationOperation, storeVars,
       assignmentVars, DiscoverMachine, SetMachinePolicy, DeleteMachine,
       CreateInstallationSpec, ReleaseCredential, ExpireCredential, AppendLifecycleEvent

(***************************************************************************)
(* Lifecycle history.  EventsStep says all there is to say about what one  *)
(* step does to the events of one installation; the invariants on them     *)
(* follow from it without looking at the actions again.                    *)
(***************************************************************************)

\* A step that adds e to the history of i.
Extends(i, e) ==
    /\ events'[i] = Append(events[i], e)
    /\ specMachine[i] # None /\ specMachine'[i] # None
    /\ ~KeyTaken(i, e.key)
    /\ CanAdvance(CurrentStage(i), e.stage)

EventStep(i) ==
    \/ events'[i] = events[i] /\ (specMachine'[i] = None <=> specMachine[i] = None)
    \/ events'[i] = <<>> /\ specMachine'[i] = None /\ <<i, "DELETED">> \in audit'
    \/ \E e \in EventType : Extends(i, e)
    \/ specMachine[i] = None /\ events[i] = <<>> /\ events'[i] = <<ServerEvent("CREATED")>>

\* Every operation extends a history by one acceptable event, starts it, drops
\* it with its installation, or leaves it alone.
LEMMA EventsStep ==
    ASSUME TypeOK, ReferentialIntegrity, [Next]_storeVars, NEW i \in Installations
    PROVE  EventStep(i)
  <1> USE DomainAssumption, NoneAssumption DEF SpecExists
  <1>1. ASSUME NEW m \in Machines, NEW j \in Installations, CreateInstallationSpec(j, m)
        PROVE  EventStep(i)
    <2>1. CASE i # j
      BY <1>1, <2>1 DEF TypeOK, CreateInstallationSpec, AppendServerLifecycleEvent,
         WithEvent, EventStep
    <2>2. CASE i = j
      <3>1. specMachine[i] = None /\ events[i] = <<>>
        BY <1>1, <2>2 DEF ReferentialIntegrity, CreateInstallationSpec, Fresh
      <3>2. events' = WithEvent(i, ServerEvent("CREATED"))
        BY <1>1, <2>2, <3>1 DEF CreateInstallationSpec, AppendServerLifecycleEvent, KeyTaken
      <3>3. events'[i] = <<ServerEvent("CREATED")>>
        BY <3>1, <3>2 DEF TypeOK, WithEvent
      <3>4. QED
        BY <3>1, <3>3 DEF EventStep
    <2>3. QED
      BY <2>1, <2>2
  <1>2. ASSUME NEW m \in Machines, NEW j \in Installations, ArmInstallation(m, j)
        PROVE  EventStep(i)
    <2>1. specMachine' = specMachine /\ specMachine[j] # None
      BY <1>2 DEF ArmInstallation
    <2>2. CASE i # j \/ KeyTaken(j, ServerKey("QUEUED"))
      BY <1>2, <2>1, <2>2 DEF TypeOK, ArmInstallation, AppendServerLifecycleEvent,
         WithEvent, EventStep
    <2>3. CASE i = j /\ ~KeyTaken(j, ServerKey("QUEUED"))
      <3>1. ServerEvent("QUEUED") \in EventType
        BY ServerEventType DEF ServerStages
      <3>2. events'[i] = Append(events[i], ServerEvent("QUEUED"))
        BY <1>2, <2>3 DEF TypeOK, ArmInstallation, AppendServerLifecycleEvent, WithEvent
      <3>3. CanAdvance(CurrentStage(i), "QUEUED")
        BY <1>2, <2>3 DEF ArmInstallation, AppendServerLifecycleEvent, CanRecordServer
      <3>4. Extends(i, ServerEvent("QUEUED"))
        BY <2>1, <2>3, <3>2, <3>3 DEF Extends, ServerEvent
      <3>5. QED
        BY <3>1, <3>4 DEF EventStep
    <2>4. QED
      BY <2>2, <2>3
  <1>3. ASSUME NEW j \in Installations, DeleteInstallation(j)
        PROVE  EventStep(i)
    BY <1>3 DEF TypeOK, DeleteInstallation, AuditedDeletion, EventStep
  <1>4. ASSUME NEW j \in Installations,
               NEW report \in Reports \cup {ServerEvent("PXE_BOOTED")},
               AppendLifecycleEvent(j, report)
        PROVE  EventStep(i)
    <2>1. report \in EventType
      BY ServerEventType, InputAssumption DEF ServerStages
    <2>2. CASE i # j
      BY <1>4, <2>2 DEF TypeOK, AppendLifecycleEvent, WithEvent, EventStep
    <2>3. CASE i = j
      <3>1. Extends(i, report)
        BY <1>4, <2>3 DEF TypeOK, AppendLifecycleEvent, Accepts, WithEvent, Extends
      <3>2. QED
        BY <2>1, <3>1 DEF EventStep
    <2>4. QED
      BY <2>2, <2>3
  <1>5. CASE UNCHANGED <<events, specMachine>>
    BY <1>5 DEF EventStep
  <1>6. QED
    BY <1>1, <1>2, <1>3, <1>4, <1>5
    DEF Next, MachineOperation, InstallationOperation, storeVars, DiscoverMachine,
        SetMachinePolicy, DeleteMachine, CancelAssignment, ConsumeAssignment,
        ReleaseCredential, ExpireCredential

\* A history that is a path of CanAdvance from CREATED stays one.
LEMMA LifecycleStep ==
    ASSUME TypeOK, ReferentialIntegrity, LifecycleOrdered, [Next]_storeVars
    PROVE  LifecycleOrdered'
  <1> USE DEF SpecExists
  <1> SUFFICES ASSUME NEW i \in Installations
               PROVE  /\ specMachine'[i] # None =>
                            events'[i] # <<>> /\ events'[i][1].stage = "CREATED"
                      /\ \A k \in 1 .. Len(events'[i]) - 1 :
                            CanAdvance(events'[i][k].stage, events'[i][k + 1].stage)
    BY DEF LifecycleOrdered, CanAdvance
  <1>1. events[i] \in Seq(EventType)
    BY DEF TypeOK
  <1>2. CASE events'[i] = events[i] /\ (specMachine'[i] = None <=> specMachine[i] = None)
    BY <1>2 DEF LifecycleOrdered
  <1>3. CASE events'[i] = <<>> /\ specMachine'[i] = None
    BY <1>3
  <1>4. ASSUME NEW e \in EventType, Extends(i, e)
        PROVE  /\ events'[i] # <<>> /\ events'[i][1].stage = "CREATED"
               /\ \A k \in 1 .. Len(events'[i]) - 1 :
                     CanAdvance(events'[i][k].stage, events'[i][k + 1].stage)
    <2>1. events[i] # <<>> /\ events[i][1].stage = "CREATED" /\ Len(events[i]) >= 1
      BY <1>1, <1>4 DEF Extends, LifecycleOrdered
    <2>2. /\ Len(events'[i]) = Len(events[i]) + 1
          /\ events'[i][Len(events[i]) + 1] = e
          /\ \A k \in 1 .. Len(events[i]) : events'[i][k] = events[i][k]
      BY <1>1, <1>4 DEF Extends
    <2>3. CanAdvance(events[i][Len(events[i])].stage, e.stage)
      BY <1>4, <2>1 DEF Extends, CurrentStage
    <2>4. \A k \in 1 .. Len(events[i]) - 1 :
             CanAdvance(events[i][k].stage, events[i][k + 1].stage)
      BY DEF LifecycleOrdered
    <2>5. ASSUME NEW k \in 1 .. Len(events'[i]) - 1
          PROVE  CanAdvance(events'[i][k].stage, events'[i][k + 1].stage)
      <3>1. CASE k = Len(events[i])
        BY <1>1, <2>1, <2>2, <2>3, <3>1
      <3>2. CASE k # Len(events[i])
        <4>1. k \in 1 .. Len(events[i]) - 1 /\ k + 1 \in 1 .. Len(events[i])
          BY <1>1, <2>2, <3>2
        <4>2. QED
          BY <1>1, <2>2, <2>4, <4>1
      <3>3. QED
        BY <3>1, <3>2
    <2>6. QED
      BY <1>1, <2>1, <2>2, <2>5
  <1>5. CASE events'[i] = <<ServerEvent("CREATED")>>
    <2>1. events'[i] # <<>> /\ events'[i][1] = ServerEvent("CREATED") /\ Len(events'[i]) = 1
      BY <1>5
    <2>2. ServerEvent("CREATED").stage = "CREATED"
      BY DEF ServerEvent
    <2>3. QED
      BY <2>1, <2>2
  <1>6. QED
    BY <1>2, <1>3, <1>4, <1>5, EventsStep DEF EventStep

\* A key that is new stays the only one.
LEMMA KeysStep ==
    ASSUME TypeOK, ReferentialIntegrity, KeysIdentifyEvents, [Next]_storeVars
    PROVE  KeysIdentifyEvents'
  <1> SUFFICES ASSUME NEW i \in Installations,
                      NEW j \in DOMAIN events'[i], NEW k \in DOMAIN events'[i],
                      events'[i][j].key = events'[i][k].key
               PROVE  j = k
    BY DEF KeysIdentifyEvents
  <1>1. events[i] \in Seq(EventType)
    BY DEF TypeOK
  <1>2. CASE events'[i] = events[i]
    BY <1>2 DEF KeysIdentifyEvents
  <1>3. CASE events'[i] = <<>>
    BY <1>3
  <1>4. ASSUME NEW e \in EventType, Extends(i, e)
        PROVE  j = k
    <2>1. /\ DOMAIN events'[i] = 1 .. Len(events[i]) + 1
          /\ events'[i][Len(events[i]) + 1] = e
          /\ \A n \in 1 .. Len(events[i]) : events'[i][n] = events[i][n]
          /\ DOMAIN events[i] = 1 .. Len(events[i])
      BY <1>1, <1>4 DEF Extends
    <2>2. \A n \in 1 .. Len(events[i]) : events[i][n].key # e.key
      BY <1>4, <2>1 DEF Extends, KeyTaken
    <2>3. CASE j \in 1 .. Len(events[i]) /\ k \in 1 .. Len(events[i])
      BY <2>1, <2>3 DEF KeysIdentifyEvents
    <2>4. QED
      BY <1>1, <2>1, <2>2, <2>3
  <1>5. CASE events'[i] = <<ServerEvent("CREATED")>>
    BY <1>5
  <1>6. QED
    BY <1>2, <1>3, <1>4, <1>5, EventsStep DEF EventStep

(***************************************************************************)
(* The audit log.                                                          *)
(***************************************************************************)

\* A policy other than the initial one has been set by an operator.
LEMMA ApprovalStep ==
    ASSUME TypeOK, ApprovalIsAudited, [Next]_storeVars
    PROVE  ApprovalIsAudited'
  <1> USE DomainAssumption, NoneAssumption
  <1>1. ASSUME NEW m \in Machines, NEW obs \in Observations,
               NEW state \in ObservedStates, DiscoverMachine(obs, state, m)
        PROVE  ApprovalIsAudited'
    BY <1>1 DEF TypeOK, ApprovalIsAudited, DiscoverMachine, InitialPolicy, Audited
  <1>2. ASSUME NEW m \in Machines, NEW p \in OperatorPolicies, SetMachinePolicy(m, p)
        PROVE  ApprovalIsAudited'
    BY <1>2 DEF TypeOK, ApprovalIsAudited, SetMachinePolicy, Audited
  <1>3. ASSUME NEW m \in Machines, DeleteMachine(m)
        PROVE  ApprovalIsAudited'
    BY <1>3 DEF TypeOK, ApprovalIsAudited, DeleteMachine, AuditedDeletion
  <1>4. ASSUME NEW i \in Installations, DeleteInstallation(i)
        PROVE  ApprovalIsAudited'
    BY <1>4 DEF TypeOK, ApprovalIsAudited, DeleteInstallation, AuditedDeletion, machineVars
  <1>5. CASE policy' = policy /\ audit \subseteq audit'
    BY <1>5 DEF ApprovalIsAudited
  <1>6. QED
    BY <1>1, <1>2, <1>3, <1>4, <1>5
    DEF Next, MachineOperation, InstallationOperation, storeVars, machineVars,
        CreateInstallationSpec, ArmInstallation, CancelAssignment, ConsumeAssignment,
        ReleaseCredential, ExpireCredential, AppendLifecycleEvent, Audited

\* The audit types AuditAgrees speaks of, and the deletion row.
ScheduleTypes == {"INSTALLATION_CREATED", "INSTALLATION_ARMED",
                  "ASSIGNMENT_CONSUMED", "ASSIGNMENT_CANCELLED"}

\* A row of another kind changes nothing AuditAgrees can see.
LEMMA UnrelatedRow ==
    ASSUME AuditAgrees, UNCHANGED <<specMachine, assignment>>,
           \A j \in Installations : \A t \in ScheduleTypes :
              <<j, t>> \in audit' <=> <<j, t>> \in audit
    PROVE  AuditAgrees'
  BY DEF AuditAgrees, SpecExists, ScheduleTypes

\* A deleted installation stays deleted.
DeletedIsFinal == \A i \in Installations : SpecExists(i) => <<i, "DELETED">> \notin audit

\* Each operation on an assignment writes the row that says so.
LEMMA AuditStep ==
    ASSUME TypeOK, ReferentialIntegrity, AuditAgrees, DeletedIsFinal, [Next]_storeVars
    PROVE  AuditAgrees' /\ DeletedIsFinal'
  <1> USE DomainAssumption, NoneAssumption DEF SpecExists
  <1>1. ASSUME NEW m \in Machines, NEW i \in Installations, CreateInstallationSpec(i, m)
        PROVE  AuditAgrees' /\ DeletedIsFinal'
    <2>1. assignment[i] = "none"
      BY <1>1 DEF ReferentialIntegrity, CreateInstallationSpec, Fresh
    <2>2. AuditAgrees'
      BY <1>1, <2>1 DEF TypeOK, AuditAgrees, CreateInstallationSpec, Audited, assignmentVars
    <2>3. DeletedIsFinal'
      BY <1>1 DEF TypeOK, DeletedIsFinal, CreateInstallationSpec, Fresh, Deleted, Audited
    <2>4. QED
      BY <2>2, <2>3
  <1>2. ASSUME NEW m \in Machines, NEW i \in Installations, ArmInstallation(m, i)
        PROVE  AuditAgrees' /\ DeletedIsFinal'
    BY <1>2 DEF TypeOK, AuditAgrees, DeletedIsFinal, ArmInstallation, NeverAssigned, Audited
  <1>3. ASSUME NEW i \in Installations, CancelAssignment(i) \/ ConsumeAssignment(i)
        PROVE  AuditAgrees' /\ DeletedIsFinal'
    BY <1>3 DEF TypeOK, AuditAgrees, DeletedIsFinal, CancelAssignment, ConsumeAssignment,
       IsArmed, Audited
  <1>4. ASSUME NEW i \in Installations, DeleteInstallation(i)
        PROVE  AuditAgrees' /\ DeletedIsFinal'
    BY <1>4 DEF TypeOK, AuditAgrees, DeletedIsFinal, DeleteInstallation, AuditedDeletion
  <1>5. ASSUME UNCHANGED <<specMachine, assignment>>,
               \A j \in Installations : \A t \in ScheduleTypes \cup {"DELETED"} :
                  <<j, t>> \in audit' <=> <<j, t>> \in audit
        PROVE  AuditAgrees' /\ DeletedIsFinal'
    <2>1. AuditAgrees'
      BY <1>5, UnrelatedRow
    <2>2. DeletedIsFinal'
      BY <1>5 DEF DeletedIsFinal
    <2>3. QED
      BY <2>1, <2>2
  <1>6. ASSUME NEW m \in Machines, NEW obs \in Observations,
               NEW state \in ObservedStates, DiscoverMachine(obs, state, m)
        PROVE  AuditAgrees' /\ DeletedIsFinal'
    BY <1>5, <1>6 DEF DiscoverMachine, Audited, assignmentVars
  <1>7. ASSUME NEW m \in Machines, NEW p \in OperatorPolicies, SetMachinePolicy(m, p)
        PROVE  AuditAgrees' /\ DeletedIsFinal'
    BY <1>5, <1>7 DEF SetMachinePolicy, Audited, assignmentVars
  <1>8. ASSUME NEW m \in Machines, DeleteMachine(m)
        PROVE  AuditAgrees' /\ DeletedIsFinal'
    BY <1>5, <1>8 DEF DeleteMachine, AuditedDeletion, assignmentVars
  <1>9. ASSUME NEW i \in Installations, ReleaseCredential(i) \/ ExpireCredential(i)
        PROVE  AuditAgrees' /\ DeletedIsFinal'
    BY <1>5, <1>9
    DEF ReleaseCredential, ExpireCredential, Audited, assignmentVars, ScheduleTypes
  <1>10. ASSUME NEW i \in Installations,
                NEW report \in Reports \cup {ServerEvent("PXE_BOOTED")},
                AppendLifecycleEvent(i, report)
         PROVE  AuditAgrees' /\ DeletedIsFinal'
    <2>1. report.stage \in Stages
      BY <1>10 DEF AppendLifecycleEvent, Accepts, ReportValid
    <2>2. report.stage \notin ScheduleTypes \cup {"DELETED"}
      BY <2>1 DEF Stages, ServerStages, InstallerStages, TerminalStages, ScheduleTypes
    <2>3. QED
      BY <1>5, <1>10, <2>2 DEF AppendLifecycleEvent, Audited, assignmentVars
  <1>11. CASE UNCHANGED storeVars
    BY <1>5, <1>11 DEF storeVars
  <1>12. QED
    BY <1>1, <1>2, <1>3, <1>4, <1>6, <1>7, <1>8, <1>9, <1>10, <1>11
    DEF Next, MachineOperation, InstallationOperation

(***************************************************************************)
(* The inductive invariant of the store and what follows from it.          *)
(***************************************************************************)
StoreInv ==
    /\ TypeOK
    /\ ReferentialIntegrity
    /\ OneArmedPerMachine
    /\ LifecycleOrdered
    /\ KeysIdentifyEvents
    /\ ApprovalIsAudited
    /\ AuditAgrees
    /\ DeletedIsFinal

\* The empty database satisfies the invariant.
LEMMA StoreInvInit == Init => StoreInv
  BY NoneAssumption
  DEF Init, StoreInv, TypeOK, ReferentialIntegrity, OneArmedPerMachine, LifecycleOrdered,
      KeysIdentifyEvents, ApprovalIsAudited, AuditAgrees, DeletedIsFinal, MachineExists,
      SpecExists, AssignmentStates, CredentialStates

\* Every operation of the store keeps the invariant.
LEMMA StoreInvStep == StoreInv /\ [Next]_storeVars => StoreInv'
  BY TypeStep, ReferentialStep, OneArmedStep, LifecycleStep, KeysStep, ApprovalStep, AuditStep
  DEF StoreInv

\* The whole invariant holds of the store under every client.
THEOREM StoreInvariant == Spec => []StoreInv
  BY StoreInvInit, StoreInvStep, PTL DEF Spec

\* No order of creating, arming, deleting and rediscovering leaves a row that
\* refers to nothing.
THEOREM StoreReferential == Spec => []ReferentialIntegrity
  <1>1. StoreInv => ReferentialIntegrity
    BY DEF StoreInv
  <1>2. QED
    BY <1>1, StoreInvariant, PTL

\* No machine has two armed installations, for any number of either.
THEOREM StoreOneArmed == Spec => []OneArmedPerMachine
  <1>1. StoreInv => OneArmedPerMachine
    BY DEF StoreInv
  <1>2. QED
    BY <1>1, StoreInvariant, PTL

\* Every recorded history is a legal path from CREATED, whatever reports come.
THEOREM StoreLifecycleOrdered == Spec => []LifecycleOrdered
  <1>1. StoreInv => LifecycleOrdered
    BY DEF StoreInv
  <1>2. QED
    BY <1>1, StoreInvariant, PTL

\* An idempotency key names one event.
THEOREM StoreKeysIdentify == Spec => []KeysIdentifyEvents
  <1>1. StoreInv => KeysIdentifyEvents
    BY DEF StoreInv
  <1>2. QED
    BY <1>1, StoreInvariant, PTL

\* The audit log tells the state of every assignment.
THEOREM StoreAudit == Spec => []AuditAgrees
  <1>1. StoreInv => AuditAgrees
    BY DEF StoreInv
  <1>2. QED
    BY <1>1, StoreInvariant, PTL

\* No discovery, whatever identifiers it shows, makes a machine provisionable:
\* one that is has an audited change of its policy.
THEOREM StoreApprovalIsAudited == Spec => []ApprovalIsAudited
  <1>1. StoreInv => ApprovalIsAudited
    BY DEF StoreInv
  <1>2. QED
    BY <1>1, StoreInvariant, PTL

\* No step rewrites recorded history.
THEOREM StoreHistoryIsAppendOnly == Spec => HistoryIsAppendOnly
  <1> DEFINE Keeps(i) == \/ /\ Len(events'[i]) >= Len(events[i])
                            /\ \A k \in DOMAIN events[i] : events'[i][k] = events[i][k]
                         \/ <<i, "DELETED">> \in audit'
  <1>1. StoreInv /\ [Next]_storeVars => \A i \in Installations : Keeps(i)
    <2> SUFFICES ASSUME StoreInv, [Next]_storeVars, NEW i \in Installations
                 PROVE  Keeps(i)
      OBVIOUS
    <2>1. events[i] \in Seq(EventType)
      BY DEF StoreInv, TypeOK
    <2>2. ASSUME NEW e \in EventType, Extends(i, e)
          PROVE  Keeps(i)
      BY <2>1, <2>2 DEF Extends
    <2>3. CASE events[i] = <<>> /\ events'[i] = <<ServerEvent("CREATED")>>
      BY <2>3
    <2>4. EventStep(i)
      BY EventsStep DEF StoreInv
    <2>5. CASE events'[i] = events[i]
      BY <2>1, <2>5
    <2>6. QED
      BY <2>2, <2>3, <2>4, <2>5 DEF EventStep
  <1>2. QED
    BY <1>1, StoreInvariant, PTL DEF Spec, HistoryIsAppendOnly

\* An assignment that was consumed or cancelled is never armed again.
THEOREM StoreAssignmentIsOneShot == Spec => AssignmentIsOneShot
  <1> DEFINE OneShotStep(i) ==
          \/ assignment'[i] = assignment[i]
          \/ assignment[i] = "none" /\ assignment'[i] = "armed" /\ ~Deleted(i)
          \/ assignment[i] = "armed" /\ assignment'[i] \in {"consumed", "cancelled"}
          \/ assignment[i] \in {"consumed", "cancelled"} /\ ~SpecExists(i)'
  <1>1. StoreInv /\ [Next]_storeVars => \A i \in Installations : OneShotStep(i)
    <2> SUFFICES ASSUME StoreInv, [Next]_storeVars, NEW i \in Installations
                 PROVE  OneShotStep(i)
      OBVIOUS
    <2>1. ASSUME NEW m \in Machines, NEW j \in Installations, ArmInstallation(m, j)
          PROVE  OneShotStep(i)
      <3>1. ~Deleted(j)
        BY <2>1, NoneAssumption
        DEF StoreInv, DeletedIsFinal, SpecExists, Deleted, ArmInstallation
      <3>2. QED
        BY <2>1, <3>1 DEF StoreInv, TypeOK, ArmInstallation, NeverAssigned
    <2>2. ASSUME NEW j \in Installations, CancelAssignment(j) \/ ConsumeAssignment(j)
          PROVE  OneShotStep(i)
      BY <2>2 DEF StoreInv, TypeOK, CancelAssignment, ConsumeAssignment, IsArmed
    <2>3. ASSUME NEW j \in Installations, DeleteInstallation(j)
          PROVE  OneShotStep(i)
      BY <2>3
      DEF StoreInv, TypeOK, DeleteInstallation, IsArmed, SpecExists, AssignmentStates
    <2>4. CASE assignment' = assignment
      BY <2>4
    <2>5. QED
      BY <2>1, <2>2, <2>3, <2>4
      DEF Next, MachineOperation, InstallationOperation, storeVars, assignmentVars,
          DiscoverMachine, SetMachinePolicy, DeleteMachine, CreateInstallationSpec,
          ReleaseCredential, ExpireCredential, AppendLifecycleEvent
  <1>2. QED
    BY <1>1, StoreInvariant, PTL DEF Spec, AssignmentIsOneShot

=============================================================================
