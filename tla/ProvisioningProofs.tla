------------------------- MODULE ProvisioningProofs -------------------------
(***************************************************************************)
(* The one-shot handoff, for any number of requests in flight, machines    *)
(* and installations.  Every step of the server is a step of the store or  *)
(* leaves it alone, so the store's invariant carries over; what is added   *)
(* here is what the handlers have read and not yet acted upon.             *)
(***************************************************************************)
EXTENDS Provisioning, InstallationStoreProofs, FiniteSetTheorems

\* What a handler is about is there for as long as the handler runs.
Aimed ==
    \A r \in Requests :
        /\ req[r].pc \in {"machine", "assignment", "consume", "write", "spec",
                          "checkin", "append"} => req[r].inst \in Installations
        /\ At(r, "append") => req[r].report \in Reports
        /\ At(r, "create") => req[r].mach \in Machines

\* The idle handler is at no store call.
LEMMA IdleFields ==
    /\ Idle.pc = "idle" /\ Idle.inst = None /\ Idle.report = None
    /\ Idle.pc \notin Points
  BY DEF Idle, Points

\* A handler at a store call has a well-typed record.
LEMMA BusyIsTyped ==
    ASSUME RequestsTypeOK, NEW r \in Requests, req[r].pc # "idle"
    PROVE  req[r] \in RequestType
  BY IdleFields DEF RequestsTypeOK

\* Ending a request keeps the handlers' state well-typed and aimed.
LEMMA DoneTyped ==
    ASSUME RequestsTypeOK, Aimed, NEW r \in Requests, Done(r)
    PROVE  req' \in [Requests -> RequestType \cup {Idle}] /\ Aimed'
  <1>1. req' \in [Requests -> RequestType \cup {Idle}]
    BY DEF Done, RequestsTypeOK
  <1>2. Aimed'
    BY IdleFields DEF Done, RequestsTypeOK, Aimed, At
  <1>3. QED
    BY <1>1, <1>2

\* A request that moves on, or arrives, in a well-typed way.
LEMMA MoveTyped ==
    ASSUME RequestsTypeOK, Aimed, NEW r \in Requests, NEW new \in RequestType,
           new.pc \in {"decide", "create"} \/ new.inst \in Installations,
           new.pc = "append" => new.report \in Reports,
           new.pc = "create" => new.mach \in Machines,
           req' = [req EXCEPT ![r] = new]
    PROVE  req' \in [Requests -> RequestType \cup {Idle}] /\ Aimed'
  <1>1. req' \in [Requests -> RequestType \cup {Idle}]
    BY DEF RequestsTypeOK
  <1>2. Aimed'
    BY DEF RequestsTypeOK, Aimed, At
  <1>3. QED
    BY <1>1, <1>2

(***************************************************************************)
(* One step of the server: the handlers stay well-typed and aimed, and the *)
(* database takes a step of the store or none.                             *)
(***************************************************************************)
HandlersOK == RequestsTypeOK /\ Aimed

StepOK == HandlersOK' /\ [Next]_storeVars

\* An answer that only reads.
LEMMA AnswerOK ==
    ASSUME TypeOK, HandlersOK, NEW r \in Requests, Answer(r)
    PROVE  StepOK
  BY DoneTyped DEF Answer, HandlersOK, StepOK, RequestsTypeOK

\* A handler that reads the store and moves on.
LEMMA ReadOK ==
    ASSUME HandlersOK, NEW r \in Requests, NEW new \in RequestType,
           new.pc \in {"decide", "create"} \/ new.inst \in Installations,
           new.pc = "append" => new.report \in Reports,
           new.pc = "create" => new.mach \in Machines,
           req' = [req EXCEPT ![r] = new],
           UNCHANGED <<storeVars, handoffs>>
    PROVE  StepOK
  BY MoveTyped DEF HandlersOK, StepOK, RequestsTypeOK

\* Requests for boot material.
LEMMA MaterialOK ==
    ASSUME TypeOK, HandlersOK, NEW r \in Requests,
           \/ \E i \in Installations, op \in {"material", "preseed"} : StartMaterial(r, op, i)
           \/ ReadMachine(r) \/ ReadAssignment(r) \/ Consume(r) \/ WritePreseed(r)
    PROVE  StepOK
  <1>1. ASSUME NEW i \in Installations, NEW op \in {"material", "preseed"},
               StartMaterial(r, op, i)
        PROVE  StepOK
    <2> DEFINE new == [Idle EXCEPT !.op = op, !.pc = "machine",
                                   !.inst = i, !.mach = specMachine[i]]
    <2>1. new \in RequestType /\ new.inst \in Installations /\ new.pc \notin {"append", "create"}
      BY DEF TypeOK, Idle, RequestType, Operations, Points
    <2>2. req' = [req EXCEPT ![r] = new] /\ UNCHANGED <<storeVars, handoffs>>
      BY <1>1 DEF StartMaterial
    <2> HIDE DEF new
    <2>3. QED
      BY <2>1, <2>2, ReadOK
  <1>2. CASE ReadMachine(r)
    <2>1. CASE Answer(r)
      BY <2>1, AnswerOK
    <2>2. CASE ~Answer(r)
      <3> DEFINE new == [req[r] EXCEPT !.pc = "assignment", !.policy = policy[req[r].mach],
                                       !.secureBoot = secureBoot[req[r].mach]]
      <3>1. req[r] \in RequestType /\ req[r].inst \in Installations
        BY <1>2, BusyIsTyped DEF ReadMachine, At, HandlersOK, Aimed
      <3>2. new \in RequestType /\ new.inst \in Installations /\ new.pc \notin {"append", "create"}
        BY <1>2, <2>2, <3>1
        DEF TypeOK, ReadMachine, MachineExists, RequestType, Points
      <3>3. req' = [req EXCEPT ![r] = new] /\ UNCHANGED <<storeVars, handoffs>>
        BY <1>2, <2>2, <3>1 DEF ReadMachine, HandlersOK, RequestsTypeOK, RequestType
      <3> HIDE DEF new
      <3>4. QED
        BY <3>2, <3>3, ReadOK
    <2>3. QED
      BY <2>1, <2>2
  <1>3. CASE ReadAssignment(r)
    <2>1. CASE Answer(r)
      BY <2>1, AnswerOK
    <2>2. CASE ~Answer(r)
      <3> DEFINE new == [req[r] EXCEPT !.pc = "consume"]
      <3>1. req[r] \in RequestType /\ req[r].inst \in Installations
        BY <1>3, BusyIsTyped DEF ReadAssignment, At, HandlersOK, Aimed
      <3>2. new \in RequestType /\ new.inst \in Installations /\ new.pc \notin {"append", "create"}
        BY <3>1 DEF RequestType, Points
      <3>3. req' = [req EXCEPT ![r] = new] /\ UNCHANGED <<storeVars, handoffs>>
        BY <1>3, <2>2, <3>1 DEF ReadAssignment, HandlersOK, RequestsTypeOK, RequestType
      <3> HIDE DEF new
      <3>4. QED
        BY <3>2, <3>3, ReadOK
    <2>3. QED
      BY <2>1, <2>2
  <1>4. CASE Consume(r)
    <2>1. CASE Answer(r)
      BY <2>1, AnswerOK
    <2>2. CASE ~Answer(r)
      <3> DEFINE new == [req[r] EXCEPT !.pc = "write"]
      <3>1. req[r] \in RequestType /\ req[r].inst \in Installations
        BY <1>4, BusyIsTyped DEF Consume, At, HandlersOK, Aimed
      <3>2. new \in RequestType /\ new.inst \in Installations /\ new.pc \notin {"append", "create"}
        BY <3>1 DEF RequestType, Points
      <3>3. req' = [req EXCEPT ![r] = new] /\ UNCHANGED handoffs
        BY <1>4, <2>2, <3>1 DEF Consume, HandlersOK, RequestsTypeOK, RequestType
      <3>4. Next
        BY <1>4, <2>2, <3>1 DEF Consume, Handoff, Next, InstallationOperation
      <3> HIDE DEF new
      <3>5. QED
        BY <3>2, <3>3, <3>4, MoveTyped DEF HandlersOK, StepOK, RequestsTypeOK
    <2>3. QED
      BY <2>1, <2>2
  <1>5. CASE WritePreseed(r)
    <2>1. CASE Answer(r)
      BY <2>1, AnswerOK
    <2>2. CASE ~Answer(r)
      <3>1. req[r].inst \in Installations
        BY <1>5 DEF WritePreseed, At, HandlersOK, Aimed
      <3>2. handoffs' \in [Installations -> Nat]
        BY <1>5, <2>2, <3>1 DEF WritePreseed, HandlersOK, RequestsTypeOK
      <3>3. Done(r) /\ UNCHANGED storeVars
        BY <1>5, <2>2 DEF WritePreseed
      <3>4. QED
        BY <3>2, <3>3, DoneTyped DEF HandlersOK, StepOK, RequestsTypeOK
    <2>3. QED
      BY <2>1, <2>2
  <1>6. QED
    BY <1>1, <1>2, <1>3, <1>4, <1>5

\* Discovery and check-in.
LEMMA DiscoveryOK ==
    ASSUME TypeOK, HandlersOK, NEW r \in Requests,
           \/ \E op \in {"ipxe", "json"}, obs \in Observations,
                 state \in ObservedStates, m \in Machines :
                 StartDiscovery(r, op, obs, state, m)
           \/ Decide(r) \/ ReadSpec(r) \/ CheckIn(r)
    PROVE  StepOK
  <1>1. ASSUME NEW op \in {"ipxe", "json"}, NEW obs \in Observations,
               NEW state \in ObservedStates, NEW m \in Machines,
               StartDiscovery(r, op, obs, state, m)
        PROVE  StepOK
    <2>1. Next /\ UNCHANGED handoffs
      BY <1>1 DEF StartDiscovery, Next, MachineOperation
    <2>2. CASE req' = req
      BY <2>1, <2>2 DEF HandlersOK, StepOK, RequestsTypeOK, Aimed, At
    <2>3. CASE policy'[m] = "provision"
      <3> DEFINE new == [Idle EXCEPT !.op = op, !.pc = "decide", !.mach = m,
                                     !.policy = policy'[m], !.secureBoot = state]
      <3>1. new \in RequestType /\ new.pc = "decide"
        BY <2>3, InputAssumption DEF Idle, RequestType, Operations, Points, Policies
      <3>2. req' = [req EXCEPT ![r] = new]
        BY <1>1, <2>3 DEF StartDiscovery
      <3> HIDE DEF new
      <3>3. QED
        BY <2>1, <3>1, <3>2, MoveTyped DEF HandlersOK, StepOK, RequestsTypeOK
    <2>4. QED
      BY <1>1, <2>2, <2>3 DEF StartDiscovery
  <1>2. CASE Decide(r)
    <2>1. CASE Answer(r)
      BY <2>1, AnswerOK
    <2>2. ASSUME NEW i \in Installations,
                 req' = [req EXCEPT ![r].pc = "spec", ![r].inst = i],
                 UNCHANGED <<storeVars, handoffs>>
          PROVE  StepOK
      <3> DEFINE new == [req[r] EXCEPT !.pc = "spec", !.inst = i]
      <3>1. req[r] \in RequestType
        BY <1>2, BusyIsTyped DEF Decide, At, HandlersOK
      <3>2. new \in RequestType /\ new.inst \in Installations /\ new.pc \notin {"append", "create"}
        BY <3>1 DEF RequestType, Points
      <3>3. req' = [req EXCEPT ![r] = new]
        BY <2>2, <3>1 DEF HandlersOK, RequestsTypeOK, RequestType
      <3> HIDE DEF new
      <3>4. QED
        BY <2>2, <3>2, <3>3, ReadOK
    <2>3. QED
      BY <1>2, <2>1, <2>2 DEF Decide
  <1>3. CASE ReadSpec(r)
    <2>1. CASE Answer(r)
      BY <2>1, AnswerOK
    <2>2. CASE ~Answer(r)
      <3> DEFINE new == [req[r] EXCEPT !.pc = "checkin"]
      <3>1. req[r] \in RequestType /\ req[r].inst \in Installations
        BY <1>3, BusyIsTyped DEF ReadSpec, At, HandlersOK, Aimed
      <3>2. new \in RequestType /\ new.inst \in Installations /\ new.pc \notin {"append", "create"}
        BY <3>1 DEF RequestType, Points
      <3>3. req' = [req EXCEPT ![r] = new] /\ UNCHANGED <<storeVars, handoffs>>
        BY <1>3, <2>2, <3>1 DEF ReadSpec, HandlersOK, RequestsTypeOK, RequestType
      <3> HIDE DEF new
      <3>4. QED
        BY <3>2, <3>3, ReadOK
    <2>3. QED
      BY <2>1, <2>2
  <1>4. CASE CheckIn(r)
    <2>1. CASE Answer(r)
      BY <2>1, AnswerOK
    <2>2. CASE ~Answer(r)
      <3>1. req[r].inst \in Installations
        BY <1>4 DEF CheckIn, At, HandlersOK, Aimed
      <3>2. Next /\ Done(r) /\ UNCHANGED handoffs
        BY <1>4, <2>2, <3>1 DEF CheckIn, Next, InstallationOperation
      <3>3. QED
        BY <3>2, DoneTyped DEF HandlersOK, StepOK, RequestsTypeOK
    <2>3. QED
      BY <2>1, <2>2
  <1>5. QED
    BY <1>1, <1>2, <1>3, <1>4

\* Telemetry.
LEMMA TelemetryOK ==
    ASSUME TypeOK, HandlersOK, NEW r \in Requests,
           \/ \E i \in Installations, report \in Reports : StartTelemetry(r, i, report)
           \/ ApplyReport(r)
    PROVE  StepOK
  <1>1. ASSUME NEW i \in Installations, NEW report \in Reports, StartTelemetry(r, i, report)
        PROVE  StepOK
    <2> DEFINE new == [Idle EXCEPT !.op = "telemetry", !.pc = "append",
                                   !.inst = i, !.report = report]
    <2>1. new \in RequestType /\ new.inst \in Installations /\ new.report \in Reports
          /\ new.pc = "append"
      BY DEF Idle, RequestType, Operations, Points
    <2>2. req' = [req EXCEPT ![r] = new] /\ UNCHANGED <<storeVars, handoffs>>
      BY <1>1 DEF StartTelemetry
    <2> HIDE DEF new
    <2>3. QED
      BY <2>1, <2>2, ReadOK
  <1>2. CASE ApplyReport(r)
    <2>1. CASE Answer(r)
      BY <2>1, AnswerOK
    <2>2. CASE ~Answer(r)
      <3>1. req[r].inst \in Installations /\ req[r].report \in Reports
        BY <1>2 DEF ApplyReport, At, HandlersOK, Aimed
      <3>2. Next /\ Done(r) /\ UNCHANGED handoffs
        BY <1>2, <2>2, <3>1 DEF ApplyReport, Next, InstallationOperation
      <3>3. QED
        BY <3>2, DoneTyped DEF HandlersOK, StepOK, RequestsTypeOK
    <2>3. QED
      BY <2>1, <2>2
  <1>3. QED
    BY <1>1, <1>2

\* The installation wizard.
LEMMA CreateOK ==
    ASSUME TypeOK, HandlersOK, NEW r \in Requests,
           FinishCreate(r) \/ \E m \in Machines : StartCreate(r, m)
    PROVE  StepOK
  <1>1. ASSUME NEW m \in Machines, StartCreate(r, m)
        PROVE  StepOK
    <2> DEFINE new == [Idle EXCEPT !.op = "create", !.pc = "create", !.mach = m]
    <2>1. new \in RequestType /\ new.pc = "create" /\ new.mach \in Machines
      BY DEF Idle, RequestType, Operations, Points
    <2>2. req' = [req EXCEPT ![r] = new] /\ UNCHANGED <<storeVars, handoffs>>
      BY <1>1 DEF StartCreate
    <2> HIDE DEF new
    <2>3. QED
      BY <2>1, <2>2, ReadOK
  <1>2. CASE FinishCreate(r)
    <2>1. CASE Answer(r)
      BY <2>1, AnswerOK
    <2>2. CASE ~Answer(r)
      <3>1. req[r].mach \in Machines
        BY <1>2 DEF FinishCreate, At, HandlersOK, Aimed
      <3>2. Next /\ Done(r) /\ UNCHANGED handoffs
        BY <1>2, <2>2, <3>1 DEF FinishCreate, Next, MachineOperation
      <3>3. QED
        BY <3>2, DoneTyped DEF HandlersOK, StepOK, RequestsTypeOK
    <2>3. QED
      BY <2>1, <2>2
  <1>3. QED
    BY <1>1, <1>2

\* Whatever the server does, the database takes a step of the store or none.
LEMMA ServerStepOK ==
    ASSUME TypeOK, HandlersOK, [ProvisioningNext]_vars
    PROVE  StepOK
  <1>1. ASSUME NEW r \in Requests, Arrive(r, Routes) \/ Handle(r)
        PROVE  StepOK
    BY <1>1, MaterialOK, DiscoveryOK, TelemetryOK, CreateOK DEF Arrive, Handle
  <1>2. CASE OperatorStep \/ CredentialStep(Routes)
    BY <1>2 DEF OperatorStep, CredentialStep, Next, MachineOperation, InstallationOperation,
       HandlersOK, StepOK, RequestsTypeOK, Aimed, At
  <1>3. CASE Crash
    BY <1>3, IdleFields DEF Crash, HandlersOK, StepOK, RequestsTypeOK, Aimed, At
  <1>4. CASE UNCHANGED vars
    BY <1>4 DEF vars, HandlersOK, StepOK, RequestsTypeOK, Aimed, At
  <1>5. QED
    BY <1>1, <1>2, <1>3, <1>4 DEF ProvisioningNext, StoreStep

\* The store's invariant holds of the whole server, and its handlers are
\* well-typed: a request always knows what it is about.
THEOREM ServerInvariant == ProvisioningSpec => [](StoreInv /\ HandlersOK)
  <1>1. ProvisioningInit => StoreInv /\ HandlersOK
    BY StoreInvInit, IdleFields
    DEF ProvisioningInit, HandlersOK, RequestsTypeOK, Aimed, At
  <1>2. StoreInv /\ HandlersOK /\ [ProvisioningNext]_vars => (StoreInv /\ HandlersOK)'
    BY ServerStepOK, StoreInvStep DEF StepOK, StoreInv
  <1>3. QED
    BY <1>1, <1>2, PTL DEF ProvisioningSpec

\* A handler never acts on a row that its queries did not return: what it has
\* read is of the types of the store, at every point where it may be.
THEOREM ServerRequestsTyped == ProvisioningSpec => []RequestsTypeOK
  <1>1. HandlersOK => RequestsTypeOK
    BY DEF HandlersOK
  <1>2. QED
    BY <1>1, ServerInvariant, PTL

(***************************************************************************)
(* The one-shot handoff.  OneShotHandoff alone is not inductive: it does   *)
(* not say that a handler about to write is alone and that nothing has     *)
(* been written before it.                                                 *)
(***************************************************************************)
Spent(i) == assignment[i] = "consumed" \/ Deleted(i)

HandoffInv ==
    /\ \A i \in Installations : handoffs[i] <= 1 /\ (handoffs[i] > 0 => Spent(i))
    /\ \A r \in Requests : At(r, "write") => Spent(req[r].inst) /\ handoffs[req[r].inst] = 0
    /\ \A r, q \in Requests :
          At(r, "write") /\ At(q, "write") /\ req[r].inst = req[q].inst => r = q

\* What is spent stays spent: no operation of the store arms it again.
LEMMA SpentStays ==
    ASSUME StoreInv, [Next]_storeVars, NEW i \in Installations, Spent(i)
    PROVE  Spent(i)'
  <1> USE DomainAssumption DEF Spent, Deleted, StoreInv, TypeOK
  <1>1. ASSUME NEW m \in Machines, NEW j \in Installations, ArmInstallation(m, j)
        PROVE  Spent(i)'
    BY <1>1 DEF ArmInstallation, NeverAssigned, Audited
  <1>2. ASSUME NEW j \in Installations, CancelAssignment(j) \/ ConsumeAssignment(j)
        PROVE  Spent(i)'
    BY <1>2 DEF CancelAssignment, ConsumeAssignment, IsArmed, Audited
  <1>3. ASSUME NEW j \in Installations, DeleteInstallation(j)
        PROVE  Spent(i)'
    BY <1>3 DEF DeleteInstallation, AuditedDeletion
  <1>4. ASSUME NEW m \in Machines, DeleteMachine(m)
        PROVE  Spent(i)'
    BY <1>4 DEF DeleteMachine, AuditedDeletion, assignmentVars
  <1>5. CASE assignment' = assignment /\ audit \subseteq audit'
    BY <1>5
  <1>6. QED
    BY <1>1, <1>2, <1>3, <1>4, <1>5
    DEF Next, MachineOperation, InstallationOperation, storeVars, assignmentVars,
        DiscoverMachine, SetMachinePolicy, CreateInstallationSpec, ReleaseCredential,
        ExpireCredential, AppendLifecycleEvent, Audited

\* Steps that put no handler at "write" and write nothing.
LEMMA QuietStep ==
    ASSUME StoreInv, HandlersOK, HandoffInv, [Next]_storeVars, handoffs' = handoffs,
           \A r \in Requests : req'[r].pc = "write" => req'[r] = req[r]
    PROVE  HandoffInv'
  <1>1. \A i \in Installations : handoffs[i] > 0 => Spent(i)'
    BY SpentStays DEF HandoffInv
  <1>2. \A r \in Requests : At(r, "write") =>
            \/ assignment'[req[r].inst] = "consumed"
            \/ <<req[r].inst, "DELETED">> \in audit'
    <2>1. \A i \in Installations : Spent(i) => Spent(i)'
      BY SpentStays
    <2>2. QED
      BY <2>1 DEF HandoffInv, HandlersOK, Aimed, At, Spent, Deleted
  <1>3. \A r \in Requests : req'[r].pc = "write" =>
            At(r, "write") /\ req'[r].inst = req[r].inst
    BY DEF At
  <1>4. QED
    BY <1>1, <1>2, <1>3 DEF HandoffInv, At, Spent, Deleted

\* Every step of the server keeps the handoff invariant.
LEMMA HandoffStep ==
    ASSUME StoreInv, HandlersOK, HandoffInv, [ProvisioningNext]_vars
    PROVE  HandoffInv'
  <1>a. [Next]_storeVars /\ HandlersOK'
    BY ServerStepOK DEF StoreInv, StepOK
  <1>1. ASSUME NEW r \in Requests, Consume(r), ~Answer(r)
        PROVE  HandoffInv'
    <2> DEFINE i == req[r].inst
    <2>1. /\ req[r] \in RequestType /\ i \in Installations
          /\ handoffs' = handoffs
      BY <1>1, BusyIsTyped DEF Consume, At, HandlersOK, Aimed
    <2>2. assignment[i] = "armed" /\ assignment' = [assignment EXCEPT ![i] = "consumed"]
      BY <1>1 DEF Consume, Handoff, ConsumeAssignment, IsArmed
    <2>3. ~Deleted(i)
      BY <2>1, <2>2
      DEF StoreInv, ReferentialIntegrity, DeletedIsFinal, Deleted, SpecExists
    <2>4. ~Spent(i)
      BY <2>2, <2>3 DEF Spent
    <2>5. handoffs[i] = 0 /\ \A q \in Requests : At(q, "write") => req[q].inst # i
      BY <2>1, <2>4 DEF HandoffInv, HandlersOK, RequestsTypeOK
    <2>6. /\ req'[r].pc = "write" /\ req'[r].inst = i
          /\ \A q \in Requests : q # r => req'[q] = req[q]
      BY <1>1, <2>1 DEF Consume, HandlersOK, RequestsTypeOK, RequestType
    <2>7. assignment'[i] = "consumed"
      BY <2>1, <2>2 DEF StoreInv, TypeOK
    <2>8. \A j \in Installations : Spent(j) => Spent(j)'
      BY <1>a, SpentStays
    <2>9. \A q \in Requests : At(q, "write") => req[q].inst \in Installations
      BY DEF HandlersOK, Aimed, At
    <2> HIDE DEF i
    <2>10. \A j \in Installations : handoffs'[j] <= 1 /\ (handoffs'[j] > 0 => Spent(j)')
      BY <2>1, <2>8 DEF HandoffInv
    <2>11. \A q \in Requests : req'[q].pc = "write" =>
              (Spent(req[q].inst)' \/ q = r) /\ handoffs'[req'[q].inst] = 0
      BY <2>1, <2>5, <2>6, <2>8, <2>9 DEF HandoffInv, At
    <2>12. \A q \in Requests : req'[q].pc = "write" =>
              /\ assignment'[req'[q].inst] = "consumed" \/ <<req'[q].inst, "DELETED">> \in audit'
              /\ handoffs'[req'[q].inst] = 0
      BY <2>6, <2>7, <2>11 DEF Spent, Deleted
    <2>13. \A p, q \in Requests :
              req'[p].pc = "write" /\ req'[q].pc = "write" /\ req'[p].inst = req'[q].inst
                 => p = q
      BY <2>5, <2>6 DEF HandoffInv, At
    <2>14. QED
      BY <2>10, <2>12, <2>13 DEF HandoffInv, At, Spent, Deleted
  <1>2. ASSUME NEW r \in Requests, WritePreseed(r), ~Answer(r)
        PROVE  HandoffInv'
    <2> DEFINE i == req[r].inst
    <2>1. At(r, "write") /\ i \in Installations /\ handoffs[i] = 0 /\ Spent(i)
      BY <1>2 DEF WritePreseed, At, HandlersOK, Aimed, HandoffInv
    <2>2. /\ handoffs' = [handoffs EXCEPT ![i] = @ + 1]
          /\ req' = [req EXCEPT ![r] = Idle]
          /\ UNCHANGED <<assignment, audit>>
      BY <1>2 DEF WritePreseed, Done, storeVars
    <2>3. handoffs'[i] = 1 /\ \A j \in Installations : j # i => handoffs'[j] = handoffs[j]
      BY <2>1, <2>2 DEF HandlersOK, RequestsTypeOK
    <2>4. \A q \in Requests : req'[q].pc = "write" =>
              q # r /\ req'[q] = req[q] /\ At(q, "write") /\ req[q].inst # i
      BY <2>1, <2>2, IdleFields DEF HandlersOK, RequestsTypeOK, HandoffInv, At
    <2>5. \A q \in Requests : At(q, "write") => req[q].inst \in Installations
      BY DEF HandlersOK, Aimed, At
    <2> HIDE DEF i
    <2>6. QED
      BY <2>1, <2>2, <2>3, <2>4, <2>5 DEF HandoffInv, At, Spent, Deleted
  <1>3. ASSUME NEW r \in Requests, Answer(r) \/ (Done(r) /\ handoffs' = handoffs)
        PROVE  HandoffInv'
    <2>1. \A q \in Requests : req'[q].pc = "write" => req'[q] = req[q]
      BY <1>3, IdleFields DEF Answer, Done, HandlersOK, RequestsTypeOK
    <2>2. QED
      BY <1>a, <1>3, <2>1, QuietStep DEF Answer
  <1>4. ASSUME handoffs' = handoffs, NEW r \in Requests, req'[r].pc # "write",
               \A q \in Requests : q # r => req'[q] = req[q]
        PROVE  HandoffInv'
    BY <1>a, <1>4, QuietStep
  <1>5. ASSUME NEW r \in Requests, Arrive(r, Routes)
        PROVE  HandoffInv'
    <2>1. CASE req' = req
      BY <1>a, <1>5, <2>1, QuietStep
      DEF Arrive, StartMaterial, StartTelemetry, StartDiscovery, StartCreate
    <2>2. CASE req' # req
      <3>1. /\ handoffs' = handoffs /\ req'[r].pc # "write"
            /\ \A q \in Requests : q # r => req'[q] = req[q]
        BY <1>5, <2>2
        DEF Arrive, StartMaterial, StartTelemetry, StartDiscovery, StartCreate,
            HandlersOK,
            RequestsTypeOK, Idle
      <3>2. QED
        BY <1>4, <3>1
    <2>3. QED
      BY <2>1, <2>2
  <1>6. ASSUME NEW r \in Requests,
               \/ ReadMachine(r) \/ ReadAssignment(r) \/ Decide(r) \/ ReadSpec(r)
        PROVE  HandoffInv'
    <2>1. CASE Answer(r)
      BY <1>3, <2>1
    <2>2. CASE ~Answer(r)
      <3>1. req[r] \in RequestType
        BY <1>6, BusyIsTyped
        DEF ReadMachine, ReadAssignment, Decide, ReadSpec, At, HandlersOK
      <3>2. /\ handoffs' = handoffs /\ req'[r].pc # "write"
            /\ \A q \in Requests : q # r => req'[q] = req[q]
        <4> USE <2>2, <3>1 DEF HandlersOK, RequestsTypeOK, RequestType
        <4>1. CASE ReadMachine(r)
          BY <4>1 DEF ReadMachine
        <4>2. CASE ReadAssignment(r)
          BY <4>2 DEF ReadAssignment
        <4>3. CASE Decide(r)
          BY <4>3 DEF Decide
        <4>4. CASE ReadSpec(r)
          BY <4>4 DEF ReadSpec
        <4>5. QED
          BY <1>6, <4>1, <4>2, <4>3, <4>4
      <3>3. QED
        BY <1>4, <3>2
    <2>3. QED
      BY <2>1, <2>2
  <1>7. ASSUME NEW r \in Requests, CheckIn(r) \/ ApplyReport(r) \/ FinishCreate(r)
        PROVE  HandoffInv'
    BY <1>3, <1>7 DEF CheckIn, ApplyReport, FinishCreate
  <1>8. CASE OperatorStep \/ CredentialStep(Routes) \/ UNCHANGED vars
    BY <1>a, <1>8, QuietStep DEF OperatorStep, CredentialStep, vars
  <1>9. CASE Crash
    BY <1>a, <1>9, QuietStep, IdleFields DEF Crash
  <1>10. QED
    BY <1>1, <1>2, <1>3, <1>5, <1>6, <1>7, <1>8, <1>9 DEF ProvisioningNext, StoreStep, Handle

\* The handoff invariant implies what the runs check; counting the writers is
\* where finiteness comes in.
LEMMA HandoffInvImplies ==
    ASSUME HandlersOK, HandoffInv
    PROVE  OneShotHandoff
  <1> SUFFICES ASSUME NEW i \in Installations
               PROVE  /\ handoffs[i] + Cardinality({r \in Requests :
                             At(r, "write") /\ req[r].inst = i}) <= 1
                      /\ handoffs[i] > 0 \/ Delivering(i) =>
                             assignment[i] = "consumed" \/ Deleted(i)
    BY DEF OneShotHandoff
  <1> DEFINE W == {r \in Requests : At(r, "write") /\ req[r].inst = i}
  <1>1. handoffs[i] \in Nat /\ handoffs[i] <= 1
    BY DEF HandlersOK, RequestsTypeOK, HandoffInv
  <1>2. CASE W = {}
    <2>1. Cardinality(W) = 0
      BY <1>2, FS_EmptySet
    <2>2. ~Delivering(i)
      BY <1>2 DEF Delivering
    <2>3. QED
      BY <1>1, <2>1, <2>2 DEF HandoffInv, Spent
  <1>3. CASE W # {}
    <2>1. PICK r \in Requests : At(r, "write") /\ req[r].inst = i
      BY <1>3
    <2>2. W = {r}
      BY <2>1 DEF HandoffInv
    <2>3. Cardinality(W) = 1
      BY <2>2, FS_Singleton
    <2>4. handoffs[i] = 0 /\ Spent(i)
      BY <2>1 DEF HandoffInv
    <2>5. QED
      BY <2>3, <2>4 DEF Spent
  <1>4. QED
    BY <1>2, <1>3

\* At most one response ever carries the destructive payload of an
\* installation, and only one whose assignment has been spent, for any number
\* of concurrent requests and every crash.
THEOREM ServerOneShotHandoff == ProvisioningSpec => []OneShotHandoff
  <1>1. ProvisioningInit => HandoffInv
    BY IdleFields DEF ProvisioningInit, HandoffInv, At
  <1>2. StoreInv /\ HandlersOK /\ HandoffInv /\ [ProvisioningNext]_vars => HandoffInv'
    BY HandoffStep
  <1>3. HandlersOK /\ HandoffInv => OneShotHandoff
    BY HandoffInvImplies
  <1>4. QED
    BY <1>1, <1>2, <1>3, ServerInvariant, PTL DEF ProvisioningSpec

(***************************************************************************)
(* Scheduling, lifecycle and credential.  Neither property is inductive: a *)
(* report or a check-in is applied some time after it was let in, so both  *)
(* need what the handlers that still hold one may rely on.                 *)
(***************************************************************************)
Scheduled(i) == assignment[i] # "none" \/ Deleted(i)
Credentialed(i) == credential[i] # "none" \/ Deleted(i)

MayProceed(r) ==
    /\ req[r].pc \in {"spec", "checkin", "append"} => Scheduled(req[r].inst)
    /\ At(r, "append") => Credentialed(req[r].inst)

LetIn == \A r \in Requests : MayProceed(r)

Progress == ScheduleMatchesLifecycle /\ CredentialGatesProgress

\* An event that is appended for an installation whose handler was let in.
GuardedAppend(i, report) ==
    /\ AppendLifecycleEvent(i, report)
    /\ assignment[i] # "none"
    /\ (report = ServerEvent("PXE_BOOTED")) \/ (report \in Reports /\ credential[i] # "none")

\* The ranks the properties compare.
LEMMA Ranks ==
    /\ \A s \in ServerStages : ~Terminal(s) /\ ~(Rank[s] > Rank["PXE_BOOTED"])
    /\ \A s, t \in Stages : Terminal(s) => ~CanAdvance(s, t)
  <1>1. \A s \in ServerStages : ~Terminal(s) /\ ~(Rank[s] > Rank["PXE_BOOTED"])
    BY DEF ServerStages, Terminal, TerminalStages, Rank
  <1>2. \A s, t \in Stages : Terminal(s) => ~CanAdvance(s, t)
    BY NoStageIsNoStage
    DEF Terminal, TerminalStages, CanAdvance, MayFail, Successors
  <1>3. QED
    BY <1>1, <1>2

\* Steps that touch neither the history nor the assignment of an installation,
\* nor its credential.
LEMMA ProgressUntouched ==
    ASSUME Progress, UNCHANGED <<specMachine, assignment, events, credential>>
    PROVE  Progress'
  BY DEF Progress, ScheduleMatchesLifecycle, CredentialGatesProgress, SpecExists, CurrentStage,
     Terminal, Rank

\* The same, of one installation.
Schedule(i) ==
    /\ SpecExists(i) /\ assignment[i] = "none" => Len(events[i]) = 1 /\ credential[i] = "none"
    /\ assignment[i] # "none" => Len(events[i]) >= 2 /\ events[i][2].stage = "QUEUED"

Gates(i) ==
    events[i] # <<>> =>
        /\ Rank[CurrentStage(i)] > Rank["PXE_BOOTED"] => credential[i] # "none"
        /\ Terminal(CurrentStage(i)) => credential[i] = "revoked"

\* A step that is about one installation leaves the others alone.
LEMMA ProgressOfOne ==
    ASSUME Progress, NEW i \in Installations, Schedule(i)', Gates(i)',
           \A j \in Installations : j # i =>
              /\ specMachine'[j] = specMachine[j] /\ assignment'[j] = assignment[j]
              /\ events'[j] = events[j] /\ credential'[j] = credential[j]
    PROVE  Progress'
  <1>1. \A j \in Installations : j # i => Schedule(j)' /\ Gates(j)'
    BY DEF Progress, ScheduleMatchesLifecycle, CredentialGatesProgress, Schedule, Gates,
       SpecExists, CurrentStage, Terminal
  <1>2. QED
    BY <1>1 DEF Progress, ScheduleMatchesLifecycle, CredentialGatesProgress, Schedule, Gates

\* Appending an event for a handler that was let in.
LEMMA AppendKeepsProgress ==
    ASSUME StoreInv, Progress, NEW i \in Installations,
           NEW report \in Reports \cup {ServerEvent("PXE_BOOTED")}, GuardedAppend(i, report)
    PROVE  Progress'
  <1>1. /\ events[i] \in Seq(EventType) /\ report \in EventType
        /\ credential \in [Installations -> CredentialStates]
    BY ServerEventType, InputAssumption DEF StoreInv, TypeOK, ServerStages
  <1>2. /\ events' = [events EXCEPT ![i] = Append(@, report)]
        /\ UNCHANGED <<specMachine, assignment>>
        /\ credential' = IF Terminal(report.stage) /\ credential[i] # "none"
                         THEN [credential EXCEPT ![i] = "revoked"] ELSE credential
    BY DEF GuardedAppend, AppendLifecycleEvent, WithEvent, assignmentVars
  <1>3. /\ Len(events[i]) >= 2 /\ events[i][2].stage = "QUEUED" /\ assignment[i] # "none"
    BY DEF GuardedAppend, Progress, ScheduleMatchesLifecycle
  <1>4. /\ events'[i] = Append(events[i], report)
        /\ \A j \in Installations : j # i => events'[j] = events[j]
    BY <1>2 DEF StoreInv, TypeOK
  <1>5. /\ Len(events'[i]) = Len(events[i]) + 1
        /\ events'[i][Len(events[i]) + 1] = report
        /\ events'[i][2] = events[i][2]
    BY <1>1, <1>3, <1>4
  <1>6. Schedule(i)'
    BY <1>1, <1>2, <1>3, <1>5 DEF Schedule
  <1>7. CurrentStage(i)' = report.stage
    BY <1>1, <1>5 DEF CurrentStage
  <1>8. Gates(i)'
    <2>1. CASE report = ServerEvent("PXE_BOOTED")
      <3>1. report.stage = "PXE_BOOTED" /\ report.stage \in ServerStages
        BY <2>1 DEF ServerEvent, ServerStages
      <3>2. QED
        BY <1>7, <3>1, Ranks DEF Gates, Terminal
    <2>2. CASE credential[i] # "none"
      <3>1. credential'[i] # "none" /\ (Terminal(report.stage) => credential'[i] = "revoked")
        BY <1>1, <1>2, <2>2
      <3>2. QED
        BY <1>7, <3>1 DEF Gates, Terminal
    <2>3. QED
      BY <2>1, <2>2 DEF GuardedAppend
  <1>9. QED
    <2>1. \A j \in Installations : j # i =>
              /\ specMachine'[j] = specMachine[j] /\ assignment'[j] = assignment[j]
              /\ events'[j] = events[j] /\ credential'[j] = credential[j]
      BY <1>1, <1>2, <1>4
    <2>2. QED
      BY <1>6, <1>8, <2>1, ProgressOfOne

\* Arming finds the installation at CREATED and queues it.
LEMMA ArmKeepsProgress ==
    ASSUME StoreInv, Progress, NEW m \in Machines, NEW i \in Installations,
           ArmInstallation(m, i)
    PROVE  Progress'
  <1>1. /\ specMachine[i] # None /\ assignment[i] = "none"
        /\ Len(events[i]) = 1 /\ credential[i] = "none"
    BY NoneAssumption
    DEF ArmInstallation, NeverAssigned, SpecExists, Progress, ScheduleMatchesLifecycle
  <1>2. events[i] \in Seq(EventType) /\ events[i][1].stage = "CREATED"
    BY <1>1 DEF StoreInv, TypeOK, LifecycleOrdered, SpecExists
  <1>3. ~KeyTaken(i, ServerKey("QUEUED"))
    BY <1>1, <1>2 DEF ArmInstallation, AppendServerLifecycleEvent, CanRecordServer
  <1>4. events'[i] = Append(events[i], ServerEvent("QUEUED"))
    BY <1>3 DEF ArmInstallation, AppendServerLifecycleEvent, WithEvent, StoreInv, TypeOK
  <1>5. /\ Len(events'[i]) = 2 /\ events'[i] # <<>>
        /\ events'[i][2] = ServerEvent("QUEUED")
    BY <1>1, <1>2, <1>4
  <1>6. ServerEvent("QUEUED").stage = "QUEUED" /\ "QUEUED" \in ServerStages
    BY DEF ServerEvent, ServerStages
  <1>7. Schedule(i)' /\ Gates(i)'
    <2>1. assignment'[i] = "armed"
      BY DEF ArmInstallation, StoreInv, TypeOK
    <2>2. CurrentStage(i)' = "QUEUED"
      BY <1>5, <1>6 DEF CurrentStage
    <2>3. QED
      BY <1>5, <1>6, <2>1, <2>2, Ranks DEF Schedule, Gates, Terminal
  <1>8. \A j \in Installations : j # i =>
              /\ specMachine'[j] = specMachine[j] /\ assignment'[j] = assignment[j]
              /\ events'[j] = events[j] /\ credential'[j] = credential[j]
    BY <1>3 DEF ArmInstallation, AppendServerLifecycleEvent, WithEvent, StoreInv, TypeOK
  <1>9. QED
    BY <1>7, <1>8, ProgressOfOne

\* A new installation is at CREATED.
LEMMA CreateKeepsProgress ==
    ASSUME StoreInv, Progress, NEW m \in Machines, NEW i \in Installations,
           CreateInstallationSpec(i, m)
    PROVE  Progress'
  <1>1. /\ specMachine[i] = None /\ assignment[i] = "none"
        /\ events[i] = <<>> /\ credential[i] = "none"
    BY DomainAssumption
    DEF CreateInstallationSpec, Fresh, SpecExists, StoreInv, ReferentialIntegrity
  <1>2. events' = WithEvent(i, ServerEvent("CREATED"))
    BY <1>1 DEF CreateInstallationSpec, AppendServerLifecycleEvent, KeyTaken
  <1>3. events'[i] = <<ServerEvent("CREATED")>>
    BY <1>1, <1>2 DEF WithEvent, StoreInv, TypeOK
  <1>4. ServerEvent("CREATED").stage = "CREATED" /\ "CREATED" \in ServerStages
    BY DEF ServerEvent, ServerStages
  <1>5. Schedule(i)' /\ Gates(i)'
    <2>1. Len(events'[i]) = 1 /\ CurrentStage(i)' = "CREATED"
      BY <1>3, <1>4 DEF CurrentStage
    <2>2. assignment'[i] = "none" /\ credential'[i] = "none"
      BY <1>1 DEF CreateInstallationSpec, assignmentVars
    <2>3. QED
      BY <1>4, <2>1, <2>2, Ranks DEF Schedule, Gates, Terminal
  <1>6. \A j \in Installations : j # i =>
              /\ specMachine'[j] = specMachine[j] /\ assignment'[j] = assignment[j]
              /\ events'[j] = events[j] /\ credential'[j] = credential[j]
    BY <1>2 DEF CreateInstallationSpec, WithEvent, assignmentVars, StoreInv, TypeOK
  <1>7. QED
    BY <1>5, <1>6, ProgressOfOne

\* The other operations on one installation.
LEMMA OperationKeepsProgress ==
    ASSUME StoreInv, Progress, NEW i \in Installations,
           \/ CancelAssignment(i) \/ ConsumeAssignment(i) \/ DeleteInstallation(i)
           \/ ReleaseCredential(i) \/ ExpireCredential(i)
    PROVE  Progress'
  <1> USE DEF StoreInv, TypeOK
  <1>a. Schedule(i) /\ Gates(i)
    BY DEF Progress, ScheduleMatchesLifecycle, CredentialGatesProgress, Schedule, Gates
  <1>1. \A j \in Installations : j # i =>
              /\ specMachine'[j] = specMachine[j] /\ assignment'[j] = assignment[j]
              /\ events'[j] = events[j] /\ credential'[j] = credential[j]
    BY DEF CancelAssignment, ConsumeAssignment, DeleteInstallation, ReleaseCredential,
       ExpireCredential, assignmentVars
  <1>2. CASE CancelAssignment(i) \/ ConsumeAssignment(i)
    <2>1. Schedule(i)' /\ Gates(i)'
      BY <1>2, <1>a DEF CancelAssignment, ConsumeAssignment, IsArmed, Schedule, Gates,
         SpecExists, CurrentStage, Terminal
    <2>2. QED
      BY <1>1, <2>1, ProgressOfOne
  <1>3. CASE DeleteInstallation(i)
    <2>1. Schedule(i)' /\ Gates(i)'
      BY <1>3 DEF DeleteInstallation, Schedule, Gates, SpecExists
    <2>2. QED
      BY <1>1, <2>1, ProgressOfOne
  <1>4. CASE ReleaseCredential(i)
    <2>1. assignment[i] # "none" /\ credential[i] = "none" /\ credential'[i] = "active"
          /\ assignment' = assignment /\ events' = events
      BY <1>4 DEF ReleaseCredential, assignmentVars
    <2>2. Schedule(i)' /\ Gates(i)'
      BY <1>a, <2>1 DEF Schedule, Gates, SpecExists, CurrentStage, Terminal
    <2>3. QED
      BY <1>1, <2>2, ProgressOfOne
  <1>5. CASE ExpireCredential(i)
    <2>1. credential[i] = "active" /\ credential'[i] = "expired"
          /\ UNCHANGED <<specMachine, assignment, events>>
      BY <1>5 DEF ExpireCredential, assignmentVars
    <2>2. Schedule(i)' /\ Gates(i)'
      BY <1>a, <2>1 DEF Schedule, Gates, SpecExists, CurrentStage, Terminal
    <2>3. QED
      BY <1>1, <2>2, ProgressOfOne
  <1>6. QED
    BY <1>2, <1>3, <1>4, <1>5

\* Whatever the server does keeps scheduling, lifecycle and credential in step.
LEMMA ProgressStep ==
    ASSUME StoreInv, HandlersOK, Progress, LetIn, [ProvisioningNext]_vars
    PROVE  Progress'
  <1>1. CASE UNCHANGED <<specMachine, assignment, events, credential>>
    BY <1>1, ProgressUntouched
  <1>2. ASSUME NEW r \in Requests, Consume(r)
        PROVE  Progress'
    BY <1>1, <1>2, OperationKeepsProgress
    DEF Consume, Handoff, Answer, storeVars, HandlersOK, Aimed, At
  <1>3. ASSUME NEW r \in Requests, CheckIn(r), ~Answer(r)
        PROVE  Progress'
    <2> DEFINE i == req[r].inst
    <2>1. /\ i \in Installations /\ At(r, "checkin")
          /\ AppendLifecycleEvent(i, ServerEvent("PXE_BOOTED"))
      BY <1>3 DEF CheckIn, At, HandlersOK, Aimed
    <2>2. ~Deleted(i)
      BY <2>1 DEF AppendLifecycleEvent, Accepts, StoreInv, DeletedIsFinal, Deleted
    <2>3. assignment[i] # "none"
      BY <2>1, <2>2 DEF At, LetIn, MayProceed, Scheduled
    <2> HIDE DEF i
    <2>4. QED
      BY <2>1, <2>3, AppendKeepsProgress DEF GuardedAppend
  <1>a. ASSUME NEW r \in Requests, ApplyReport(r), ~Answer(r)
        PROVE  Progress'
    <2> DEFINE i == req[r].inst
               report == req[r].report
    <2>1. /\ i \in Installations /\ At(r, "append") /\ report \in Reports
          /\ AppendLifecycleEvent(i, report)
      BY <1>a DEF ApplyReport, At, HandlersOK, Aimed
    <2>2. ~Deleted(i)
      BY <2>1 DEF AppendLifecycleEvent, Accepts, StoreInv, DeletedIsFinal, Deleted
    <2>3. assignment[i] # "none" /\ credential[i] # "none"
      BY <2>1, <2>2 DEF At, LetIn, MayProceed, Scheduled, Credentialed
    <2> HIDE DEF i, report
    <2>4. QED
      BY <2>1, <2>3, AppendKeepsProgress DEF GuardedAppend
  <1>4. ASSUME NEW r \in Requests, FinishCreate(r)
        PROVE  Progress'
    BY <1>1, <1>4, CreateKeepsProgress DEF FinishCreate, Answer, storeVars, HandlersOK, Aimed, At
  <1>5. CASE OperatorStep
    BY <1>1, <1>5, ArmKeepsProgress, OperationKeepsProgress
    DEF OperatorStep, SetMachinePolicy, DeleteMachine, assignmentVars
  <1>6. CASE CredentialStep(Routes)
    BY <1>6, OperationKeepsProgress DEF CredentialStep
  <1>7. ASSUME NEW r \in Requests, Arrive(r, Routes) \/ ReadMachine(r) \/ ReadAssignment(r)
               \/ WritePreseed(r) \/ Decide(r) \/ ReadSpec(r) \/ Answer(r)
        PROVE  Progress'
    BY <1>1, <1>7
    DEF Arrive, StartMaterial, StartTelemetry, StartDiscovery, StartCreate,
        DiscoverMachine, ReadMachine, ReadAssignment, WritePreseed, Decide, ReadSpec, Answer,
        storeVars, assignmentVars
  <1>8. CASE Crash \/ UNCHANGED vars
    BY <1>1, <1>8 DEF Crash, vars, storeVars
  <1>9. QED
    BY <1>2, <1>3, <1>a, <1>4, <1>5, <1>6, <1>7, <1>8 DEF ProvisioningNext, StoreStep, Handle

\* What let a handler in stays, or goes with its installation.
LEMMA LetInStays ==
    ASSUME StoreInv, [Next]_storeVars, NEW i \in Installations
    PROVE  /\ Scheduled(i) => Scheduled(i)'
           /\ Credentialed(i) => Credentialed(i)'
  <1> USE DomainAssumption DEF StoreInv, TypeOK, Scheduled, Credentialed, Deleted
  <1> DEFINE Stays == /\ Scheduled(i) => Scheduled(i)'
                      /\ Credentialed(i) => Credentialed(i)'
  <1>1. ASSUME NEW j \in Installations, DeleteInstallation(j)
        PROVE  Stays
    BY <1>1 DEF DeleteInstallation, AuditedDeletion
  <1>2. ASSUME NEW m \in Machines, DeleteMachine(m)
        PROVE  Stays
    BY <1>2 DEF DeleteMachine, AuditedDeletion, assignmentVars
  <1>3. ASSUME NEW j \in Installations,
               \/ CancelAssignment(j) \/ ConsumeAssignment(j)
               \/ \E m \in Machines : ArmInstallation(m, j)
        PROVE  Stays
    BY <1>3 DEF CancelAssignment, ConsumeAssignment, ArmInstallation, Audited
  <1>4. ASSUME NEW j \in Installations, NEW report,
               ReleaseCredential(j) \/ ExpireCredential(j) \/ AppendLifecycleEvent(j, report)
        PROVE  Stays
    BY <1>4 DEF ReleaseCredential, ExpireCredential, AppendLifecycleEvent, Audited,
       assignmentVars
  <1>5. CASE UNCHANGED <<assignment, credential>> /\ audit \subseteq audit'
    BY <1>5
  <1>6. QED
    BY <1>1, <1>2, <1>3, <1>4, <1>5
    DEF Next, MachineOperation, InstallationOperation, storeVars, assignmentVars,
        DiscoverMachine, SetMachinePolicy, CreateInstallationSpec, Audited

\* A handler is at a point that needs a schedule or a credential only when it
\* was there before, or has just seen one.
LEMMA LetInStep ==
    ASSUME StoreInv, HandlersOK, Progress, LetIn, [ProvisioningNext]_vars
    PROVE  LetIn'
  <1>a. [Next]_storeVars /\ HandlersOK'
    BY ServerStepOK DEF StoreInv, StepOK
  <1>b. \A r \in Requests :
           req[r].pc \in {"spec", "checkin", "append"} => req[r].inst \in Installations
    BY DEF HandlersOK, Aimed
  <1>1. ASSUME NEW r \in Requests, req'[r] = req[r]
        PROVE  MayProceed(r)'
    <2>1. \A i \in Installations : /\ Scheduled(i) => Scheduled(i)'
                                   /\ Credentialed(i) => Credentialed(i)'
      BY <1>a, LetInStays
    <2>2. QED
      BY <1>1, <1>b, <2>1 DEF LetIn, MayProceed, At, Scheduled, Credentialed, Deleted
  <1>2. ASSUME NEW r \in Requests, req'[r].pc \notin {"spec", "checkin", "append"}
        PROVE  MayProceed(r)'
    BY <1>2 DEF MayProceed, At
  <1>3. ASSUME NEW r \in Requests, \A q \in Requests : q # r => req'[q] = req[q],
               MayProceed(r)'
        PROVE  LetIn'
    BY <1>1, <1>3 DEF LetIn
  <1>4. ASSUME NEW r \in Requests, Done(r)
        PROVE  LetIn'
    BY <1>2, <1>3, <1>4, IdleFields DEF Done, HandlersOK, RequestsTypeOK
  <1>5. ASSUME NEW r \in Requests, NEW i \in Installations, NEW report \in Reports,
               StartTelemetry(r, i, report)
        PROVE  LetIn'
    <2>1. credential[i] # "none" /\ assignment[i] # "none"
      <3>1. credential[i] = "active"
        BY <1>5 DEF StartTelemetry, Authenticates
      <3>2. SpecExists(i)
        BY <3>1 DEF StoreInv, ReferentialIntegrity
      <3>3. QED
        BY <3>1, <3>2 DEF Progress, ScheduleMatchesLifecycle
    <2>2. UNCHANGED <<assignment, credential, audit>>
      BY <1>5 DEF StartTelemetry, storeVars
    <2>3. req'[r].inst = i /\ \A q \in Requests : q # r => req'[q] = req[q]
      BY <1>5 DEF StartTelemetry, HandlersOK, RequestsTypeOK, Idle
    <2>4. QED
      BY <1>3, <2>1, <2>2, <2>3 DEF MayProceed, Scheduled, Credentialed
  <1>6. ASSUME NEW r \in Requests, Decide(r), ~Answer(r)
        PROVE  LetIn'
    <2>1. PICK i \in Installations : /\ assignment[i] = "armed"
                                     /\ req' = [req EXCEPT ![r].pc = "spec", ![r].inst = i]
                                     /\ UNCHANGED storeVars
      BY <1>6 DEF Decide, Active, IsArmed
    <2>2. req[r] \in RequestType
      BY <1>6, BusyIsTyped DEF Decide, At, HandlersOK
    <2>3. /\ req'[r].pc = "spec" /\ req'[r].inst = i
          /\ \A q \in Requests : q # r => req'[q] = req[q]
      BY <2>1, <2>2 DEF HandlersOK, RequestsTypeOK, RequestType
    <2>4. QED
      BY <1>3, <2>1, <2>3 DEF MayProceed, At, Scheduled, storeVars
  <1>7. ASSUME NEW r \in Requests, ReadSpec(r), ~Answer(r)
        PROVE  LetIn'
    <2>1. req[r] \in RequestType /\ Scheduled(req[r].inst) /\ req[r].inst \in Installations
      BY <1>7, <1>b, BusyIsTyped DEF ReadSpec, At, HandlersOK, LetIn, MayProceed
    <2>2. req' = [req EXCEPT ![r].pc = "checkin"] /\ UNCHANGED storeVars
      BY <1>7 DEF ReadSpec
    <2>3. /\ req'[r].pc = "checkin" /\ req'[r].inst = req[r].inst
          /\ \A q \in Requests : q # r => req'[q] = req[q]
      BY <2>1, <2>2 DEF HandlersOK, RequestsTypeOK, RequestType
    <2>4. QED
      BY <1>3, <2>1, <2>2, <2>3 DEF MayProceed, At, Scheduled, Deleted, storeVars
  <1>8. ASSUME NEW r \in Requests, ReadMachine(r) \/ ReadAssignment(r) \/ Consume(r), ~Answer(r)
        PROVE  LetIn'
    <2>1. req[r] \in RequestType
      BY <1>8, BusyIsTyped DEF ReadMachine, ReadAssignment, Consume, At, HandlersOK
    <2>2. /\ req'[r].pc \in {"assignment", "consume", "write"}
          /\ \A q \in Requests : q # r => req'[q] = req[q]
      <3> USE <1>8, <2>1 DEF HandlersOK, RequestsTypeOK, RequestType
      <3>1. CASE ReadMachine(r)
        BY <3>1 DEF ReadMachine
      <3>2. CASE ReadAssignment(r)
        BY <3>2 DEF ReadAssignment
      <3>3. CASE Consume(r)
        BY <3>3 DEF Consume
      <3>4. QED
        BY <3>1, <3>2, <3>3
    <2>3. QED
      BY <1>2, <1>3, <2>2
  <1>9. CASE req' = req
    BY <1>1, <1>9 DEF LetIn
  <1>10. ASSUME NEW r \in Requests,
                \/ \E i \in Installations, op \in {"material", "preseed"} :
                      StartMaterial(r, op, i)
                \/ \E op \in {"ipxe", "json"}, obs \in Observations,
                      state \in ObservedStates, m \in Machines :
                      StartDiscovery(r, op, obs, state, m)
                \/ \E m \in Machines : StartCreate(r, m)
         PROVE  LetIn'
    <2>1. CASE req' # req
      <3>1. /\ req'[r].pc \in {"machine", "decide", "create"}
            /\ \A q \in Requests : q # r => req'[q] = req[q]
        BY <1>10, <2>1
        DEF StartMaterial, StartDiscovery, StartCreate, HandlersOK, RequestsTypeOK, Idle
      <3>2. QED
        BY <1>2, <1>3, <3>1
    <2>2. QED
      BY <1>9, <2>1
  <1>11. CASE OperatorStep \/ CredentialStep(Routes) \/ UNCHANGED vars
    BY <1>9, <1>11 DEF OperatorStep, CredentialStep, vars
  <1>12. CASE Crash
    BY <1>12, IdleFields DEF Crash, LetIn, MayProceed, At
  <1>13. ASSUME NEW r \in Requests, Handle(r)
         PROVE  LetIn'
    BY <1>4, <1>6, <1>7, <1>8, <1>13
    DEF Handle, ReadMachine, ReadAssignment, Consume, WritePreseed, Decide, ReadSpec, CheckIn,
        ApplyReport, FinishCreate, Answer
  <1>14. QED
    BY <1>5, <1>10, <1>11, <1>12, <1>13 DEF ProvisioningNext, StoreStep, Arrive

\* The invariant behind both properties.
THEOREM ServerProgress == ProvisioningSpec => [](Progress /\ LetIn)
  <1>1. ProvisioningInit => Progress /\ LetIn
    BY IdleFields
    DEF ProvisioningInit, Init, Progress, ScheduleMatchesLifecycle, CredentialGatesProgress,
        SpecExists, LetIn, MayProceed, At
  <1>2. StoreInv /\ HandlersOK /\ Progress /\ LetIn /\ [ProvisioningNext]_vars
            => (Progress /\ LetIn)'
    BY ProgressStep, LetInStep
  <1>3. QED
    BY <1>1, <1>2, ServerInvariant, PTL DEF ProvisioningSpec

\* Arming is never refused for an installation's lifecycle, however late the
\* check-ins and reports of other handlers are applied.
THEOREM ServerScheduleMatches == ProvisioningSpec => []ScheduleMatchesLifecycle
  <1>1. Progress => ScheduleMatchesLifecycle
    BY DEF Progress
  <1>2. QED
    BY <1>1, ServerProgress, PTL

\* Past PXE_BOOTED there has been a credential, and the end has revoked it.
THEOREM ServerCredentialGates == ProvisioningSpec => []CredentialGatesProgress
  <1>1. Progress => CredentialGatesProgress
    BY DEF Progress
  <1>2. QED
    BY <1>1, ServerProgress, PTL

(***************************************************************************)
(* The refinement of the one-shot boot lease: what each transaction does   *)
(* to the phase of its installation, what each handler does to its token.  *)
(***************************************************************************)
Phase(i) ==
    IF Deleted(i) THEN "deleted"
    ELSE IF ~SpecExists(i) THEN "fresh"
    ELSE CASE assignment[i] = "none" -> "idle"
           [] assignment[i] = "consumed" -> "spent"
           [] OTHER -> assignment[i]

Tokens == {i \in Installations : Delivering(i)}

\* The abstract variables are these.
LEMMA OneShotVars ==
    /\ OneShot!vars = <<[i \in Installations |-> Phase(i)], Tokens, handoffs>>
    /\ OneShot!vars' = <<[i \in Installations |-> Phase(i)'], Tokens', handoffs'>>
  BY DEF OneShot!vars, Phase, Tokens

\* A step that moves one installation from one phase to another.
Moves(i, from, to) ==
    /\ Phase(i) \in from
    /\ Phase(i)' = to
    /\ \A j \in Installations : j # i => Phase(j)' = Phase(j)

\* Such a step is a move of the abstract lease.
LEMMA MovesIsMove ==
    ASSUME NEW i \in Installations, NEW from, NEW to, Moves(i, from, to)
    PROVE  OneShot!Move(i, from, to)
  BY DEF Moves, OneShot!Move, Phase

\* A step that moves none.
PhasesStay == \A j \in Installations : Phase(j)' = Phase(j)

\* Spending an assignment.
LEMMA ConsumeMoves ==
    ASSUME StoreInv, NEW i \in Installations, ConsumeAssignment(i)
    PROVE  Moves(i, {"armed"}, "spent")
  BY DEF StoreInv, TypeOK, ConsumeAssignment, IsArmed, ReferentialIntegrity, DeletedIsFinal,
     Audited, Moves, Phase, Deleted, SpecExists

\* What the transactions do to the phases.
LEMMA StorePhases ==
    ASSUME StoreInv, [Next]_storeVars
    PROVE  \/ PhasesStay
           \/ \E i \in Installations :
                 \/ Moves(i, {"fresh"}, "idle")
                 \/ Moves(i, {"idle"}, "armed")
                 \/ CancelAssignment(i) /\ Moves(i, {"armed"}, "cancelled")
                 \/ ConsumeAssignment(i) /\ Moves(i, {"armed"}, "spent")
                 \/ Moves(i, {"idle", "spent", "cancelled"}, "deleted")
  <1> USE DomainAssumption, NoneAssumption
      DEF StoreInv, TypeOK, Phase, Deleted, SpecExists
  <1>1. ASSUME UNCHANGED <<specMachine, assignment>>,
               \A j \in Installations : <<j, "DELETED">> \in audit' <=> <<j, "DELETED">> \in audit
        PROVE  PhasesStay
    BY <1>1 DEF PhasesStay
  <1>2. ASSUME NEW m \in Machines,
               \/ DeleteMachine(m)
               \/ \E p \in OperatorPolicies : SetMachinePolicy(m, p)
               \/ \E obs \in Observations, state \in ObservedStates :
                     DiscoverMachine(obs, state, m)
        PROVE  PhasesStay
    BY <1>1, <1>2
    DEF DeleteMachine, SetMachinePolicy, DiscoverMachine, Audited, AuditedDeletion, assignmentVars
  <1>3. ASSUME NEW m \in Machines, NEW i \in Installations, CreateInstallationSpec(i, m)
        PROVE  Moves(i, {"fresh"}, "idle")
    BY <1>3
    DEF CreateInstallationSpec, Fresh, Audited, assignmentVars, ReferentialIntegrity, Moves
  <1>4. ASSUME NEW m \in Machines, NEW i \in Installations, ArmInstallation(m, i)
        PROVE  Moves(i, {"idle"}, "armed")
    BY <1>4 DEF ArmInstallation, NeverAssigned, DeletedIsFinal, Audited, Moves
  <1>5. ASSUME NEW i \in Installations, CancelAssignment(i)
        PROVE  Moves(i, {"armed"}, "cancelled")
    BY <1>5 DEF CancelAssignment, IsArmed, ReferentialIntegrity, DeletedIsFinal, Audited, Moves
  <1>6. ASSUME NEW i \in Installations, ConsumeAssignment(i)
        PROVE  Moves(i, {"armed"}, "spent")
    BY <1>6, ConsumeMoves
  <1>7. ASSUME NEW i \in Installations, DeleteInstallation(i)
        PROVE  Moves(i, {"idle", "spent", "cancelled"}, "deleted")
    BY <1>7
    DEF DeleteInstallation, IsArmed, AssignmentStates, DeletedIsFinal, AuditedDeletion, Moves
  <1>8. ASSUME NEW i \in Installations, ReleaseCredential(i) \/ ExpireCredential(i)
        PROVE  PhasesStay
    BY <1>1, <1>8 DEF ReleaseCredential, ExpireCredential, Audited, assignmentVars
  <1>9. ASSUME NEW i \in Installations, NEW report \in Reports \cup {ServerEvent("PXE_BOOTED")},
               AppendLifecycleEvent(i, report)
        PROVE  PhasesStay
    <2>1. report.stage # "DELETED"
      <3>1. report \in EventType
        BY InputAssumption, ServerEventType DEF ServerStages
      <3>2. report.stage \in Stages /\ "DELETED" \notin Stages
        BY <3>1 DEF EventType, Stages, ServerStages, InstallerStages, TerminalStages
      <3>3. QED
        BY <3>2
    <2>2. QED
      BY <1>1, <1>9, <2>1 DEF AppendLifecycleEvent, Audited, assignmentVars
  <1>10. CASE UNCHANGED storeVars
    BY <1>1, <1>10 DEF storeVars
  <1>11. QED
    BY <1>2, <1>3, <1>4, <1>5, <1>6, <1>7, <1>8, <1>9, <1>10
    DEF Next, MachineOperation, InstallationOperation

\* A step of the store under which no token comes or goes, and which spends no
\* assignment, is a step of the lease or none.
LEMMA StoreStepImplements ==
    ASSUME StoreInv, [Next]_storeVars, Tokens' = Tokens, handoffs' = handoffs,
           \A i \in Installations : ~ConsumeAssignment(i)
    PROVE  [OneShot!Next]_OneShot!vars
  <1>1. CASE PhasesStay
    BY <1>1, OneShotVars DEF PhasesStay
  <1>2. UNCHANGED <<{i \in Installations : Delivering(i)}, handoffs>>
    BY DEF Tokens
  <1>3. ASSUME NEW i \in Installations,
               \/ Moves(i, {"fresh"}, "idle")
               \/ Moves(i, {"idle"}, "armed")
               \/ Moves(i, {"armed"}, "cancelled")
               \/ Moves(i, {"idle", "spent", "cancelled"}, "deleted")
        PROVE  OneShot!Next
    BY <1>2, <1>3, MovesIsMove
    DEF OneShot!Next, OneShot!Create, OneShot!Arm, OneShot!Cancel, OneShot!Delete
  <1>4. QED
    BY <1>1, <1>3, StorePhases

\* Handlers that are not at "write", before or after, leave the tokens alone.
LEMMA TokensStay ==
    ASSUME NEW r \in Requests, ~At(r, "write"), req'[r].pc # "write",
           \A q \in Requests : q # r => req'[q] = req[q]
    PROVE  Tokens' = Tokens
  <1>1. \A q \in Requests, i \in Installations :
            req'[q].pc = "write" /\ req'[q].inst = i <=> At(q, "write") /\ req[q].inst = i
    BY DEF At
  <1>2. QED
    BY <1>1 DEF Tokens, Delivering, At

\* Spending the assignment creates the token.
LEMMA ConsumeImplements ==
    ASSUME StoreInv, HandlersOK, NEW r \in Requests, Consume(r), ~Answer(r)
    PROVE  OneShot!Next
  <1>0. PICK i \in Installations : i = req[r].inst
    BY DEF Consume, At, HandlersOK, Aimed
  <1>1. /\ req[r] \in RequestType /\ ~At(r, "write")
        /\ ConsumeAssignment(i) /\ handoffs' = handoffs
        /\ req' = [req EXCEPT ![r].pc = "write"]
    BY <1>0, BusyIsTyped DEF Consume, Handoff, At, HandlersOK
  <1>2. /\ req'[r].pc = "write" /\ req'[r].inst = i
        /\ \A q \in Requests : q # r => req'[q] = req[q]
    BY <1>0, <1>1 DEF HandlersOK, RequestsTypeOK, RequestType
  <1>3. {j \in Installations : Delivering(j)}' = {j \in Installations : Delivering(j)} \cup {i}
    BY <1>1, <1>2 DEF Delivering, At
  <1>4. Moves(i, {"armed"}, "spent")
    BY <1>1, ConsumeMoves
  <1>5. OneShot!Spend(i)
    BY <1>1, <1>3, <1>4, MovesIsMove DEF OneShot!Spend
  <1>6. QED
    BY <1>5 DEF OneShot!Next

\* Writing the response destroys it, whether or not the payload gets through.
LEMMA WriteImplements ==
    ASSUME HandlersOK, HandoffInv, NEW r \in Requests, WritePreseed(r)
    PROVE  OneShot!Next
  <1>0. PICK i \in Installations : i = req[r].inst
    BY DEF WritePreseed, At, HandlersOK, Aimed
  <1>1. /\ At(r, "write")
        /\ req' = [req EXCEPT ![r] = Idle]
        /\ UNCHANGED storeVars
    BY DEF WritePreseed, Answer, Done
  <1>2. /\ req'[r].pc # "write"
        /\ \A q \in Requests : q # r => req'[q] = req[q]
        /\ \A q \in Requests : At(q, "write") /\ req[q].inst = i => q = r
    BY <1>0, <1>1, IdleFields DEF HandlersOK, RequestsTypeOK, HandoffInv
  <1>3. handoffs' = handoffs \/ handoffs' = [handoffs EXCEPT ![i] = @ + 1]
    BY <1>0 DEF WritePreseed, Answer
  <1>4. /\ i \in {j \in Installations : Delivering(j)}
        /\ {j \in Installations : Delivering(j)}' = {j \in Installations : Delivering(j)} \ {i}
    <2>1. Delivering(i)
      BY <1>0, <1>1 DEF Delivering
    <2>2. ~Delivering(i)'
      BY <1>1, <1>2 DEF Delivering, At
    <2>3. \A j \in Installations : j # i => (Delivering(j)' <=> Delivering(j))
      BY <1>0, <1>1, <1>2 DEF Delivering, At
    <2>4. QED
      BY <2>1, <2>2, <2>3
  <1>5. \A j \in Installations : Phase(j)' = Phase(j)
    BY <1>1 DEF Phase, Deleted, SpecExists, storeVars
  <1>6. CASE handoffs' = handoffs
    <2>1. OneShot!Lose({i})
      BY <1>4, <1>5, <1>6 DEF OneShot!Lose, Phase
    <2>2. QED
      BY <2>1 DEF OneShot!Next
  <1>7. CASE handoffs' = [handoffs EXCEPT ![i] = @ + 1]
    <2>1. OneShot!Deliver(i)
      BY <1>4, <1>5, <1>7 DEF OneShot!Deliver, Phase
    <2>2. QED
      BY <2>1 DEF OneShot!Next
  <1>8. QED
    BY <1>3, <1>6, <1>7

\* A crash takes every token with it.
LEMMA CrashImplements ==
    ASSUME Crash
    PROVE  OneShot!Next
  <1>1. {j \in Installations : Delivering(j)}' = {}
    BY IdleFields DEF Crash, Delivering, At
  <1>2. \A j \in Installations : Phase(j)' = Phase(j)
    BY DEF Crash, Phase, Deleted, SpecExists, storeVars
  <1>3. OneShot!Lose({j \in Installations : Delivering(j)})
    BY <1>1, <1>2 DEF OneShot!Lose, Phase, Crash
  <1>4. QED
    BY <1>3 DEF OneShot!Next

\* Every step of the server is a step of the lease, or none.
LEMMA ServerStepImplements ==
    ASSUME StoreInv, HandlersOK, HandoffInv, [ProvisioningNext]_vars
    PROVE  [OneShot!Next]_OneShot!vars
  <1>a. [Next]_storeVars
    BY ServerStepOK DEF StoreInv, StepOK
  <1>1. ASSUME UNCHANGED storeVars, Tokens' = Tokens, handoffs' = handoffs
        PROVE  [OneShot!Next]_OneShot!vars
    BY <1>1, OneShotVars DEF Phase, Deleted, SpecExists, storeVars
  <1>2. ASSUME NEW r \in Requests, Answer(r), ~At(r, "write")
        PROVE  [OneShot!Next]_OneShot!vars
    <2>1. req'[r].pc # "write" /\ \A q \in Requests : q # r => req'[q] = req[q]
      BY <1>2, IdleFields DEF Answer, Done, HandlersOK, RequestsTypeOK
    <2>2. QED
      BY <1>1, <1>2, <2>1, TokensStay DEF Answer
  <1>3. ASSUME NEW r \in Requests, Consume(r) \/ WritePreseed(r)
        PROVE  [OneShot!Next]_OneShot!vars
    BY <1>2, <1>3, ConsumeImplements, WriteImplements DEF Consume, At
  <1>4. ASSUME NEW r \in Requests, ReadMachine(r) \/ ReadAssignment(r) \/ Decide(r) \/ ReadSpec(r)
        PROVE  [OneShot!Next]_OneShot!vars
    <2>1. req[r] \in RequestType /\ ~At(r, "write")
      BY <1>4, BusyIsTyped DEF ReadMachine, ReadAssignment, Decide, ReadSpec, At, HandlersOK
    <2>2. CASE Answer(r)
      BY <1>2, <2>1, <2>2
    <2>3. CASE ~Answer(r)
      <3>1. /\ UNCHANGED <<storeVars, handoffs>> /\ req'[r].pc # "write"
            /\ \A q \in Requests : q # r => req'[q] = req[q]
        <4> USE <2>1, <2>3 DEF HandlersOK, RequestsTypeOK, RequestType
        <4>1. CASE ReadMachine(r)
          BY <4>1 DEF ReadMachine
        <4>2. CASE ReadAssignment(r)
          BY <4>2 DEF ReadAssignment
        <4>3. CASE Decide(r)
          BY <4>3 DEF Decide
        <4>4. CASE ReadSpec(r)
          BY <4>4 DEF ReadSpec
        <4>5. QED
          BY <1>4, <4>1, <4>2, <4>3, <4>4
      <3>2. QED
        BY <1>1, <2>1, <3>1, TokensStay
    <2>4. QED
      BY <2>2, <2>3
  <1>5. ASSUME handoffs' = handoffs, Tokens' = Tokens, UNCHANGED assignment
        PROVE  [OneShot!Next]_OneShot!vars
    <2>1. \A i \in Installations : ~ConsumeAssignment(i)
      BY <1>5 DEF ConsumeAssignment, IsArmed, StoreInv, TypeOK
    <2>2. QED
      BY <1>a, <1>5, <2>1, StoreStepImplements
  <1>6. ASSUME NEW r \in Requests, CheckIn(r) \/ ApplyReport(r) \/ FinishCreate(r)
        PROVE  [OneShot!Next]_OneShot!vars
    <2>1. ~At(r, "write") /\ Done(r) /\ UNCHANGED <<assignment, handoffs>>
      BY <1>6
      DEF CheckIn, ApplyReport, FinishCreate, AppendLifecycleEvent, CreateInstallationSpec,
          Answer, storeVars, assignmentVars, At
    <2>2. req'[r].pc # "write" /\ \A q \in Requests : q # r => req'[q] = req[q]
      BY <2>1, IdleFields DEF Done, HandlersOK, RequestsTypeOK
    <2>3. QED
      BY <1>5, <2>1, <2>2, TokensStay
  <1>7. ASSUME NEW r \in Requests, Arrive(r, Routes)
        PROVE  [OneShot!Next]_OneShot!vars
    <2>1. ~At(r, "write") /\ UNCHANGED <<assignment, handoffs>>
      BY <1>7
      DEF Arrive, StartMaterial, StartTelemetry, StartDiscovery, StartCreate,
          DiscoverMachine, storeVars, assignmentVars, At
    <2>2. req'[r].pc # "write" /\ \A q \in Requests : q # r => req'[q] = req[q]
      BY <1>7, <2>1
      DEF Arrive, StartMaterial, StartTelemetry, StartDiscovery, StartCreate,
          HandlersOK, RequestsTypeOK, At, Idle
    <2>3. QED
      BY <1>5, <2>1, <2>2, TokensStay
  <1>8. CASE OperatorStep \/ CredentialStep(Routes)
    <2>1. Tokens' = Tokens /\ handoffs' = handoffs
      BY <1>8 DEF OperatorStep, CredentialStep, Tokens, Delivering, At
    <2>2. \A i \in Installations : ~ConsumeAssignment(i)
      BY <1>8
      DEF OperatorStep, CredentialStep, SetMachinePolicy, DeleteMachine, ArmInstallation,
          CancelAssignment, DeleteInstallation, ReleaseCredential, ExpireCredential,
          ConsumeAssignment, IsArmed, NeverAssigned, StoreInv, TypeOK, assignmentVars
    <2>3. QED
      BY <1>a, <2>1, <2>2, StoreStepImplements
  <1>9. CASE Crash
    BY <1>9, CrashImplements
  <1>10. CASE UNCHANGED vars
    BY <1>1, <1>10 DEF vars, Tokens, Delivering, At
  <1>11. QED
    BY <1>3, <1>4, <1>6, <1>7, <1>8, <1>9, <1>10 DEF ProvisioningNext, StoreStep, Handle

\* The server implements the one-shot boot lease: however requests interleave
\* and whenever the server stops, an armed installation yields one token, and
\* a token one delivery or none.
THEOREM ServerImplementsOneShotBoot == ProvisioningSpec => ImplementsOneShotBoot
  <1>1. ProvisioningInit => OneShot!Init
    BY IdleFields
    DEF ProvisioningInit, Init, OneShot!Init, Deleted, SpecExists, Delivering, At
  <1>2. ProvisioningInit => HandoffInv
    BY IdleFields DEF ProvisioningInit, HandoffInv, At
  <1>3. StoreInv /\ HandlersOK /\ HandoffInv /\ [ProvisioningNext]_vars
            => HandoffInv' /\ [OneShot!Next]_OneShot!vars
    BY HandoffStep, ServerStepImplements
  <1>4. QED
    BY <1>1, <1>2, <1>3, ServerInvariant, PTL
    DEF ProvisioningSpec, ImplementsOneShotBoot, OneShot!Spec

=============================================================================
