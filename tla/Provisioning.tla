---------------------------- MODULE Provisioning ----------------------------
(***************************************************************************)
(* The HTTP server in front of the store, internal/httpapi: discovery,     *)
(* public boot material, the one-shot Preseed handoff and installer        *)
(* telemetry, with any number of requests in flight.  A handler reads the  *)
(* store several times and decides on what it read, so each store call is  *)
(* one step and everything else may happen between two of them: other      *)
(* requests, operators working in the console, a crash of the server.      *)
(*                                                                         *)
(* The console creates an installation in two steps, with the resolution   *)
(* of its artifacts between them; its other operations are one transaction *)
(* each and so one step.                                                   *)
(***************************************************************************)
EXTENDS InstallationStore

CONSTANTS
    Requests,         \* identities of requests in flight (bound: its size)
    SecureBootPolicy  \* AEGISPXE_SECURE_BOOT_POLICY: required, audit, disabled

ASSUME SecureBootPolicyAssumption ==
    SecureBootPolicy \in {"required", "audit", "disabled"}

VARIABLES
    req,       \* the handler of each request: where it is and what it has read
    handoffs   \* history: responses that delivered the Preseed of an installation

vars == <<storeVars, req, handoffs>>

Operations == {"material", "preseed", "ipxe", "json", "telemetry", "create"}

\* The store call a handler makes next.
Points == {"machine", "assignment", "consume", "write", "decide", "spec",
           "checkin", "append", "create"}

Idle == [op |-> "none", pc |-> "idle", inst |-> None, mach |-> None,
         policy |-> None, secureBoot |-> None, report |-> None]

RequestType ==
    [op : Operations, pc : Points, inst : Installations \cup {None},
     mach : Machines \cup {None}, policy : Policies \cup {None},
     secureBoot : SecureBootStates \cup {None}, report : Reports \cup {None}]

\* The shape of the handlers' local state.
RequestsTypeOK ==
    /\ req \in [Requests -> RequestType \cup {Idle}]
    /\ handoffs \in [Installations -> Nat]

ProvisioningInit ==
    /\ Init
    /\ req = [r \in Requests |-> Idle]
    /\ handoffs = [i \in Installations |-> 0]

(***************************************************************************)
(* The gates.                                                              *)
(***************************************************************************)
AllowsProvision(state) == SecureBootPolicy = "required" => state = "enabled"

PublicBootAllowed(p, armed) == p = "provision" /\ armed

(***************************************************************************)
(* Moving a handler along.                                                 *)
(***************************************************************************)
At(r, pc) == req[r].pc = pc

Done(r) == req' = [req EXCEPT ![r] = Idle]

\* A handler that ends here without having changed the store: an error, a
\* rejection, or an answer that only reads.
Answer(r) == Done(r) /\ UNCHANGED <<storeVars, handoffs>>

(***************************************************************************)
(* Public boot material: the boot script, kernel, initrd and shim          *)
(* ("material"), and the Preseed.  loadPublicBootContext reads the spec,   *)
(* the machine and the assignment, in that order, then applies the gates.  *)
(***************************************************************************)
StartMaterial(r, op, i) ==
    /\ At(r, "idle")
    /\ SpecExists(i)
    /\ req' = [req EXCEPT ![r] = [Idle EXCEPT !.op = op, !.pc = "machine",
                                              !.inst = i, !.mach = specMachine[i]]]
    /\ UNCHANGED <<storeVars, handoffs>>

\* Faulty variant: the row is used without a look at what the query returned.
ReadMachine_NoRow(r) ==
    /\ At(r, "machine")
    /\ req' = [req EXCEPT ![r].pc = "assignment",
                          ![r].policy = IF MachineExists(req[r].mach)
                                        THEN policy[req[r].mach] ELSE ""]
    /\ UNCHANGED <<storeVars, handoffs>>

ReadMachine(r) ==
    /\ At(r, "machine")
    /\ \/ /\ MachineExists(req[r].mach)
          /\ req' = [req EXCEPT ![r].pc = "assignment",
                                ![r].policy = policy[req[r].mach],
                                ![r].secureBoot = secureBoot[req[r].mach]]
          /\ UNCHANGED <<storeVars, handoffs>>
       \/ ~MachineExists(req[r].mach) /\ Answer(r)

MaterialAllowed(r) ==
    /\ assignment[req[r].inst] # "none"
    /\ asgMachine[req[r].inst] = req[r].mach
    /\ AllowsProvision(req[r].secureBoot)
    /\ PublicBootAllowed(req[r].policy, IsArmed(req[r].inst))

\* The rejection, a rendering error and every non-consuming answer end alike.
ReadAssignment(r) ==
    /\ At(r, "assignment")
    /\ \/ /\ req[r].op = "preseed"
          /\ MaterialAllowed(r)
          /\ req' = [req EXCEPT ![r].pc = "consume"]
          /\ UNCHANGED <<storeVars, handoffs>>
       \/ Answer(r)

\* Faulty variant: the assignment stays armed for a retry of the download.
Handoff_Retryable(r) == IsArmed(req[r].inst) /\ UNCHANGED storeVars

\* Faulty variant: the handler relies on the assignment it has read before.
Handoff_Stale(r) ==
    LET i == req[r].inst IN
    /\ SpecExists(i)
    /\ assignment' = [assignment EXCEPT ![i] = "consumed"]
    /\ audit' = Audited(i, "ASSIGNMENT_CONSUMED")
    /\ UNCHANGED <<machineVars, specMachine, asgMachine, events, credential>>

Handoff(r) == ConsumeAssignment(req[r].inst)

\* Faulty variant: an assignment that is gone is waited for, not answered.
Consume_Waits(r) ==
    /\ At(r, "consume")
    /\ Handoff(r)
    /\ req' = [req EXCEPT ![r].pc = "write"]
    /\ UNCHANGED handoffs

Consume(r) ==
    /\ At(r, "consume")
    /\ \/ /\ Handoff(r)
          /\ req' = [req EXCEPT ![r].pc = "write"]
          /\ UNCHANGED handoffs
       \/ ~IsArmed(req[r].inst) /\ Answer(r)

\* The response is written after the assignment is spent.  A failed write is
\* logged and nothing is undone.
WritePreseed(r) ==
    /\ At(r, "write")
    /\ \/ /\ handoffs' = [handoffs EXCEPT ![req[r].inst] = @ + 1]
          /\ Done(r)
          /\ UNCHANGED storeVars
       \/ Answer(r)

(***************************************************************************)
(* Discovery.  The machine as the discovery transaction left it is what    *)
(* assignmentDecision works on; only the iPXE variant checks the boot in.  *)
(***************************************************************************)
StartDiscovery(r, op, obs, state, m) ==
    /\ At(r, "idle")
    /\ DiscoverMachine(obs, state, m)
    /\ req' = IF policy'[m] = "provision"
              THEN [req EXCEPT ![r] = [Idle EXCEPT !.op = op, !.pc = "decide", !.mach = m,
                                                   !.policy = policy'[m],
                                                   !.secureBoot = state]]
              ELSE req
    /\ UNCHANGED handoffs

\* Faulty variant: any installation of the machine will do.
Active_AnySpec(m, i) == specMachine[i] = m

Active(m, i) == asgMachine[i] = m /\ IsArmed(i)

Decide(r) ==
    /\ At(r, "decide")
    /\ \/ \E i \in Installations :
            /\ Active(req[r].mach, i)
            /\ AllowsProvision(req[r].secureBoot)
            /\ req' = [req EXCEPT ![r].pc = "spec", ![r].inst = i]
            /\ UNCHANGED <<storeVars, handoffs>>
       \/ /\ \/ ~AllowsProvision(req[r].secureBoot)
             \/ \A i \in Installations : ~Active(req[r].mach, i)
          /\ Answer(r)

ReadSpec(r) ==
    /\ At(r, "spec")
    /\ \/ /\ specMachine[req[r].inst] = req[r].mach
          /\ PublicBootAllowed(req[r].policy, TRUE)
          /\ req[r].op = "ipxe"
          /\ req' = [req EXCEPT ![r].pc = "checkin"]
          /\ UNCHANGED <<storeVars, handoffs>>
       \/ /\ specMachine[req[r].inst] # req[r].mach \/ req[r].op = "json"
          /\ Answer(r)

\* PXE_BOOTED is recorded, found recorded by an earlier boot, or refused.
CheckIn(r) ==
    /\ At(r, "checkin")
    /\ \/ /\ AppendLifecycleEvent(req[r].inst, ServerEvent("PXE_BOOTED"))
          /\ Done(r)
          /\ UNCHANGED handoffs
       \/ ~Accepts(req[r].inst, ServerEvent("PXE_BOOTED")) /\ Answer(r)

(***************************************************************************)
(* Telemetry: the bearer token or the MAC is verified by one store call,   *)
(* the report applied by a later one.                                      *)
(***************************************************************************)
\* Faulty variant: any known credential is taken.
Authenticates_Any(i) == TRUE

Authenticates(i) == credential[i] = "active"

StartTelemetry(r, i, report) ==
    /\ At(r, "idle")
    /\ Authenticates(i)
    /\ req' = [req EXCEPT ![r] = [Idle EXCEPT !.op = "telemetry", !.pc = "append",
                                              !.inst = i, !.report = report]]
    /\ UNCHANGED <<storeVars, handoffs>>

ApplyReport(r) ==
    /\ At(r, "append")
    /\ \/ /\ AppendLifecycleEvent(req[r].inst, req[r].report)
          /\ Done(r)
          /\ UNCHANGED handoffs
       \/ ~Accepts(req[r].inst, req[r].report) /\ Answer(r)

(***************************************************************************)
(* The operator console, boot trust and the passing of time.               *)
(***************************************************************************)
\* The wizard looks at the machine's policy, then resolves and verifies the
\* installer's artifacts over the network, and only then stores the spec.
StartCreate(r, m) ==
    /\ At(r, "idle")
    /\ MachineExists(m)
    /\ policy[m] = "provision"
    /\ req' = [req EXCEPT ![r] = [Idle EXCEPT !.op = "create", !.pc = "create", !.mach = m]]
    /\ UNCHANGED <<storeVars, handoffs>>

FinishCreate(r) ==
    /\ At(r, "create")
    /\ \/ /\ \E i \in Installations : CreateInstallationSpec(i, req[r].mach)
          /\ Done(r)
          /\ UNCHANGED handoffs
       \/ Answer(r)

OperatorStep ==
    /\ \/ \E m \in Machines :
            \/ \E p \in OperatorPolicies : SetMachinePolicy(m, p)
            \/ DeleteMachine(m)
            \/ \E i \in Installations : ArmInstallation(m, i)
       \/ \E i \in Installations : CancelAssignment(i) \/ DeleteInstallation(i)
    /\ UNCHANGED <<req, handoffs>>

CredentialStep(routes) ==
    /\ \E i \in Installations :
        \/ "installations" \in routes /\ ReleaseCredential(i)
        \/ ExpireCredential(i)
    /\ UNCHANGED <<req, handoffs>>

\* The process stops and restarts: the database stays, the requests are gone.
Crash ==
    /\ \E r \in Requests : ~At(r, "idle")
    /\ req' = [r \in Requests |-> Idle]
    /\ UNCHANGED <<storeVars, handoffs>>

Handle(r) ==
    \/ ReadMachine(r) \/ ReadAssignment(r) \/ Consume(r) \/ WritePreseed(r)
    \/ Decide(r) \/ ReadSpec(r) \/ CheckIn(r) \/ ApplyReport(r) \/ FinishCreate(r)

\* The groups of paths the handlers are registered under: /boot/, discovery,
\* /api/v1/installations/ (boot trust, telemetry and the reporter), /ui/.
Routes == {"boot", "discovery", "installations", "ui"}

\* A request comes in under one of the routes that are served.
Arrive(r, routes) ==
    \/ /\ "boot" \in routes
       /\ \E i \in Installations, op \in {"material", "preseed"} : StartMaterial(r, op, i)
    \/ /\ "discovery" \in routes
       /\ \E op \in {"ipxe", "json"}, obs \in Observations,
             state \in ObservedStates, m \in Machines :
             StartDiscovery(r, op, obs, state, m)
    \/ /\ "installations" \in routes
       /\ \E i \in Installations, report \in Reports : StartTelemetry(r, i, report)
    \/ /\ "ui" \in routes
       /\ \E m \in Machines : StartCreate(r, m)

\* What takes one transaction, and the passing of time.
StoreStep(routes) == ("ui" \in routes /\ OperatorStep) \/ CredentialStep(routes)

ProvisioningNext ==
    \/ \E r \in Requests : Arrive(r, Routes) \/ Handle(r)
    \/ StoreStep(Routes)
    \/ Crash

ProvisioningSpec == ProvisioningInit /\ [][ProvisioningNext]_vars

(***************************************************************************)
(* Properties.                                                             *)
(***************************************************************************)
Delivering(i) == \E r \in Requests : At(r, "write") /\ req[r].inst = i

\* The destructive payload of an installation reaches at most one response,
\* whatever concurrent downloads, cancellations, deletions and crashes do, and
\* never once the assignment is cancelled (installationPreseed reads the
\* assignment, renders, and only then spends it in a transaction of its own).
OneShotHandoff ==
    \A i \in Installations :
        /\ handoffs[i] + Cardinality({r \in Requests : At(r, "write") /\ req[r].inst = i}) <= 1
        /\ handoffs[i] > 0 \/ Delivering(i) => assignment[i] = "consumed" \/ Deleted(i)

\* Scheduling and lifecycle agree although check-ins arrive late: without an
\* assignment an installation is exactly CREATED, so arming it can never be
\* refused because of its lifecycle, and with one it has been QUEUED first.
ScheduleMatchesLifecycle ==
    \A i \in Installations :
        /\ SpecExists(i) /\ assignment[i] = "none" =>
              Len(events[i]) = 1 /\ credential[i] = "none"
        /\ assignment[i] # "none" => Len(events[i]) >= 2 /\ events[i][2].stage = "QUEUED"

\* Nothing the installer alone can know is inferred from HTTP reads: past
\* PXE_BOOTED an installation has had a credential, and its end revokes it for
\* good, also when reports authenticated before the end are applied after it.
CredentialGatesProgress ==
    \A i \in Installations :
        events[i] # <<>> =>
            LET stage == CurrentStage(i) IN
            /\ Rank[stage] > Rank["PXE_BOOTED"] => credential[i] # "none"
            /\ Terminal(stage) => credential[i] = "revoked"

\* The server implements the one-shot boot lease of ADR 0005.
OneShot == INSTANCE OneShotBoot WITH
    phase <- [i \in Installations |->
                IF Deleted(i) THEN "deleted"
                ELSE IF ~SpecExists(i) THEN "fresh"
                ELSE CASE assignment[i] = "none" -> "idle"
                       [] assignment[i] = "consumed" -> "spent"
                       [] OTHER -> assignment[i]],
    token <- {i \in Installations : Delivering(i)},
    delivered <- handoffs

\* Every step of the server is a step of the one-shot boot lease, or none.
ImplementsOneShotBoot == OneShot!Spec

\* Every request is answered, also when the installation, the machine or the
\* assignment it is about is gone by the time a handler looks again.
RequestsAreAnswered ==
    \A r \in Requests : (~At(r, "idle")) ~> At(r, "idle")

\* ARCHITECTURE.md asks that a blocked machine is refused provisioning; read
\* strictly, no assignment is spent while its machine is not on policy
\* provision.  The handler checks a policy it has read earlier.
SpentUnderProvisionPolicy ==
    [][\A i \in Installations :
          IsArmed(i) /\ assignment'[i] = "consumed" => policy[asgMachine[i]] = "provision"]_vars

=============================================================================
