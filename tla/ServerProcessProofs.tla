------------------------- MODULE ServerProcessProofs -------------------------
(***************************************************************************)
(* The process around the handlers adds nothing to what they do, so what   *)
(* is proved of Provisioning holds of the server as it starts, serves,     *)
(* stops, is killed and loses power; and a created recovery key is kept.   *)
(***************************************************************************)
EXTENDS ServerProcess, ProvisioningProofs

(***************************************************************************)
(* The process implements Provisioning.                                    *)
(***************************************************************************)
\* The end of the process is a crash to the handlers, or nothing.
LEMMA ExitIsCrash ==
    ASSUME RequestsTypeOK, Exit
    PROVE  [ProvisioningNext]_vars
  <1>1. CASE \E r \in Requests : ~At(r, "idle")
    BY <1>1 DEF Exit, Crash, ProvisioningNext
  <1>2. CASE \A r \in Requests : At(r, "idle")
    <2>1. \A r \in Requests : req[r] = Idle
      BY <1>2 DEF RequestsTypeOK, RequestType, Points, At
    <2>2. req' = req
      BY <2>1 DEF Exit, RequestsTypeOK
    <2>3. QED
      BY <2>2 DEF Exit, vars
  <1>3. QED
    BY <1>1, <1>2

\* Every step of the process is one of the handlers and the store, or a stutter.
LEMMA ProcessStepImplements ==
    ASSUME RequestsTypeOK, [ProcessNext]_serverVars
    PROVE  [ProvisioningNext]_vars
  <1>1. CASE Launch \/ Signal \/ Deadline \/ BeginShutdown \/ DrainPXE \/ \E l \in Listeners : Fail(l)
    BY <1>1 DEF Launch, Signal, Deadline, BeginShutdown, DrainPXE, Fail
  <1>2. CASE StartUp
    BY <1>2, ExitIsCrash
    DEF StartUp, ValidateAssets, OpenStore, LoadKey, CreateKey, WriteKey, SyncKey, RemoveKey, Configure
  <1>3. CASE DrainStudio \/ Kill \/ PowerLoss
    BY <1>3, ExitIsCrash DEF DrainStudio, Kill, PowerLoss
  <1>4. CASE Work
    <2>1. CASE StoreStep(Exposed)
      BY <2>1 DEF StoreStep, CredentialStep, ProvisioningNext, Routes
    <2>2. ASSUME NEW r \in Requests, Arrive(r, Exposed)
          PROVE  Arrive(r, Routes)
      BY <2>2 DEF Arrive, Routes
    <2>3. QED
      BY <1>4, <2>1, <2>2 DEF Work, ProvisioningNext
  <1>5. CASE \E r \in Requests : Serve(r)
    BY <1>5 DEF Serve, ProvisioningNext
  <1>6. CASE UNCHANGED serverVars
    BY <1>6 DEF serverVars
  <1>7. QED
    BY <1>1, <1>2, <1>3, <1>4, <1>5, <1>6 DEF ProcessNext, Stop

\* Every behaviour of the process is one of the handlers and the store: gates,
\* listeners and shutdown only take steps away, and an exit is a crash.
THEOREM ProcessImplementsProvisioning == ProcessSpec => ProvisioningSpec
  <1>1. ProcessInit => ProvisioningInit
    BY DEF ProcessInit
  <1>2. StoreInv /\ HandlersOK /\ [ProcessNext]_serverVars => [ProvisioningNext]_vars
    BY ProcessStepImplements DEF HandlersOK
  <1>3. ProvisioningInit => StoreInv /\ HandlersOK
    BY StoreInvInit, IdleFields
    DEF ProvisioningInit, HandlersOK, RequestsTypeOK, Aimed, At
  <1>4. StoreInv /\ HandlersOK /\ [ProvisioningNext]_vars => (StoreInv /\ HandlersOK)'
    BY ServerStepOK, StoreInvStep DEF StepOK, StoreInv
  <1>5. QED
    BY <1>1, <1>2, <1>3, <1>4, PTL DEF ProcessSpec, ProvisioningSpec

\* With start-up, drains, kills and power losses in between, the destructive
\* payload still reaches at most one response.
THEOREM ProcessOneShotHandoff == ProcessSpec => []OneShotHandoff
  BY ProcessImplementsProvisioning, ServerOneShotHandoff, PTL

\* A restart does not take the schedule and the lifecycle apart: an installation
\* without an assignment is exactly CREATED, one with an assignment was QUEUED.
THEOREM ProcessScheduleMatches == ProcessSpec => []ScheduleMatchesLifecycle
  BY ProcessImplementsProvisioning, ServerScheduleMatches, PTL

\* The process implements the one-shot boot lease.
THEOREM ProcessImplementsOneShotBoot == ProcessSpec => ImplementsOneShotBoot
  BY ProcessImplementsProvisioning, ServerImplementsOneShotBoot, PTL

(***************************************************************************)
(* The recovery key.                                                       *)
(***************************************************************************)
\* CreatedKeyIsKept is not inductive: the file a process works on is its own key
\* file, and a process that creates one was not preceded by one that announced a key.
KeyInv ==
    /\ proc \in ProcessType
    /\ keyFile \in [content : RecoveryKeys \cup {"absent", "unusable"}, synced : BOOLEAN]
    /\ announced \subseteq RecoveryKeys
    /\ announced # {} => keyFile.synced /\ announced = {keyFile.content}
    /\ proc.pc \in {"write", "sync"} => announced = {}
    /\ proc.pc \in {"down", "assets", "store", "key", "write", "sync"} => proc.key = None
    /\ proc.pc = "sync" => keyFile.content \in RecoveryKeys
    /\ proc.key # None => proc.key = keyFile.content

\* Whatever ends the process without touching the file.
LEMMA KeyExit ==
    ASSUME KeyInv, Exit, UNCHANGED <<keyFile, announced>>
    PROVE  KeyInv'
  BY DEF KeyInv, Exit, Down, ProcessType

\* Every step of the process keeps the invariant on the key file.
LEMMA KeyStep ==
    ASSUME KeyInv, [ProcessNext]_serverVars
    PROVE  KeyInv'
  <1> USE ProcessAssumption
  <1>1. CASE Launch \/ Signal \/ Deadline \/ BeginShutdown \/ DrainPXE
    BY <1>1 DEF Launch, Signal, Deadline, BeginShutdown, DrainPXE, Goes, KeyInv, ProcessType
  <1>2. CASE ValidateAssets \/ OpenStore \/ Configure
    BY <1>2, KeyExit DEF ValidateAssets, OpenStore, Configure, Goes, KeyInv, ProcessType
  <1>3. CASE LoadKey
    BY <1>3, KeyExit DEF LoadKey, KeyInv, ProcessType
  <1>4. CASE CreateKey
    <2>1. announced = {}
      BY <1>4 DEF CreateKey, Absent, KeyInv
    <2>2. CASE keyFile' = Unusable /\ Goes("write")
      BY <1>4, <2>1, <2>2 DEF CreateKey, Goes, Unusable, KeyInv, ProcessType
    <2>3. CASE Exit /\ UNCHANGED keyFile
      BY <1>4, <2>3, KeyExit DEF CreateKey
    <2>4. QED
      BY <1>4, <2>2, <2>3 DEF CreateKey
  <1>5. CASE RemoveKey /\ announced = {}
    BY <1>5 DEF RemoveKey, Exit, Down, Absent, KeyInv, ProcessType
  <1>6. CASE WriteKey
    <2>1. announced = {}
      BY <1>6 DEF WriteKey, KeyInv
    <2>2. CASE RemoveKey
      BY <1>5, <2>1, <2>2
    <2>3. ASSUME NEW k \in RecoveryKeys, keyFile' = [content |-> k, synced |-> FALSE],
                 Goes("sync"), UNCHANGED announced
          PROVE  KeyInv'
      BY <1>6, <2>1, <2>3 DEF WriteKey, Goes, KeyInv, ProcessType
    <2>4. QED
      BY <1>6, <2>2, <2>3 DEF WriteKey
  <1>7. CASE SyncKey
    <2>1. announced = {}
      BY <1>7 DEF SyncKey, KeyInv
    <2>2. QED
      BY <1>5, <1>7, <2>1 DEF SyncKey, Synced, KeyInv, ProcessType
  <1>8. CASE DrainStudio \/ Kill
    BY <1>8, KeyExit DEF DrainStudio, Kill
  <1>9. CASE PowerLoss
    <2>1. CASE keyFile.synced
      BY <1>9, <2>1, KeyExit DEF PowerLoss
    <2>2. CASE ~keyFile.synced
      <3>1. announced' = {} /\ proc' = Down
        BY <1>9, <2>2 DEF PowerLoss, Exit, KeyInv
      <3>2. keyFile' \in [content : RecoveryKeys \cup {"absent", "unusable"}, synced : BOOLEAN]
        <4>1. [keyFile EXCEPT !.synced = TRUE]
                 \in [content : RecoveryKeys \cup {"absent", "unusable"}, synced : BOOLEAN]
          BY DEF KeyInv
        <4>2. Absent \in [content : RecoveryKeys \cup {"absent", "unusable"}, synced : BOOLEAN]
          BY DEF Absent
        <4>3. [Unusable EXCEPT !.synced = TRUE]
                 \in [content : RecoveryKeys \cup {"absent", "unusable"}, synced : BOOLEAN]
          BY DEF Unusable
        <4>4. QED
          BY <1>9, <2>2, <4>1, <4>2, <4>3 DEF PowerLoss
      <3>3. QED
        BY <3>1, <3>2 DEF Down, KeyInv, ProcessType
    <2>3. QED
      BY <2>1, <2>2
  <1>10. CASE Work \/ (\E r \in Requests : Serve(r)) \/ (\E l \in Listeners : Fail(l))
           \/ UNCHANGED serverVars
    BY <1>10 DEF Work, Serve, Fail, serverVars, processVars, KeyInv
  <1>11. QED
    BY <1>1, <1>2, <1>3, <1>4, <1>6, <1>7, <1>8, <1>9, <1>10 DEF ProcessNext, StartUp, Stop

\* Once a recovery key has been reported as created it is synced to disk and is
\* the only one any later process of the server uses.
THEOREM ProcessKeepsCreatedKey == ProcessSpec => []CreatedKeyIsKept
  <1>1. ProcessInit => KeyInv
    BY DEF ProcessInit, KeyInv, Down, Absent, ProcessType
  <1>2. KeyInv /\ [ProcessNext]_serverVars => KeyInv'
    BY KeyStep
  <1>3. KeyInv => CreatedKeyIsKept
    BY DEF KeyInv, CreatedKeyIsKept
  <1>4. QED
    BY <1>1, <1>2, <1>3, PTL DEF ProcessSpec

(***************************************************************************)
(* The shape of the process: which steps of main hold a key, and when      *)
(* anything listens.                                                       *)
(***************************************************************************)
\* Down, nothing is held and nothing listens.
LEMMA DownOK ==
    ASSUME ProcessTypeOK, Exit, schema' \in Nat, announced' \subseteq RecoveryKeys,
           keyFile' \in [content : RecoveryKeys \cup {"absent", "unusable"}, synced : BOOLEAN]
    PROVE  ProcessTypeOK'
  BY DEF ProcessTypeOK, Exit, Down, ProcessType

\* The boot network is closed before the console is.
ClosedFirst == proc.pc = "drain_pxe" => listener["pxe"] = "closed"

\* The boot listener closes as its drain begins and does not open again.
LEMMA ClosedFirstStep ==
    ASSUME ProcessTypeOK, ClosedFirst, [ProcessNext]_serverVars
    PROVE  ClosedFirst'
  <1>1. CASE Exit
    BY <1>1 DEF Exit, Down, ClosedFirst
  <1>2. CASE Launch \/ Signal \/ Deadline \/ BeginShutdown \/ DrainPXE
    BY <1>2
    DEF Launch, Signal, Deadline, BeginShutdown, DrainPXE, Goes, ClosedFirst, ProcessTypeOK,
        ProcessType, Listeners
  <1>3. CASE StartUp
    BY <1>1, <1>3
    DEF StartUp, ValidateAssets, OpenStore, LoadKey, CreateKey, WriteKey, SyncKey, RemoveKey, Configure, Goes,
        ClosedFirst, ProcessTypeOK, ProcessType
  <1>4. ASSUME NEW l \in Listeners, Fail(l)
        PROVE  ClosedFirst'
    BY <1>4 DEF Fail, ClosedFirst, ProcessTypeOK, Listeners
  <1>5. CASE Work \/ (\E r \in Requests : Serve(r)) \/ UNCHANGED serverVars
    BY <1>5 DEF Work, Serve, serverVars, processVars, ClosedFirst
  <1>6. QED
    BY <1>1, <1>2, <1>3, <1>4, <1>5 DEF ProcessNext, Stop, DrainStudio, Kill, PowerLoss

\* Every step of the process keeps its shape.
LEMMA ProcessTypeStep ==
    ASSUME ProcessTypeOK, KeyInv, ClosedFirst, [ProcessNext]_serverVars
    PROVE  ProcessTypeOK'
  <1> USE ProcessAssumption
  <1> DEFINE Files == [content : RecoveryKeys \cup {"absent", "unusable"}, synced : BOOLEAN]
  <1>1. CASE Launch \/ Signal \/ Deadline
    BY <1>1 DEF Launch, Signal, Deadline, Goes, ProcessTypeOK, ProcessType
  <1>2. CASE BeginShutdown \/ DrainPXE \/ \E l \in Listeners : Fail(l)
    <2>1. CASE BeginShutdown
      BY <2>1 DEF BeginShutdown, ProcessTypeOK, ProcessType
    <2>2. CASE DrainPXE
      <3>1. listener["pxe"] = "closed"
        BY <2>2 DEF DrainPXE, ClosedFirst
      <3>2. \A l \in Listeners : listener'[l] = "closed"
        BY <2>2, <3>1 DEF DrainPXE, ProcessTypeOK, Listeners
      <3>3. listener' \in [Listeners -> {"closed", "open", "failed"}]
        BY <2>2 DEF DrainPXE, ProcessTypeOK
      <3>4. QED
        BY <2>2, <3>2, <3>3 DEF DrainPXE, Goes, ProcessTypeOK, ProcessType
    <2>3. ASSUME NEW l \in Listeners, Fail(l)
          PROVE  ProcessTypeOK'
      BY <2>3 DEF Fail, ProcessTypeOK
    <2>4. QED
      BY <1>2, <2>1, <2>2, <2>3
  <1>3. CASE ValidateAssets \/ OpenStore
    BY <1>3, DownOK DEF ValidateAssets, OpenStore, Goes, ProcessTypeOK, ProcessType
  <1>4. CASE LoadKey
    BY <1>4, DownOK DEF LoadKey, ProcessTypeOK, ProcessType
  <1>5. CASE CreateKey
    <2>1. CASE keyFile' = Unusable /\ Goes("write") /\ UNCHANGED <<listener, schema, announced>>
      BY <1>5, <2>1 DEF CreateKey, Goes, Unusable, ProcessTypeOK, ProcessType
    <2>2. CASE Exit
      <3>1. keyFile' \in Files
        <4>1. keyFile \in Files /\ Unusable \in Files
          BY DEF Unusable, ProcessTypeOK
        <4>2. QED
          BY <1>5, <4>1 DEF CreateKey
      <3>2. QED
        BY <1>5, <2>2, <3>1, DownOK DEF CreateKey, ProcessTypeOK
    <2>3. QED
      BY <1>5, <2>1, <2>2 DEF CreateKey
  <1>6. CASE RemoveKey /\ UNCHANGED schema
    <2>1. keyFile' \in Files
      BY <1>6 DEF RemoveKey, Absent
    <2>2. QED
      BY <1>6, <2>1, DownOK DEF RemoveKey, ProcessTypeOK
  <1>7. CASE WriteKey
    <2>1. ASSUME NEW k \in RecoveryKeys, keyFile' = [content |-> k, synced |-> FALSE],
                 Goes("sync"), UNCHANGED <<listener, schema, announced>>
          PROVE  ProcessTypeOK'
      BY <1>7, <2>1 DEF WriteKey, Goes, ProcessTypeOK, ProcessType
    <2>2. QED
      BY <1>6, <1>7, <2>1 DEF WriteKey
  <1>8. CASE SyncKey
    <2>1. keyFile.content \in RecoveryKeys
      BY <1>8 DEF SyncKey, KeyInv
    <2>2. QED
      BY <1>6, <1>8, <2>1 DEF SyncKey, Synced, ProcessTypeOK, ProcessType
  <1>9. CASE Configure
    <2>1. CASE Exit
      BY <1>9, <2>1, DownOK DEF Configure, ProcessTypeOK
    <2>2. CASE ~Exit
      <3>1. /\ listener' \in [Listeners -> {"closed", "open", "failed"}] /\ Goes("serve")
            /\ proc.pc = "config" /\ UNCHANGED <<keyFile, schema, announced>>
        BY <1>9, <2>2 DEF Configure
      <3>2. QED
        BY <3>1 DEF Goes, ProcessTypeOK, ProcessType
    <2>3. QED
      BY <2>1, <2>2
  <1>10. CASE DrainStudio \/ Kill
    BY <1>10, DownOK DEF DrainStudio, Kill, ProcessTypeOK
  <1>11. CASE PowerLoss
    <2>1. /\ [keyFile EXCEPT !.synced = TRUE] \in Files
          /\ Absent \in Files /\ [Unusable EXCEPT !.synced = TRUE] \in Files /\ keyFile \in Files
      BY DEF ProcessTypeOK, Absent, Unusable
    <2>2. keyFile' \in Files
      BY <1>11, <2>1 DEF PowerLoss
    <2>3. QED
      BY <1>11, <2>2, DownOK DEF PowerLoss, ProcessTypeOK
  <1>12. CASE Work \/ (\E r \in Requests : Serve(r)) \/ UNCHANGED serverVars
    BY <1>12 DEF Work, Serve, serverVars, processVars, ProcessTypeOK
  <1>13. QED
    BY <1>1, <1>2, <1>3, <1>4, <1>5, <1>7, <1>8, <1>9, <1>10, <1>11, <1>12
    DEF ProcessNext, StartUp, Stop

\* Nothing listens unless main holds a recovery key and serves or drains.
THEOREM ProcessTyped == ProcessSpec => []ProcessTypeOK
  <1> DEFINE Inv == KeyInv /\ ProcessTypeOK /\ ClosedFirst
  <1>1. ProcessInit => Inv
    BY ProcessAssumption
    DEF ProcessInit, KeyInv, ProcessTypeOK, Down, Absent, ProcessType, Listeners, ClosedFirst
  <1>2. Inv /\ [ProcessNext]_serverVars => Inv'
    BY KeyStep, ProcessTypeStep, ClosedFirstStep
  <1>3. Inv => ProcessTypeOK
    OBVIOUS
  <1> HIDE DEF Inv
  <1>4. QED
    BY <1>1, <1>2, <1>3, PTL DEF ProcessSpec

(***************************************************************************)
(* What the listeners expose.                                              *)
(***************************************************************************)
Uncredentialed == \A i \in Installations : credential[i] = "none"

\* No listener serves the paths of boot trust, telemetry and the reporter.
LEMMA InstallationsHidden == "installations" \notin Exposed
  BY DEF Exposed, Surface

\* A request that arrives leaves the credentials alone.
LEMMA ArrivalKeepsCredentials ==
    ASSUME NEW r \in Requests, Arrive(r, Exposed)
    PROVE  credential' = credential
  BY DEF Arrive, StartMaterial, StartDiscovery, DiscoverMachine, StartTelemetry, StartCreate,
     storeVars

\* So does a handler: only the end of an installation revokes one, if it has one.
LEMMA HandlerKeepsCredentials ==
    ASSUME HandlersOK, Uncredentialed, NEW r \in Requests, Handle(r)
    PROVE  credential' = credential
  <1>1. At(r, "checkin") \/ At(r, "append") => req[r].inst \in Installations
    BY DEF HandlersOK, Aimed, At
  <1>2. CASE CheckIn(r)
    BY <1>1, <1>2 DEF CheckIn, AppendLifecycleEvent, Answer, storeVars, Uncredentialed
  <1>3. CASE ApplyReport(r)
    BY <1>1, <1>3 DEF ApplyReport, AppendLifecycleEvent, Answer, storeVars, Uncredentialed
  <1>4. CASE ~CheckIn(r) /\ ~ApplyReport(r)
    BY <1>4
    DEF Handle, ReadMachine, ReadAssignment, Consume, Handoff, ConsumeAssignment, WritePreseed,
        Decide, ReadSpec, FinishCreate, CreateInstallationSpec, Answer, storeVars
  <1>5. QED
    BY <1>2, <1>3, <1>4

\* Nothing the process does brings a credential into being.
LEMMA UncredentialedStep ==
    ASSUME StoreInv, HandlersOK, Uncredentialed, [ProcessNext]_serverVars
    PROVE  Uncredentialed'
  <1>1. CASE UNCHANGED credential
    BY <1>1 DEF Uncredentialed
  <1>2. CASE Exit \/ UNCHANGED vars
    BY <1>1, <1>2 DEF Exit, vars, storeVars
  <1>3. CASE Launch \/ Signal \/ Deadline \/ BeginShutdown \/ DrainPXE \/ \E l \in Listeners : Fail(l)
    BY <1>2, <1>3 DEF Launch, Signal, Deadline, BeginShutdown, DrainPXE, Fail
  <1>4. CASE StartUp
    BY <1>2, <1>4
    DEF StartUp, ValidateAssets, OpenStore, LoadKey, CreateKey, WriteKey, SyncKey, RemoveKey,
        Configure
  <1>5. CASE Work
    <2>1. ASSUME NEW r \in Requests, Arrive(r, Exposed)
          PROVE  Uncredentialed'
      BY <1>1, <2>1, ArrivalKeepsCredentials
    <2>2. CASE OperatorStep
      <3>1. ASSUME NEW i \in Installations, DeleteInstallation(i)
            PROVE  Uncredentialed'
        BY <3>1 DEF DeleteInstallation, Uncredentialed, StoreInv, TypeOK
      <3>2. QED
        BY <1>1, <2>2, <3>1
        DEF OperatorStep, SetMachinePolicy, DeleteMachine, ArmInstallation, CancelAssignment
    <2>3. CASE CredentialStep(Exposed)
      BY <2>3, InstallationsHidden DEF CredentialStep, ExpireCredential, Uncredentialed
    <2>4. QED
      BY <1>5, <2>1, <2>2, <2>3 DEF Work, StoreStep
  <1>6. CASE \E r \in Requests : Serve(r)
    BY <1>1, <1>6, HandlerKeepsCredentials DEF Serve
  <1>7. QED
    BY <1>2, <1>3, <1>4, <1>5, <1>6
    DEF ProcessNext, Stop, DrainStudio, Kill, PowerLoss, serverVars

\* The reporter's side of the server is out of reach behind both listeners: for
\* any number of machines, installations and requests, no credential is ever
\* handed out and no installation goes past PXE_BOOTED.
THEOREM ProcessReporterDormant == ProcessSpec => []ReporterIsDormant
  <1>1. ProcessInit => Uncredentialed
    BY DEF ProcessInit, ProvisioningInit, Init, Uncredentialed
  <1>2. StoreInv /\ HandlersOK /\ Uncredentialed /\ [ProcessNext]_serverVars => Uncredentialed'
    BY UncredentialedStep
  <1>3. ProcessSpec => [](StoreInv /\ HandlersOK)
    BY ProcessImplementsProvisioning, ServerInvariant, PTL
  <1>4. StoreInv /\ Uncredentialed /\ CredentialGatesProgress => ReporterIsDormant
    <2> SUFFICES ASSUME StoreInv, Uncredentialed, CredentialGatesProgress,
                        NEW i \in Installations, events[i] # <<>>
                 PROVE  CurrentStage(i) \in ServerStages
      BY DEF ReporterIsDormant, Uncredentialed
    <2>1. ~(Rank[CurrentStage(i)] > Rank["PXE_BOOTED"])
      BY DEF CredentialGatesProgress, Uncredentialed
    <2>2. CurrentStage(i) \in Stages
      <3>1. events[i] \in Seq(EventType) /\ Len(events[i]) \in Nat /\ Len(events[i]) # 0
        BY DEF StoreInv, TypeOK
      <3>2. events[i][Len(events[i])] \in EventType
        BY <3>1
      <3>3. QED
        BY <3>2 DEF CurrentStage, EventType
    <2>3. \A s \in Stages \ ServerStages : Rank[s] > Rank["PXE_BOOTED"]
      BY DEF Rank, Stages, ServerStages, InstallerStages, TerminalStages
    <2>4. QED
      BY <2>1, <2>2, <2>3
  <1>5. ProcessSpec => []CredentialGatesProgress
    BY ProcessImplementsProvisioning, ServerCredentialGates, PTL
  <1>6. QED
    BY <1>1, <1>2, <1>3, <1>4, <1>5, PTL DEF ProcessSpec

(***************************************************************************)
(* The drain.                                                              *)
(***************************************************************************)
\* A handler's step ends its request or leaves what it is for; it touches no
\* other request.
LEMMA HandlerKeepsOp ==
    ASSUME RequestsTypeOK, NEW r \in Requests, Handle(r)
    PROVE  \A q \in Requests :
              \/ req'[q] = req[q]
              \/ req'[q] = Idle
              \/ req'[q].op = req[q].op /\ req[q].pc # "idle"
  <1>1. req[r].pc # "idle"
    BY DEF Handle, ReadMachine, ReadAssignment, Consume, WritePreseed, Decide, ReadSpec, CheckIn,
       ApplyReport, FinishCreate, At
  <1>2. req[r] \in RequestType
    BY <1>1, BusyIsTyped
  <1>3. CASE Done(r)
    BY <1>3 DEF Done, RequestsTypeOK
  <1> USE <1>1, <1>2, <1>3 DEF RequestsTypeOK, RequestType, Answer
  <1>4. CASE ReadMachine(r)
    BY <1>4 DEF ReadMachine
  <1>5. CASE ReadAssignment(r)
    BY <1>5 DEF ReadAssignment
  <1>6. CASE Consume(r)
    BY <1>6 DEF Consume
  <1>7. CASE Decide(r)
    BY <1>7 DEF Decide
  <1>8. CASE ReadSpec(r)
    BY <1>8 DEF ReadSpec
  <1>9. CASE WritePreseed(r) \/ CheckIn(r) \/ ApplyReport(r) \/ FinishCreate(r)
    BY <1>9 DEF WritePreseed, CheckIn, ApplyReport, FinishCreate
  <1>10. QED
    BY <1>4, <1>5, <1>6, <1>7, <1>8, <1>9 DEF Handle

\* While main drains the console nothing of the boot network comes in any more,
\* and what the console does is no boot request.
LEMMA DrainedStep ==
    ASSUME RequestsTypeOK, ProcessTypeOK, BootRequestsDrained, [ProcessNext]_serverVars
    PROVE  BootRequestsDrained'
  <1> DEFINE AllConsole == \A r \in Requests : req[r].pc # "idle" => req[r].op = "create"
  <1>1. Pending("pxe") = {} <=> AllConsole
    BY DEF Pending, At
  <1>2. Pending("pxe")' = {} <=> AllConsole'
    BY DEF Pending, At
  <1>3. CASE Exit
    BY <1>3 DEF Exit, Down, BootRequestsDrained
  <1>4. CASE Launch \/ Signal \/ Deadline \/ BeginShutdown \/ \E l \in Listeners : Fail(l)
    BY <1>1, <1>2, <1>4
    DEF Launch, Signal, Deadline, BeginShutdown, Fail, Goes, vars, ProcessTypeOK, ProcessType,
        BootRequestsDrained
  <1>5. CASE DrainPXE
    BY <1>1, <1>2, <1>5
    DEF DrainPXE, Goes, vars, ProcessTypeOK, ProcessType, BootRequestsDrained
  <1>6. CASE StartUp
    BY <1>3, <1>6
    DEF StartUp, ValidateAssets, OpenStore, LoadKey, CreateKey, WriteKey, SyncKey, RemoveKey,
        Configure, Goes, ProcessTypeOK, ProcessType, BootRequestsDrained
  <1>7. CASE Work
    <2>1. CASE proc.pc = "drain_studio"
      <3>1. Exposed = {}
        BY <2>1 DEF ProcessTypeOK, Exposed
      <3>2. req' = req
        BY <1>7, <3>1 DEF Work, Arrive, StoreStep, CredentialStep
      <3>3. QED
        BY <1>1, <1>2, <1>7, <3>2 DEF Work, processVars, BootRequestsDrained
    <2>2. CASE proc.pc # "drain_studio"
      BY <1>7, <2>2 DEF Work, processVars, BootRequestsDrained
    <2>3. QED
      BY <2>1, <2>2
  <1>8. ASSUME NEW r \in Requests, Serve(r)
        PROVE  BootRequestsDrained'
    <2>1. AllConsole => AllConsole'
      BY <1>8, HandlerKeepsOp, IdleFields DEF Serve
    <2>2. QED
      BY <1>1, <1>2, <1>8, <2>1 DEF Serve, processVars, BootRequestsDrained
  <1>9. CASE UNCHANGED serverVars
    BY <1>1, <1>2, <1>9 DEF serverVars, vars, processVars, BootRequestsDrained
  <1>10. QED
    BY <1>3, <1>4, <1>5, <1>6, <1>7, <1>8, <1>9
    DEF ProcessNext, Stop, DrainStudio, Kill, PowerLoss

\* However many requests are under way on either listener, a stop within its
\* deadline turns to the console only when every boot request is answered.
THEOREM ProcessDrainsBootRequests == ProcessSpec => []BootRequestsDrained
  <1>1. ProcessInit => BootRequestsDrained
    BY DEF ProcessInit, Down, BootRequestsDrained
  <1>2. HandlersOK /\ ProcessTypeOK /\ BootRequestsDrained /\ [ProcessNext]_serverVars
            => BootRequestsDrained'
    BY DrainedStep DEF HandlersOK
  <1>3. ProcessSpec => [](StoreInv /\ HandlersOK)
    BY ProcessImplementsProvisioning, ServerInvariant, PTL
  <1>4. QED
    BY <1>1, <1>2, <1>3, ProcessTyped, PTL DEF ProcessSpec

=============================================================================
