-------------------------- MODULE BootTrustProofs --------------------------
(***************************************************************************)
(* Boot trust for any number of machines, installations, TPM keys and      *)
(* challenges: the store's invariant survives the trust operations, keys   *)
(* and challenges stay bound to what they were issued for, and the secret  *)
(* of an installation is encrypted to one key only.                        *)
(***************************************************************************)
EXTENDS BootTrust, InstallationStoreProofs

(***************************************************************************)
(* The store underneath.  The trust operations on keys write only rows of  *)
(* the audit log that the store's invariant does not speak of.             *)
(***************************************************************************)
KeyAuditTypes == {"BOOT_TRUST_KEY_DISCOVERED", "BOOT_TRUST_KEY_APPROVED",
                  "BOOT_TRUST_KEY_REVOKED"}

\* A row about a key leaves the store's invariant alone.
LEMMA KeyRowKeepsStore ==
    ASSUME StoreInv, NEW x \in Machines \cup Installations, NEW type \in KeyAuditTypes,
           audit' = Audited(x, type),
           UNCHANGED <<policy, secureBoot, owner, specMachine, assignment, asgMachine,
                       events, credential>>
    PROVE  StoreInv'
  <1>1. AuditType' /\ TypeOK'
    BY AuditedTyped DEF StoreInv, TypeOK, AuditType, KeyAuditTypes, AuditTypes
  <1>2. \A j \in Installations : \A t \in ScheduleTypes \cup {"DELETED"} :
            <<j, t>> \in audit' <=> <<j, t>> \in audit
    BY DEF Audited, KeyAuditTypes, ScheduleTypes
  <1>3. AuditAgrees' /\ DeletedIsFinal'
    BY <1>2, UnrelatedRow DEF StoreInv, DeletedIsFinal, SpecExists
  <1>4. ReferentialIntegrity' /\ OneArmedPerMachine'
    BY DEF StoreInv, ReferentialIntegrity, OneArmedPerMachine, MachineExists, SpecExists
  <1>5. LifecycleOrdered' /\ KeysIdentifyEvents'
    BY DEF StoreInv, LifecycleOrdered, KeysIdentifyEvents, SpecExists, CanAdvance
  <1>6. ApprovalIsAudited'
    BY DEF StoreInv, ApprovalIsAudited, Audited
  <1>7. QED
    BY <1>1, <1>3, <1>4, <1>5, <1>6 DEF StoreInv

\* A challenge that was issued names its installation, machine and key; one
\* that was not, or whose installation is gone, names nothing.
ChallengesAreBound ==
    \A c \in Challenges :
        IF challenge[c].state \in {"open", "expired", "used"}
        THEN /\ challenge[c].inst \in Installations
             /\ challenge[c].mach \in Machines
             /\ challenge[c].key \in Keys
        ELSE challenge[c].inst = None

\* Every step of boot trust keeps the store's invariant.
LEMMA TrustKeepsStore ==
    ASSUME StoreInv, ChallengesAreBound, [TrustNext]_vars
    PROVE  StoreInv'
  <1>1. CASE OtherStoreStep \/ DeleteStep
    <2>1. Next
      BY <1>1 DEF OtherStoreStep, DeleteStep, DeleteMachineAndKeys,
         DeleteInstallationAndChallenges, Next, MachineOperation, InstallationOperation
    <2>2. QED
      BY <2>1, StoreInvStep
  <1>2. CASE KeyStep
    BY <1>2, KeyRowKeepsStore
    DEF KeyStep, RegisterBootTrustKey, ApproveBootTrustKey, RevokeBootTrustKey,
        KeyAuditTypes, machineVars, assignmentVars
  <1>3. CASE ChallengeStep
    <2>1. ASSUME NEW c \in Challenges, NEW k \in Keys, CompleteBootTrustChallenge(c, k)
          PROVE  Next
      <3>1. challenge[c].inst \in Installations
        BY <2>1 DEF CompleteBootTrustChallenge, ChallengesAreBound
      <3>2. QED
        BY <2>1, <3>1
        DEF CompleteBootTrustChallenge, IssueCredential, Next, InstallationOperation
    <2>2. Next \/ UNCHANGED storeVars
      BY <1>3, <2>1 DEF ChallengeStep, CreateBootTrustChallenge, ExpireChallenge,
         ReplayBootTrustChallenge
    <2>3. QED
      BY <2>2, StoreInvStep
  <1>4. CASE UNCHANGED vars
    BY <1>4, StoreInvStep DEF vars
  <1>5. QED
    BY <1>1, <1>2, <1>3, <1>4 DEF TrustNext

\* What the other operations of the store cannot do to what trust hangs on:
\* rows they do not delete stay, and a credential neither appears nor goes.
LEMMA OtherStoreEffect ==
    ASSUME StoreInv, OtherStoreStep
    PROVE  /\ \A m \in Machines : policy[m] # None => policy'[m] # None
           /\ \A i \in Installations :
                 /\ specMachine[i] # None => specMachine'[i] = specMachine[i]
                 /\ credential'[i] = "none" <=> credential[i] = "none"
                 /\ Deleted(i) => Deleted(i)'
  <1> USE DomainAssumption, NoneAssumption DEF StoreInv, TypeOK, Deleted
  <1> DEFINE Effect ==
          /\ \A m \in Machines : policy[m] # None => policy'[m] # None
          /\ \A i \in Installations :
                 /\ specMachine[i] # None => specMachine'[i] = specMachine[i]
                 /\ credential'[i] = "none" <=> credential[i] = "none"
                 /\ Deleted(i) => Deleted(i)'
  <1>1. ASSUME NEW m \in Machines, NEW obs \in Observations,
               NEW state \in ObservedStates, DiscoverMachine(obs, state, m)
        PROVE  Effect
    BY <1>1 DEF DiscoverMachine, InitialPolicy, Audited, Policies
  <1>2. ASSUME NEW m \in Machines, NEW p \in OperatorPolicies, SetMachinePolicy(m, p)
        PROVE  Effect
    BY <1>2, InputAssumption DEF SetMachinePolicy, Audited
  <1>3. ASSUME NEW m \in Machines, NEW i \in Installations, CreateInstallationSpec(i, m)
        PROVE  Effect
    BY <1>3 DEF CreateInstallationSpec, Fresh, Audited, machineVars
  <1>4. ASSUME NEW m \in Machines, NEW i \in Installations, ArmInstallation(m, i)
        PROVE  Effect
    BY <1>4 DEF ArmInstallation, Audited, machineVars
  <1>5. ASSUME NEW i \in Installations,
               CancelAssignment(i) \/ ConsumeAssignment(i) \/ ExpireCredential(i)
        PROVE  Effect
    BY <1>5 DEF CancelAssignment, ConsumeAssignment, ExpireCredential, Audited, machineVars
  <1>6. ASSUME NEW i \in Installations, NEW report, AppendLifecycleEvent(i, report)
        PROVE  Effect
    BY <1>6 DEF AppendLifecycleEvent, Audited, machineVars
  <1>7. QED
    BY <1>1, <1>2, <1>3, <1>4, <1>5, <1>6 DEF OtherStoreStep

(***************************************************************************)
(* Types.                                                                  *)
(***************************************************************************)

\* The tables of boot trust stay well-typed.
LEMMA TrustTypeStep ==
    ASSUME StoreInv, TrustTypeOK, ChallengesAreBound, [TrustNext]_vars
    PROVE  TrustTypeOK'
  <1> USE DEF TrustTypeOK
  <1>1. CASE OtherStoreStep \/ UNCHANGED vars
    BY <1>1 DEF OtherStoreStep, trustVars, vars
  <1>2. ASSUME NEW m \in Machines, DeleteMachineAndKeys(m)
        PROVE  TrustTypeOK'
    BY <1>2 DEF DeleteMachineAndKeys, KeyStates
  <1>3. ASSUME NEW i \in Installations, DeleteInstallationAndChallenges(i)
        PROVE  TrustTypeOK'
    BY <1>3 DEF DeleteInstallationAndChallenges, ChallengesWithout, NoChallenge,
       ChallengeType, ChallengeStates
  <1>4. CASE KeyStep
    BY <1>4 DEF KeyStep, RegisterBootTrustKey, ApproveBootTrustKey, RevokeBootTrustKey,
       InitialKeyState, KeyStates, StoreInv, TypeOK
  <1>5. ASSUME NEW c \in Challenges, NEW i \in Installations, NEW k \in Keys,
               CreateBootTrustChallenge(c, i, k)
        PROVE  TrustTypeOK'
    BY <1>5 DEF CreateBootTrustChallenge, ChallengeType, ChallengeStates, StoreInv, TypeOK
  <1>6. ASSUME NEW c \in Challenges, ExpireChallenge(c)
        PROVE  TrustTypeOK'
    BY <1>6 DEF ExpireChallenge, ChallengeType, ChallengeStates
  <1>7. ASSUME NEW c \in Challenges, NEW duplicate \in BOOLEAN,
               challenge[c].state \in {"open", "used"}
        PROVE  Released(c, duplicate) \subseteq ReleaseType
    <2>1. /\ challenge[c].inst \in Installations /\ challenge[c].key \in Keys
          /\ assignment[challenge[c].inst] \in AssignmentStates
      BY <1>7 DEF ChallengesAreBound, StoreInv, TypeOK
    <2>2. QED
      BY <2>1 DEF Released, ReleaseType
  <1>8. ASSUME NEW c \in Challenges, NEW k \in Keys, CompleteBootTrustChallenge(c, k)
        PROVE  TrustTypeOK'
    BY <1>7, <1>8 DEF CompleteBootTrustChallenge, ChallengeType, ChallengeStates
  <1>9. ASSUME NEW c \in Challenges, ReplayBootTrustChallenge(c)
        PROVE  TrustTypeOK'
    BY <1>7, <1>9 DEF ReplayBootTrustChallenge
  <1>10. QED
    BY <1>1, <1>2, <1>3, <1>4, <1>5, <1>6, <1>8, <1>9
    DEF TrustNext, DeleteStep, ChallengeStep

\* Issuing, expiring, proving and deleting keep challenges bound.
LEMMA ChallengesStep ==
    ASSUME StoreInv, TrustTypeOK, ChallengesAreBound, [TrustNext]_vars
    PROVE  ChallengesAreBound'
  <1> USE DEF TrustTypeOK, ChallengesAreBound
  <1>1. CASE UNCHANGED challenge
    BY <1>1
  <1>2. ASSUME NEW i \in Installations, DeleteInstallationAndChallenges(i)
        PROVE  ChallengesAreBound'
    BY <1>2 DEF DeleteInstallationAndChallenges, ChallengesWithout, NoChallenge
  <1>3. ASSUME NEW c \in Challenges, NEW i \in Installations, NEW k \in Keys,
               CreateBootTrustChallenge(c, i, k)
        PROVE  ChallengesAreBound'
    <2>1. specMachine[i] \in Machines
      BY <1>3 DEF CreateBootTrustChallenge, Eligible, Bound, SpecExists, StoreInv, TypeOK
    <2>2. QED
      BY <1>3, <2>1 DEF CreateBootTrustChallenge
  <1>4. ASSUME NEW c \in Challenges, ExpireChallenge(c)
        PROVE  ChallengesAreBound'
    BY <1>4 DEF ExpireChallenge, ChallengeType
  <1>5. ASSUME NEW c \in Challenges, NEW k \in Keys, CompleteBootTrustChallenge(c, k)
        PROVE  ChallengesAreBound'
    BY <1>5 DEF CompleteBootTrustChallenge, ChallengeType
  <1>6. QED
    BY <1>1, <1>2, <1>3, <1>4, <1>5
    DEF TrustNext, OtherStoreStep, DeleteStep, DeleteMachineAndKeys, KeyStep,
        RegisterBootTrustKey, ApproveBootTrustKey, RevokeBootTrustKey, ChallengeStep,
        ReplayBootTrustChallenge, vars, trustVars

(***************************************************************************)
(* Keys.                                                                   *)
(***************************************************************************)

\* Approval looks for another approved key in its own transaction.
LEMMA OneApprovedStep ==
    ASSUME TrustTypeOK, OneApprovedKeyPerMachine, [TrustNext]_vars
    PROVE  OneApprovedKeyPerMachine'
  <1> USE DEF TrustTypeOK, OneApprovedKeyPerMachine
  <1>1. ASSUME NEW k \in Keys, NEW i \in Installations, RegisterBootTrustKey(i, k)
        PROVE  OneApprovedKeyPerMachine'
    BY <1>1 DEF RegisterBootTrustKey, InitialKeyState
  <1>2. ASSUME NEW k \in Keys, NEW m \in Machines, ApproveBootTrustKey(m, k)
        PROVE  OneApprovedKeyPerMachine'
    BY <1>2 DEF ApproveBootTrustKey, NoneApproved
  <1>3. ASSUME NEW k \in Keys, NEW m \in Machines, RevokeBootTrustKey(m, k)
        PROVE  OneApprovedKeyPerMachine'
    BY <1>3 DEF RevokeBootTrustKey
  <1>4. ASSUME NEW m \in Machines, DeleteMachineAndKeys(m)
        PROVE  OneApprovedKeyPerMachine'
    BY <1>4 DEF DeleteMachineAndKeys
  <1>5. CASE UNCHANGED <<keyState, keyMachine>>
    BY <1>5
  <1>6. QED
    BY <1>1, <1>2, <1>3, <1>4, <1>5
    DEF TrustNext, OtherStoreStep, DeleteStep, DeleteInstallationAndChallenges, KeyStep,
        ChallengeStep, CreateBootTrustChallenge, ExpireChallenge,
        CompleteBootTrustChallenge, ReplayBootTrustChallenge, vars, trustVars

\* No order of enrolment, proof and deletion leaves a trust row behind.
LEMMA BoundStep ==
    ASSUME StoreInv, TrustTypeOK, ChallengesAreBound, TrustRowsAreBound, [TrustNext]_vars
    PROVE  TrustRowsAreBound'
  <1> USE NoneAssumption
      DEF TrustTypeOK, TrustRowsAreBound, MachineExists, SpecExists
  <1>1. CASE OtherStoreStep
    <2>1. UNCHANGED <<keyState, keyMachine, challenge>>
      BY <1>1 DEF OtherStoreStep, trustVars
    <2>2. \A c \in Challenges : challenge[c].inst # None =>
              challenge[c].inst \in Installations
      BY DEF ChallengesAreBound
    <2>3. QED
      BY <1>1, <2>1, <2>2, OtherStoreEffect
  <1>2. ASSUME NEW m \in Machines, DeleteMachineAndKeys(m)
        PROVE  TrustRowsAreBound'
    <2>1. /\ policy' = [policy EXCEPT ![m] = None] /\ UNCHANGED specMachine
          /\ \A i \in Installations : specMachine[i] # m
          /\ UNCHANGED challenge
      BY <1>2 DEF DeleteMachineAndKeys, DeleteMachine, NoSpecs
    <2>2. \A k \in Keys : IF keyMachine[k] = m
                          THEN keyState'[k] = "none" /\ keyMachine'[k] = None
                          ELSE keyState'[k] = keyState[k] /\ keyMachine'[k] = keyMachine[k]
      BY <1>2 DEF DeleteMachineAndKeys
    <2>3. \A c \in Challenges : challenge[c].inst # None =>
              challenge[c].inst \in Installations /\ challenge[c].key \in Keys
      BY DEF ChallengesAreBound
    <2>4. QED
      BY <2>1, <2>2, <2>3 DEF StoreInv, TypeOK
  <1>3. ASSUME NEW i \in Installations, DeleteInstallationAndChallenges(i)
        PROVE  TrustRowsAreBound'
    <2>1. /\ UNCHANGED <<policy, keyState, keyMachine>>
          /\ specMachine' = [specMachine EXCEPT ![i] = None]
      BY <1>3 DEF DeleteInstallationAndChallenges, DeleteInstallation, machineVars
    <2>2. \A c \in Challenges : challenge'[c].inst # None =>
              /\ challenge'[c] = challenge[c]
              /\ challenge[c].inst \in Installations \ {i}
      BY <1>3 DEF DeleteInstallationAndChallenges, ChallengesWithout, NoChallenge,
         ChallengesAreBound
    <2>3. QED
      BY <2>1, <2>2 DEF StoreInv, TypeOK
  <1>4. CASE KeyStep
    <2>1. UNCHANGED <<policy, specMachine, challenge>>
      BY <1>4 DEF KeyStep, RegisterBootTrustKey, ApproveBootTrustKey, RevokeBootTrustKey,
         machineVars
    <2>2. \A c \in Challenges : challenge[c].inst # None => challenge[c].key \in Keys
      BY DEF ChallengesAreBound
    <2>3. ASSUME NEW k \in Keys, NEW i \in Installations, RegisterBootTrustKey(i, k)
          PROVE  TrustRowsAreBound'
      <3>1. specMachine[i] \in Machines /\ policy[specMachine[i]] # None
        BY <2>3 DEF RegisterBootTrustKey, Eligible, Bound, StoreInv, ReferentialIntegrity
      <3>2. keyMachine[k] = None
        BY <2>3 DEF RegisterBootTrustKey
      <3>3. \A c \in Challenges : challenge[c].inst # None => challenge[c].key # k
        BY <2>2, <3>2 DEF ChallengesAreBound
      <3>4. QED
        BY <2>1, <2>2, <2>3, <3>1, <3>3 DEF RegisterBootTrustKey, InitialKeyState
    <2>4. ASSUME NEW k \in Keys, NEW m \in Machines,
                 ApproveBootTrustKey(m, k) \/ RevokeBootTrustKey(m, k)
          PROVE  TrustRowsAreBound'
      BY <2>1, <2>2, <2>4 DEF ApproveBootTrustKey, RevokeBootTrustKey
    <2>5. QED
      BY <1>4, <2>3, <2>4 DEF KeyStep
  <1>5. CASE ChallengeStep
    <2>1. UNCHANGED <<policy, specMachine, keyState, keyMachine>>
      BY <1>5 DEF ChallengeStep, CreateBootTrustChallenge, ExpireChallenge,
         CompleteBootTrustChallenge, IssueCredential, ReleaseCredential,
         ReplayBootTrustChallenge, storeVars, machineVars
    <2>2. ASSUME NEW c \in Challenges, NEW i \in Installations, NEW k \in Keys,
                 CreateBootTrustChallenge(c, i, k)
          PROVE  TrustRowsAreBound'
      BY <2>1, <2>2 DEF CreateBootTrustChallenge, Eligible, Bound, ApprovedFor
    <2>3. ASSUME NEW c \in Challenges, NEW state,
                 challenge' = [challenge EXCEPT ![c].state = state]
          PROVE  TrustRowsAreBound'
      BY <2>1, <2>3 DEF ChallengeType
    <2>4. CASE UNCHANGED challenge
      BY <2>1, <2>4
    <2>5. QED
      BY <1>5, <2>2, <2>3, <2>4 DEF ChallengeStep, ExpireChallenge,
         CompleteBootTrustChallenge, ReplayBootTrustChallenge
  <1>6. CASE UNCHANGED vars
    BY <1>6 DEF vars, storeVars, trustVars
  <1>7. QED
    BY <1>1, <1>2, <1>3, <1>4, <1>5, <1>6 DEF TrustNext, DeleteStep

(***************************************************************************)
(* Releases.  OneReleasePerInstallation is not inductive: it does not say  *)
(* that the challenge behind a release is still there, nor that a second   *)
(* one of the same installation cannot be used.                            *)
(***************************************************************************)
Used(c, i) == challenge[c].state = "used" /\ challenge[c].inst = i

ReleasesAreProven ==
    /\ \A c, d \in Challenges :
          challenge[c].state = "used" /\ challenge[d].state = "used"
             /\ challenge[c].inst = challenge[d].inst => c = d
    /\ \A x \in releases :
          \/ Used(x.chal, x.inst) /\ challenge[x.chal].key = x.key
          \/ Deleted(x.inst)

ReleaseInv == OneReleasePerInstallation /\ ReleasesAreProven

\* Steps that add no release, neither use nor drop a challenge, and neither
\* issue nor drop a credential.
LEMMA QuietTrustStep ==
    ASSUME TrustTypeOK, ReleaseInv, releases' = releases,
           \A c \in Challenges :
              challenge[c].state = "used" \/ challenge'[c].state = "used" =>
                 challenge'[c] = challenge[c],
           \A i \in Installations :
              /\ credential'[i] = "none" <=> credential[i] = "none"
              /\ Deleted(i) => Deleted(i)'
    PROVE  ReleaseInv'
  <1>1. \A x \in releases : x.chal \in Challenges /\ x.inst \in Installations
    BY DEF TrustTypeOK, ReleaseType
  <1>2. \A c \in Challenges, i \in Installations : Used(c, i)' <=> Used(c, i)
    BY DEF Used
  <1>3. ReleasesAreProven'
    BY <1>1 DEF ReleaseInv, ReleasesAreProven, Used, Deleted
  <1>4. OneReleasePerInstallation'
    BY <1>2 DEF ReleaseInv, OneReleasePerInstallation, Used
  <1>5. QED
    BY <1>3, <1>4 DEF ReleaseInv

\* Only a proof adds the first release of an installation, and only once.
LEMMA ReleaseStep ==
    ASSUME StoreInv, TrustTypeOK, ChallengesAreBound, TrustRowsAreBound, ReleaseInv,
           [TrustNext]_vars
    PROVE  ReleaseInv'
  <1>1. CASE OtherStoreStep
    BY <1>1, OtherStoreEffect, QuietTrustStep DEF OtherStoreStep, trustVars
  <1>2. ASSUME NEW m \in Machines, DeleteMachineAndKeys(m)
        PROVE  ReleaseInv'
    BY <1>2, QuietTrustStep, DomainAssumption
    DEF DeleteMachineAndKeys, DeleteMachine, AuditedDeletion, Deleted
  <1>3. CASE KeyStep
    BY <1>3, QuietTrustStep
    DEF KeyStep, RegisterBootTrustKey, ApproveBootTrustKey, RevokeBootTrustKey, Audited, Deleted
  <1>4. ASSUME NEW c \in Challenges, NEW i \in Installations, NEW k \in Keys,
               CreateBootTrustChallenge(c, i, k)
        PROVE  ReleaseInv'
    BY <1>4, QuietTrustStep DEF CreateBootTrustChallenge, TrustTypeOK, storeVars, Deleted
  <1>5. ASSUME NEW c \in Challenges, ExpireChallenge(c)
        PROVE  ReleaseInv'
    BY <1>5, QuietTrustStep
    DEF ExpireChallenge, TrustTypeOK, ChallengeType, storeVars, Deleted
  <1>6. ASSUME NEW i \in Installations, DeleteInstallationAndChallenges(i)
        PROVE  ReleaseInv'
    <2>1. /\ credential' = [credential EXCEPT ![i] = "none"]
          /\ releases' = releases
          /\ <<i, "DELETED">> \in audit'
          /\ \A j \in Installations : Deleted(j) => Deleted(j)'
      BY <1>6 DEF DeleteInstallationAndChallenges, DeleteInstallation, AuditedDeletion, Deleted
    <2>2. \A c \in Challenges :
             IF challenge[c].inst = i THEN challenge'[c].inst = None /\ challenge'[c].state = "gone"
             ELSE challenge'[c] = challenge[c]
      BY <1>6 DEF DeleteInstallationAndChallenges, ChallengesWithout, NoChallenge
    <2>3. \A x \in releases : x.chal \in Challenges /\ x.inst \in Installations
      BY DEF TrustTypeOK, ReleaseType
    <2>4. ReleasesAreProven'
      <3>1. \A c, d \in Challenges :
               challenge'[c].state = "used" /\ challenge'[d].state = "used"
                  /\ challenge'[c].inst = challenge'[d].inst => c = d
        BY <2>2 DEF ReleaseInv, ReleasesAreProven
      <3>2. ASSUME NEW x \in releases
            PROVE  \/ Used(x.chal, x.inst)' /\ challenge'[x.chal].key = x.key
                   \/ Deleted(x.inst)'
        <4>1. CASE Deleted(x.inst)
          BY <2>1, <2>3, <4>1
        <4>2. CASE Used(x.chal, x.inst) /\ challenge[x.chal].key = x.key
          BY <2>1, <2>2, <2>3, <4>2 DEF Used, Deleted
        <4>3. QED
          BY <4>1, <4>2 DEF ReleaseInv, ReleasesAreProven
      <3>3. QED
        BY <2>1, <3>1, <3>2 DEF ReleasesAreProven, Used, Deleted
    <2>5. OneReleasePerInstallation'
      <3>1. \A j \in Installations : credential'[j] # "none" <=>
                \E c \in Challenges : challenge'[c].inst = j /\ challenge'[c].state = "used"
        <4>1. ASSUME NEW j \in Installations
              PROVE  credential'[j] # "none" <=>
                \E c \in Challenges : challenge'[c].inst = j /\ challenge'[c].state = "used"
          <5>1. credential[j] # "none" <=>
                  \E c \in Challenges : challenge[c].inst = j /\ challenge[c].state = "used"
            BY DEF ReleaseInv, OneReleasePerInstallation
          <5>2. credential'[j] = IF j = i THEN "none" ELSE credential[j]
            BY <2>1 DEF StoreInv, TypeOK
          <5>3. j # None
            BY NoneAssumption
          <5>4. QED
            BY <2>2, <5>1, <5>2, <5>3
        <4>2. QED
          BY <4>1
      <3>2. QED
        BY <2>1, <3>1 DEF ReleaseInv, OneReleasePerInstallation
    <2>6. QED
      BY <2>4, <2>5 DEF ReleaseInv
  <1>7. ASSUME NEW c \in Challenges, ReplayBootTrustChallenge(c)
        PROVE  ReleaseInv'
    <2> DEFINE i == challenge[c].inst
    <2> DEFINE z == [chal |-> c, inst |-> i, key |-> challenge[c].key,
                     under |-> assignment[i], duplicate |-> TRUE]
    <2>1. /\ releases' = releases \cup {z}
          /\ z.chal = c /\ z.inst = i /\ z.key = challenge[c].key
      BY <1>7 DEF ReplayBootTrustChallenge, Released
    <2> HIDE DEF z
    <2>2. challenge[c].state = "used" /\ UNCHANGED <<challenge, credential, audit>>
      BY <1>7 DEF ReplayBootTrustChallenge, storeVars
    <2>3. i \in Installations /\ ~Deleted(i)
      BY <2>2, NoneAssumption
      DEF ChallengesAreBound, TrustRowsAreBound, StoreInv, DeletedIsFinal, Deleted
    <2>4. ASSUME NEW x \in releases, x.inst = i
          PROVE  x.chal = c /\ x.key = challenge[c].key
      <3>1. Used(x.chal, i) /\ challenge[x.chal].key = x.key /\ x.chal \in Challenges
        BY <2>3, <2>4 DEF ReleaseInv, ReleasesAreProven, TrustTypeOK, ReleaseType
      <3>2. QED
        BY <2>2, <3>1 DEF Used, ReleaseInv, ReleasesAreProven
    <2> HIDE DEF i
    <2>5. OneReleasePerInstallation'
      <3>1. \A x, y \in releases' : x.inst = y.inst => x.chal = y.chal /\ x.key = y.key
        BY <2>1, <2>4 DEF ReleaseInv, OneReleasePerInstallation
      <3>2. QED
        BY <2>2, <3>1 DEF ReleaseInv, OneReleasePerInstallation
    <2>6. ReleasesAreProven'
      <3>1. \A x \in releases' :
               \/ Used(x.chal, x.inst) /\ challenge[x.chal].key = x.key
               \/ Deleted(x.inst)
        BY <2>1, <2>2 DEF ReleaseInv, ReleasesAreProven, Used, i
      <3>2. QED
        BY <2>2, <3>1 DEF ReleaseInv, ReleasesAreProven, Used, Deleted
    <2>7. QED
      BY <2>5, <2>6 DEF ReleaseInv
  <1>8. ASSUME NEW c \in Challenges, NEW k \in Keys, CompleteBootTrustChallenge(c, k)
        PROVE  ReleaseInv'
    <2> DEFINE i == challenge[c].inst
    <2> DEFINE z == [chal |-> c, inst |-> i, key |-> challenge[c].key,
                     under |-> assignment[i], duplicate |-> FALSE]
    <2>1. /\ releases' = releases \cup {z}
          /\ z.chal = c /\ z.inst = i /\ z.key = challenge[c].key
      BY <1>8 DEF CompleteBootTrustChallenge, Released
    <2> HIDE DEF z
    <2>2. /\ i \in Installations /\ specMachine[i] # None
          /\ credential[i] = "none" /\ credential' = [credential EXCEPT ![i] = "active"]
          /\ \A x : Deleted(x) => Deleted(x)'
      BY <1>8 DEF CompleteBootTrustChallenge, IssueCredential, ReleaseCredential, SpecExists,
         ChallengesAreBound, Audited, Deleted
    <2>3. /\ challenge'[c].state = "used" /\ challenge'[c].inst = i
          /\ challenge'[c].key = challenge[c].key
          /\ \A d \in Challenges : d # c => challenge'[d] = challenge[d]
      BY <1>8 DEF CompleteBootTrustChallenge, TrustTypeOK, ChallengeType
    <2>4. challenge[c].state # "used"
      BY <1>8 DEF CompleteBootTrustChallenge
    <2>5. \A d \in Challenges : ~Used(d, i)
      BY <2>2 DEF ReleaseInv, OneReleasePerInstallation, Used
    <2>6. \A x \in releases : x.inst # i
      <3>1. ~Deleted(i)
        BY <2>2 DEF StoreInv, DeletedIsFinal, SpecExists, Deleted
      <3>2. QED
        BY <2>5, <3>1 DEF ReleaseInv, ReleasesAreProven, TrustTypeOK, ReleaseType
    <2>7. \A x \in releases : x.chal \in Challenges /\ x.inst \in Installations
      BY DEF TrustTypeOK, ReleaseType
    <2> HIDE DEF i
    <2>8. OneReleasePerInstallation'
      <3>1. \A x, y \in releases' : x.inst = y.inst => x.chal = y.chal /\ x.key = y.key
        BY <2>1, <2>6 DEF ReleaseInv, OneReleasePerInstallation
      <3>2. \A j \in Installations : credential'[j] # "none" <=>
                \E d \in Challenges : challenge'[d].inst = j /\ challenge'[d].state = "used"
        <4>1. ASSUME NEW j \in Installations
              PROVE  credential'[j] # "none" <=>
                \E d \in Challenges : challenge'[d].inst = j /\ challenge'[d].state = "used"
          <5>1. credential[j] # "none" <=>
                  \E d \in Challenges : challenge[d].inst = j /\ challenge[d].state = "used"
            BY DEF ReleaseInv, OneReleasePerInstallation
          <5>2. credential'[j] = IF j = i THEN "active" ELSE credential[j]
            BY <2>2 DEF StoreInv, TypeOK
          <5>3. CASE j = i
            BY <2>3, <5>2, <5>3
          <5>4. CASE j # i
            BY <2>3, <2>4, <5>1, <5>2, <5>4
          <5>5. QED
            BY <5>3, <5>4
        <4>2. QED
          BY <4>1
      <3>3. QED
        BY <3>1, <3>2 DEF OneReleasePerInstallation
    <2>9. ReleasesAreProven'
      <3>1. \A b, d \in Challenges :
               challenge'[b].state = "used" /\ challenge'[d].state = "used"
                  /\ challenge'[b].inst = challenge'[d].inst => b = d
        BY <2>3, <2>5 DEF ReleaseInv, ReleasesAreProven, Used
      <3>2. ASSUME NEW x \in releases'
            PROVE  \/ /\ challenge'[x.chal].state = "used" /\ challenge'[x.chal].inst = x.inst
                      /\ challenge'[x.chal].key = x.key
                   \/ Deleted(x.inst)'
        <4>1. CASE x = z
          BY <2>1, <2>3, <4>1
        <4>2. CASE x \in releases
          BY <2>2, <2>3, <2>4, <2>7, <4>2 DEF ReleaseInv, ReleasesAreProven, Used
        <4>3. QED
          BY <2>1, <4>1, <4>2
      <3>3. QED
        BY <3>1, <3>2 DEF ReleasesAreProven, Used, Deleted
    <2>10. QED
      BY <2>8, <2>9 DEF ReleaseInv
  <1>9. CASE UNCHANGED vars
    BY <1>9, QuietTrustStep DEF vars, storeVars, trustVars, Deleted
  <1>10. QED
    BY <1>1, <1>2, <1>3, <1>4, <1>5, <1>6, <1>7, <1>8, <1>9
    DEF TrustNext, DeleteStep, ChallengeStep

(***************************************************************************)
(* The inductive invariant of boot trust and what follows from it.         *)
(***************************************************************************)
TrustInv ==
    /\ StoreInv
    /\ TrustTypeOK
    /\ ChallengesAreBound
    /\ OneApprovedKeyPerMachine
    /\ TrustRowsAreBound
    /\ ReleaseInv

\* Without keys and challenges the invariant holds of the empty database.
LEMMA TrustInvInit == TrustInit => TrustInv
  BY StoreInvInit
  DEF TrustInit, Init, TrustInv, TrustTypeOK, ChallengesAreBound, OneApprovedKeyPerMachine,
      TrustRowsAreBound, ReleaseInv, OneReleasePerInstallation, ReleasesAreProven,
      KeyStates, NoChallenge, ChallengeType, ChallengeStates

\* Every step of boot trust keeps the invariant.
LEMMA TrustInvStep == TrustInv /\ [TrustNext]_vars => TrustInv'
  BY TrustKeepsStore, TrustTypeStep, ChallengesStep, OneApprovedStep, BoundStep, ReleaseStep
  DEF TrustInv

\* The store's invariant and that of boot trust hold together.
THEOREM TrustInvariant == TrustSpec => []TrustInv
  BY TrustInvInit, TrustInvStep, PTL DEF TrustSpec

\* The tables of boot trust are always well-typed.
THEOREM TrustTyped == TrustSpec => []TrustTypeOK
  <1>1. TrustInv => TrustTypeOK
    BY DEF TrustInv
  <1>2. QED
    BY <1>1, TrustInvariant, PTL

\* No machine has two approved keys, however many are enrolled at once.
THEOREM TrustOneApprovedKey == TrustSpec => []OneApprovedKeyPerMachine
  <1>1. TrustInv => OneApprovedKeyPerMachine
    BY DEF TrustInv
  <1>2. QED
    BY <1>1, TrustInvariant, PTL

\* Keys and challenges never outlive the machine and the installation they
\* were issued for.
THEOREM TrustRowsStayBound == TrustSpec => []TrustRowsAreBound
  <1>1. TrustInv => TrustRowsAreBound
    BY DEF TrustInv
  <1>2. QED
    BY <1>1, TrustInvariant, PTL

\* The secret of an installation is never encrypted to a second key, for any
\* number of keys, challenges, proofs and repeated proofs.
THEOREM TrustOneRelease == TrustSpec => []OneReleasePerInstallation
  <1>1. TrustInv => OneReleasePerInstallation
    BY DEF TrustInv, ReleaseInv
  <1>2. QED
    BY <1>1, TrustInvariant, PTL

\* A credential is only ever issued while policy and assignment stand, against
\* a challenge that is open and whose own key is the machine's approved one.
THEOREM TrustReleaseNeedsStanding == TrustSpec => ReleaseNeedsStandingTrust
  <1> DEFINE Standing(i) ==
          credential[i] = "none" /\ credential'[i] # "none" =>
            /\ assignment[i] \in {"armed", "consumed"}
            /\ policy[specMachine[i]] = "provision"
            /\ \E c \in Challenges :
                /\ challenge[c].inst = i /\ challenge[c].mach = specMachine[i]
                /\ challenge[c].state = "open" /\ challenge'[c].state = "used"
                /\ keyState[challenge[c].key] = "approved"
                /\ keyMachine[challenge[c].key] = specMachine[i]
  <1>1. TrustInv /\ [TrustNext]_vars => \A i \in Installations : Standing(i)
    <2> SUFFICES ASSUME TrustInv, [TrustNext]_vars, NEW i \in Installations
                 PROVE  Standing(i)
      OBVIOUS
    <2>1. CASE OtherStoreStep
      BY <2>1, OtherStoreEffect DEF TrustInv
    <2>2. ASSUME NEW c \in Challenges, NEW k \in Keys, CompleteBootTrustChallenge(c, k)
          PROVE  Standing(i)
      <3>1. CASE i # challenge[c].inst
        BY <2>2, <3>1 DEF CompleteBootTrustChallenge, IssueCredential, ReleaseCredential,
           TrustInv, StoreInv, TypeOK
      <3>2. CASE i = challenge[c].inst
        <4>1. /\ assignment[i] \notin {"none", "cancelled"}
              /\ policy[specMachine[i]] = "provision"
          BY <2>2, <3>2 DEF CompleteBootTrustChallenge, IssueCredential, ReleaseCredential
        <4>2. /\ challenge[c].mach = specMachine[i]
              /\ keyState[challenge[c].key] = "approved"
              /\ keyMachine[challenge[c].key] = specMachine[i]
          BY <2>2, <3>2 DEF CompleteBootTrustChallenge, ApprovedFor
        <4>3. assignment[i] \in {"armed", "consumed"}
          BY <4>1 DEF TrustInv, StoreInv, TypeOK, AssignmentStates
        <4>4. challenge[c].state = "open" /\ challenge'[c].state = "used"
          BY <2>2 DEF CompleteBootTrustChallenge, TrustInv, TrustTypeOK
        <4>5. QED
          BY <3>2, <4>1, <4>2, <4>3, <4>4
      <3>3. QED
        BY <3>1, <3>2
    <2>3. ASSUME NEW j \in Installations, DeleteInstallationAndChallenges(j)
          PROVE  Standing(i)
      BY <2>3 DEF DeleteInstallationAndChallenges, DeleteInstallation, TrustInv, StoreInv, TypeOK
    <2>4. CASE credential' = credential
      BY <2>4
    <2>5. QED
      BY <2>1, <2>2, <2>3, <2>4
      DEF TrustNext, DeleteStep, DeleteMachineAndKeys, DeleteMachine, KeyStep,
          RegisterBootTrustKey, ApproveBootTrustKey, RevokeBootTrustKey, ChallengeStep,
          CreateBootTrustChallenge, ExpireChallenge, ReplayBootTrustChallenge, vars, storeVars
  <1>2. QED
    BY <1>1, TrustInvariant, PTL DEF TrustSpec, ReleaseNeedsStandingTrust

=============================================================================
