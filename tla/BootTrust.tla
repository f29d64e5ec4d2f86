----------------------------- MODULE BootTrust -----------------------------
(***************************************************************************)
(* TPM-bound boot trust, internal/store/boot_trust.go and its endpoints in *)
(* internal/httpapi/boot_trust.go: keys that installers enrol and          *)
(* operators approve, challenges, and the proof that releases the          *)
(* lifecycle credential of an installation, encrypted to the proven key.   *)
(* Each endpoint makes one store call, so each is one step.                *)
(*                                                                         *)
(* A key stands for a TPM: whoever can sign with it.  The endorsement      *)
(* fingerprint that may be recorded with a key only adds rejections and is *)
(* left out.                                                               *)
(***************************************************************************)
EXTENDS InstallationStore

CONSTANTS
    Keys,        \* RSA key pairs held by TPMs, named by their fingerprint
    Challenges   \* the challenge ids idgen may hand out (bound: its size)

VARIABLES
    keyState,    \* machine_boot_trust_keys.state
    keyMachine,  \* machine_boot_trust_keys.machine_id
    challenge,   \* installation_boot_trust_challenges; status of each id
    releases     \* history: the answers that carried a credential

trustVars == <<keyState, keyMachine, challenge, releases>>
vars == <<storeVars, trustVars>>

KeyStates == {"none", "pending", "approved", "revoked"}

\* "open" within its lifetime, "used" once proven; "gone" with its installation.
ChallengeStates == {"none", "open", "expired", "used", "gone"}

NoChallenge(state) == [state |-> state, inst |-> None, mach |-> None, key |-> None]

ChallengeType ==
    [state : ChallengeStates, inst : Installations \cup {None},
     mach : Machines \cup {None}, key : Keys \cup {None}]

ReleaseType ==
    [chal : Challenges, inst : Installations, key : Keys,
     under : AssignmentStates, duplicate : BOOLEAN]

\* The tables of boot trust, beside those of the store.
TrustTypeOK ==
    /\ keyState \in [Keys -> KeyStates]
    /\ keyMachine \in [Keys -> Machines \cup {None}]
    /\ challenge \in [Challenges -> ChallengeType]
    /\ releases \subseteq ReleaseType

TrustInit ==
    /\ Init
    /\ keyState = [k \in Keys |-> "none"]
    /\ keyMachine = [k \in Keys |-> None]
    /\ challenge = [c \in Challenges |-> NoChallenge("none")]
    /\ releases = {}

(***************************************************************************)
(* The checks enrolment, challenge and proof share.                        *)
(***************************************************************************)
\* trustBindingTx joins the spec with its assignment.
Bound(i) == SpecExists(i) /\ assignment[i] # "none"

Eligible(i) ==
    /\ Bound(i)
    /\ assignment[i] # "cancelled"
    /\ policy[specMachine[i]] = "provision"

\* Faulty variant: the machine has an approved key, be it this one or another.
ApprovedFor_AnotherKey(k, m) ==
    keyMachine[k] = m /\ \E l \in Keys : keyMachine[l] = m /\ keyState[l] = "approved"

ApprovedFor(k, m) == keyMachine[k] = m /\ keyState[k] = "approved"

(***************************************************************************)
(* Keys.                                                                   *)
(***************************************************************************)
\* Faulty variant: an enrolled key has no state.
InitialKeyState_Empty == ""

InitialKeyState == "pending"

\* Enrolling a known key only touches its row; another machine's key, and a
\* revoked one, are refused.
RegisterBootTrustKey(i, k) ==
    /\ Eligible(i)
    /\ keyState[k] = "none"
    /\ keyState' = [keyState EXCEPT ![k] = InitialKeyState]
    /\ keyMachine' = [keyMachine EXCEPT ![k] = specMachine[i]]
    /\ audit' = Audited(i, "BOOT_TRUST_KEY_DISCOVERED")
    /\ UNCHANGED <<machineVars, specMachine, assignmentVars, events, credential,
                   challenge, releases>>

NoneApproved(m) == \A k \in Keys : ~(keyMachine[k] = m /\ keyState[k] = "approved")

ApproveBootTrustKey(m, k) ==
    /\ keyMachine[k] = m
    /\ keyState[k] = "pending"
    /\ NoneApproved(m)
    /\ keyState' = [keyState EXCEPT ![k] = "approved"]
    /\ audit' = Audited(m, "BOOT_TRUST_KEY_APPROVED")
    /\ UNCHANGED <<machineVars, specMachine, assignmentVars, events, credential,
                   keyMachine, challenge, releases>>

RevokeBootTrustKey(m, k) ==
    /\ keyMachine[k] = m
    /\ keyState[k] \in {"pending", "approved"}
    /\ keyState' = [keyState EXCEPT ![k] = "revoked"]
    /\ audit' = Audited(m, "BOOT_TRUST_KEY_REVOKED")
    /\ UNCHANGED <<machineVars, specMachine, assignmentVars, events, credential,
                   keyMachine, challenge, releases>>

(***************************************************************************)
(* Challenges and proofs.                                                  *)
(***************************************************************************)
CreateBootTrustChallenge(c, i, k) ==
    /\ challenge[c].state = "none"
    /\ Eligible(i)
    /\ ApprovedFor(k, specMachine[i])
    /\ challenge' = [challenge EXCEPT ![c] =
            [state |-> "open", inst |-> i, mach |-> specMachine[i], key |-> k]]
    /\ UNCHANGED <<storeVars, keyState, keyMachine, releases>>

\* Two minutes pass.
ExpireChallenge(c) ==
    /\ challenge[c].state = "open"
    /\ challenge' = [challenge EXCEPT ![c].state = "expired"]
    /\ UNCHANGED <<storeVars, keyState, keyMachine, releases>>

Released(c, duplicate) ==
    releases \cup {[chal |-> c, inst |-> challenge[c].inst, key |-> challenge[c].key,
                    under |-> assignment[challenge[c].inst], duplicate |-> duplicate]}

\* Faulty variant: an existing credential is issued anew.
IssueCredential_Again(i) ==
    /\ credential' = [credential EXCEPT ![i] = "active"]
    /\ audit' = Audited(i, "BOOT_TRUST_VERIFIED")
    /\ UNCHANGED <<machineVars, specMachine, assignmentVars, events>>

IssueCredential(i) == ReleaseCredential(i)

\* signer is the key the proof was signed with.
CompleteBootTrustChallenge(c, signer) ==
    /\ challenge[c].state = "open"
    /\ Eligible(challenge[c].inst)
    /\ specMachine[challenge[c].inst] = challenge[c].mach
    /\ ApprovedFor(challenge[c].key, challenge[c].mach)
    /\ signer = challenge[c].key
    /\ IssueCredential(challenge[c].inst)
    /\ challenge' = [challenge EXCEPT ![c].state = "used"]
    /\ releases' = Released(c, FALSE)
    /\ UNCHANGED <<keyState, keyMachine>>

\* A used challenge answers with the stored ciphertext, before any check.
ReplayBootTrustChallenge(c) ==
    /\ challenge[c].state = "used"
    /\ releases' = Released(c, TRUE)
    /\ UNCHANGED <<storeVars, keyState, keyMachine, challenge>>

(***************************************************************************)
(* The rest of the store.  Deletions take the trust rows with them.        *)
(***************************************************************************)
\* Faulty variant: the challenges outlive their installation.
ChallengesWithout_Kept(i) == challenge

ChallengesWithout(i) ==
    [c \in Challenges |-> IF challenge[c].inst = i THEN NoChallenge("gone") ELSE challenge[c]]

DeleteInstallationAndChallenges(i) ==
    /\ DeleteInstallation(i)
    /\ challenge' = ChallengesWithout(i)
    /\ UNCHANGED <<keyState, keyMachine, releases>>

DeleteMachineAndKeys(m) ==
    /\ DeleteMachine(m)
    /\ keyState' = [k \in Keys |-> IF keyMachine[k] = m THEN "none" ELSE keyState[k]]
    /\ keyMachine' = [k \in Keys |-> IF keyMachine[k] = m THEN None ELSE keyMachine[k]]
    /\ UNCHANGED <<challenge, releases>>

OtherStoreStep ==
    /\ \/ \E m \in Machines :
            \/ \E obs \in Observations, state \in ObservedStates :
                  DiscoverMachine(obs, state, m)
            \/ \E p \in OperatorPolicies : SetMachinePolicy(m, p)
            \/ \E i \in Installations :
                  CreateInstallationSpec(i, m) \/ ArmInstallation(m, i)
       \/ \E i \in Installations :
            \/ CancelAssignment(i)
            \/ ConsumeAssignment(i)
            \/ ExpireCredential(i)
            \/ \E report \in Reports \cup {ServerEvent("PXE_BOOTED")} :
                  AppendLifecycleEvent(i, report)
    /\ UNCHANGED trustVars

DeleteStep ==
    \/ \E m \in Machines : DeleteMachineAndKeys(m)
    \/ \E i \in Installations : DeleteInstallationAndChallenges(i)

KeyStep ==
    \E k \in Keys :
        \/ \E i \in Installations : RegisterBootTrustKey(i, k)
        \/ \E m \in Machines : ApproveBootTrustKey(m, k) \/ RevokeBootTrustKey(m, k)

ChallengeStep ==
    \E c \in Challenges :
        \/ \E i \in Installations, k \in Keys : CreateBootTrustChallenge(c, i, k)
        \/ ExpireChallenge(c)
        \/ \E k \in Keys : CompleteBootTrustChallenge(c, k)
        \/ ReplayBootTrustChallenge(c)

TrustNext == OtherStoreStep \/ DeleteStep \/ KeyStep \/ ChallengeStep

TrustSpec == TrustInit /\ [][TrustNext]_vars

(***************************************************************************)
(* Properties.                                                             *)
(***************************************************************************)

\* A machine has at most one approved key (ADR 0007, and a unique index).
OneApprovedKeyPerMachine ==
    \A k, l \in Keys :
        keyState[k] = "approved" /\ keyState[l] = "approved"
            /\ keyMachine[k] = keyMachine[l] => k = l

\* Trust rows hang on existing rows across every order of enrolment and
\* deletion: a key belongs to a registered machine, a challenge to an existing
\* installation of the machine its key belongs to.
TrustRowsAreBound ==
    /\ \A k \in Keys : keyState[k] # "none" <=> keyMachine[k] # None
    /\ \A k \in Keys : keyMachine[k] # None => MachineExists(keyMachine[k])
    /\ \A c \in Challenges : challenge[c].inst # None =>
        /\ SpecExists(challenge[c].inst)
        /\ challenge[c].mach = specMachine[challenge[c].inst]
        /\ keyMachine[challenge[c].key] = challenge[c].mach

\* A credential is revealed to one key only: among all the challenges of an
\* installation one at most was ever proven, and exactly when the credential
\* exists, so no retry, race or replay encrypts the secret to a second key.
OneReleasePerInstallation ==
    /\ \A x, y \in releases : x.inst = y.inst => x.chal = y.chal /\ x.key = y.key
    /\ \A i \in Installations :
        credential[i] # "none" <=>
            \E c \in Challenges : challenge[c].inst = i /\ challenge[c].state = "used"

\* A credential comes into being only while every layer agrees at that moment:
\* the machine is on policy provision, the assignment stands, and the challenge
\* that is spent for it has not expired, is of this machine and is bound to the
\* key approved for the machine now; what was read when the challenge was
\* issued does not count.
ReleaseNeedsStandingTrust ==
    [][\A i \in Installations :
          credential[i] = "none" /\ credential'[i] # "none" =>
            /\ assignment[i] \in {"armed", "consumed"}
            /\ policy[specMachine[i]] = "provision"
            /\ \E c \in Challenges :
                /\ challenge[c].inst = i /\ challenge[c].mach = specMachine[i]
                /\ challenge[c].state = "open" /\ challenge'[c].state = "used"
                /\ keyState[challenge[c].key] = "approved"
                /\ keyMachine[challenge[c].key] = specMachine[i]]_vars

\* LIFECYCLE.md: "A cancelled assignment never authorizes trust completion or
\* credential release."
CancelledNeverReleases == \A x \in releases : x.under # "cancelled"

=============================================================================
