----------------------- MODULE ArtifactDeliveryProofs -----------------------
(***************************************************************************)
(* For any releases, versions and installations: an installer that starts  *)
(* is made of one signed release, whatever the mirror answers.             *)
(*                                                                         *)
(* The images of an attempt are fetched one request at a time, and between *)
(* two of them the specification they come from may be deleted.  The       *)
(* invariant therefore speaks of a release, which no operation removes: it *)
(* accounts for what the machine holds already and for what the            *)
(* specification, if it is still there, will add.                          *)
(***************************************************************************)
EXTENDS ArtifactDelivery, FiniteSetTheorems, TLAPS

\* The release names one installer version as current.
Sound(rel) == Cardinality(Candidates(rel)) = 1

\* A wizard past the release works on the current manifest of a sound one.
WizardOK(w) ==
    w.pc # "idle" =>
        /\ w.provenance \in SignedReleases
        /\ Sound(w.provenance)
        /\ w.version \in Versions
        /\ w.manifest = w.provenance.current

\* All that a specification pins is of one release.
PinsOnly(s, rel) ==
    \A role \in Roles :
        s.artifacts[role] # None => s.artifacts[role].digest = File(rel.current, role)

SpecOK(s) == s # None => \E rel \in SignedReleases : Sound(rel) /\ PinsOnly(s, rel)

\* The images of the script's lines before this one, and the Preseed at its end.
Earlier(line) == {role \in Roles : \E k \in 1 .. 3 : k < line /\ Script[k] = role}

Images(rel, names) == {[name |-> role, bytes |-> File(rel.current, role)] : role \in names}

SeedAt(line, i) == IF line = 5 THEN {[name |-> Seed, bytes |-> i]} ELSE {}

Loading(b, rel) ==
    b.pc = "load" => /\ b.item \in Descriptor
                     /\ b.item.digest = File(rel.current, Script[b.line])

\* The release an attempt is made of.
MadeOf(b, s, rel) ==
    /\ Sound(rel)
    /\ b.images = Images(rel, Earlier(b.line)) \cup SeedAt(b.line, b.inst)
    /\ Loading(b, rel)
    /\ s # None => s.driver = "2" /\ Pinned(s) = Roles /\ PinsOnly(s, rel)

Lines(pc) == CASE pc = "load" -> 1 .. 3 [] pc = "seed" -> {4}
               [] pc = "installing" -> {5} [] OTHER -> 1 .. 5

AttemptOK ==
    /\ boot.pc \in {"chain", "ask", "load", "seed", "installing"} =>
            boot.inst \in Installations /\ phase[boot.inst] # "fresh"
    /\ boot.pc \in {"ask", "load", "seed", "installing"} =>
            /\ boot.line \in Lines(boot.pc)
            /\ \E rel \in SignedReleases : MadeOf(boot, spec[boot.inst], rel)

DeliveryInv ==
    /\ DeliveryTypeOK
    /\ \A i \in Installations : WizardOK(wiz[i]) /\ SpecOK(spec[i])
    /\ AttemptOK

-----------------------------------------------------------------------------
(***************************************************************************)
(* Releases and the boot script.                                           *)
(***************************************************************************)
\* A release with a version to offer has a manifest for it.
LEMMA SoundHasManifest ==
    ASSUME NEW rel \in SignedReleases, Sound(rel)
    PROVE  rel.current \in Manifests
<1>1. Candidates(rel) # {}
    BY FS_EmptySet DEF Sound
<1>2. rel \in ReleaseType
    BY DeliveryAssumption
<1> QED BY <1>1, <1>2 DEF Candidates, ReleaseType

\* The four lines of the boot script.
LEMMA ScriptLines ==
    /\ Len(Script) = 4
    /\ Script[1] = "linux" /\ Script[2] = "initrd.gz"
    /\ Script[3] = "bootnetx64.efi" /\ Script[4] = Seed
BY DEF Script

\* Three lines load images, the fourth the Preseed.
LEMMA ScriptRoles ==
    ASSUME NEW line \in 1 .. 4
    PROVE  /\ (Script[line] \in Roles) <=> (line \in 1 .. 3)
           /\ (Script[line] = Seed) <=> (line = 4)
<1>1. line = 1 \/ line = 2 \/ line = 3 \/ line = 4
    OBVIOUS
<1> QED BY <1>1, ScriptLines DEF Roles, Seed

\* The images before the first line, and after each further one.
LEMMA EarlierLines ==
    /\ Earlier(1) = {}
    /\ Earlier(4) = Roles
    /\ Earlier(5) = Roles
    /\ \A line \in 1 .. 3 : Earlier(line + 1) = Earlier(line) \cup {Script[line]}
<1>1. /\ Earlier(1) = {}
      /\ Earlier(2) = {Script[1]}
      /\ Earlier(3) = {Script[1], Script[2]}
      /\ Earlier(4) = {Script[1], Script[2], Script[3]}
      /\ Earlier(5) = {Script[1], Script[2], Script[3]}
    BY ScriptLines DEF Earlier, Roles
<1>2. {Script[1], Script[2], Script[3]} = Roles
    BY ScriptLines DEF Roles
<1>3. ASSUME NEW line \in 1 .. 3
      PROVE  Earlier(line + 1) = Earlier(line) \cup {Script[line]}
    <2>1. line = 1 \/ line = 2 \/ line = 3
        OBVIOUS
    <2>2. Earlier(2) = Earlier(1) \cup {Script[1]} /\ Earlier(3) = Earlier(2) \cup {Script[2]}
          /\ Earlier(4) = Earlier(3) \cup {Script[3]}
        BY <1>1
    <2>3. 1 + 1 = 2 /\ 2 + 1 = 3 /\ 3 + 1 = 4
        OBVIOUS
    <2> QED BY <2>1, <2>2, <2>3
<1> QED BY <1>1, <1>2, <1>3

-----------------------------------------------------------------------------
(***************************************************************************)
(* What leaves the machine alone.                                          *)
(***************************************************************************)
\* An attempt does not notice steps that only add specifications of fresh
\* installations and take others away.
LEMMA AttemptUndisturbed ==
    ASSUME AttemptOK, boot' = boot,
           \A i \in Installations : phase[i] # "fresh" =>
                /\ phase'[i] # "fresh"
                /\ spec'[i] = spec[i] \/ spec'[i] = None
    PROVE  AttemptOK'
<1>1. CASE boot.pc \in {"ask", "load", "seed", "installing"}
    <2>1. PICK i \in Installations : i = boot.inst /\ phase[i] # "fresh"
        BY <1>1 DEF AttemptOK
    <2>2. PICK rel \in SignedReleases : MadeOf(boot, spec[i], rel)
        BY <1>1, <2>1 DEF AttemptOK
    <2>3. MadeOf(boot, spec'[i], rel)
        BY <2>1, <2>2 DEF MadeOf
    <2>4. boot.line \in Lines(boot.pc)
        BY <1>1 DEF AttemptOK
    <2>5. phase'[i] # "fresh"
        BY <2>1
    <2> QED BY <2>1, <2>3, <2>4, <2>5 DEF AttemptOK
<1>2. CASE boot.pc = "chain"
    BY <1>2 DEF AttemptOK
<1>3. CASE boot.pc \notin {"chain", "ask", "load", "seed", "installing"}
    BY <1>3 DEF AttemptOK
<1> QED BY <1>1, <1>2, <1>3

\* Leases stay well formed under their own operations.
LEMMA LeaseTyped ==
    ASSUME Lease!TypeOK,
           \/ \E i \in Installations :
                \/ Lease!Create(i) \/ Lease!Arm(i) \/ Lease!Cancel(i) \/ Lease!Delete(i)
                \/ Lease!Spend(i) \/ Lease!Deliver(i)
           \/ \E lost \in SUBSET Installations : Lease!Lose(lost)
           \/ UNCHANGED leaseVars
    PROVE  Lease!TypeOK'
BY DEF Lease!TypeOK, Lease!Create, Lease!Arm, Lease!Cancel, Lease!Delete, Lease!Spend,
       Lease!Deliver, Lease!Lose, Lease!Move, Lease!Phases, leaseVars

\* A wizard that starts over.
LEMMA NoWizardOK == NoWizard \in WizardType /\ WizardOK(NoWizard)
BY DEF NoWizard, WizardType, WizardOK

\* A step of one wizard that makes no specification.
LEMMA WizardMoves ==
    ASSUME DeliveryInv, NEW i \in Installations, NEW w \in WizardType, WizardOK(w),
           wiz' = [wiz EXCEPT ![i] = w], UNCHANGED <<spec, boot, leaseVars>>
    PROVE  DeliveryInv'
<1>1. DeliveryTypeOK'
    BY DEF DeliveryInv, DeliveryTypeOK, leaseVars, Lease!TypeOK
<1>2. \A j \in Installations : (WizardOK(wiz[j]) /\ SpecOK(spec[j]))'
    <2> SUFFICES ASSUME NEW j \in Installations PROVE (WizardOK(wiz[j]) /\ SpecOK(spec[j]))'
        OBVIOUS
    <2>1. wiz'[j] = IF j = i THEN w ELSE wiz[j]
        BY DEF DeliveryInv, DeliveryTypeOK
    <2>2. WizardOK(wiz'[j]) /\ SpecOK(spec'[j])
        BY <2>1 DEF DeliveryInv
    <2> QED BY <2>2
<1>3. AttemptOK'
    BY AttemptUndisturbed DEF DeliveryInv, leaseVars
<1> QED BY <1>1, <1>2, <1>3 DEF DeliveryInv

-----------------------------------------------------------------------------
(***************************************************************************)
(* The wizard.                                                             *)
(***************************************************************************)
LEMMA ResolveReleaseKeeps ==
    ASSUME DeliveryInv, NEW i \in Installations, ResolveRelease(i)
    PROVE  DeliveryInv'
<1>1. PICK rel \in SignedReleases : \E v \in ParseRelease(rel) :
          wiz' = [wiz EXCEPT ![i] = [NoWizard EXCEPT !.pc = "manifest", !.version = v,
                                        !.provenance = rel, !.manifest = rel.current]]
    BY DEF ResolveRelease
<1>2. PICK v \in ParseRelease(rel) :
          wiz' = [wiz EXCEPT ![i] = [NoWizard EXCEPT !.pc = "manifest", !.version = v,
                                        !.provenance = rel, !.manifest = rel.current]]
    BY <1>1
<1>3. Sound(rel) /\ v \in Versions
    BY <1>2 DEF ParseRelease, Sound, Candidates
<1>4. rel.current \in Manifests
    BY <1>3, SoundHasManifest
<1> DEFINE w == [NoWizard EXCEPT !.pc = "manifest", !.version = v,
                                 !.provenance = rel, !.manifest = rel.current]
<1>5. w \in WizardType
    BY <1>3, <1>4, NoWizardOK DEF WizardType
<1>6. w.provenance = rel /\ w.version = v /\ w.manifest = rel.current
    BY NoWizardOK DEF WizardType
<1>7. wiz' = [wiz EXCEPT ![i] = w]
    BY <1>2
<1> HIDE DEF w
<1>8. WizardOK(w)
    BY <1>3, <1>6 DEF WizardOK
<1> QED BY <1>5, <1>7, <1>8, WizardMoves DEF ResolveRelease

\* A wizard that gives up starts over.
LEMMA RejectedKeeps ==
    ASSUME DeliveryInv, NEW i \in Installations, Rejected(i)
    PROVE  DeliveryInv'
BY NoWizardOK, WizardMoves DEF Rejected

\* A manifest is accepted with the bytes the release lists for its version.
LEMMA ResolveManifestKeeps ==
    ASSUME DeliveryInv, NEW i \in Installations, ResolveManifest(i)
    PROVE  DeliveryInv'
<1>1. CASE Rejected(i)
    BY <1>1, RejectedKeeps
<1>2. CASE wiz' = [wiz EXCEPT ![i].pc = "fetch"] /\ UNCHANGED <<spec, boot, leaseVars>>
    <2>1. PICK w \in WizardType : w = [wiz[i] EXCEPT !.pc = "fetch"] /\ WizardOK(w)
        <3>1. wiz[i] \in WizardType /\ WizardOK(wiz[i]) /\ wiz[i].pc = "manifest"
            BY DEF DeliveryInv, DeliveryTypeOK, ResolveManifest
        <3>2. [wiz[i] EXCEPT !.pc = "fetch"] \in WizardType
            BY <3>1 DEF WizardType
        <3>3. WizardOK([wiz[i] EXCEPT !.pc = "fetch"])
            BY <3>1 DEF WizardType, WizardOK
        <3> QED BY <3>2, <3>3
    <2>2. wiz' = [wiz EXCEPT ![i] = w]
        BY <1>2, <2>1
    <2> QED BY <1>2, <2>1, <2>2, WizardMoves
<1> QED BY <1>1, <1>2 DEF ResolveManifest

\* An artifact is fetched and verified, or the wizard gives up.
LEMMA FetchArtifactKeeps ==
    ASSUME DeliveryInv, NEW i \in Installations, FetchArtifact(i)
    PROVE  DeliveryInv'
<1>1. CASE Rejected(i)
    BY <1>1, RejectedKeeps
<1>2. CASE /\ wiz' = [wiz EXCEPT ![i].verified = @ \cup {NextRole(wiz[i])}]
           /\ UNCHANGED <<spec, boot, leaseVars>>
    <2>1. PICK w \in WizardType :
            w = [wiz[i] EXCEPT !.verified = @ \cup {NextRole(wiz[i])}] /\ WizardOK(w)
        <3>1. wiz[i] \in WizardType /\ WizardOK(wiz[i])
            BY DEF DeliveryInv, DeliveryTypeOK
        <3>2. PICK role \in Roles : role = NextRole(wiz[i])
            BY DEF NextRole, Roles
        <3>3. [wiz[i] EXCEPT !.verified = @ \cup {role}] \in WizardType
            BY <3>1 DEF WizardType
        <3>4. WizardOK([wiz[i] EXCEPT !.verified = @ \cup {role}])
            BY <3>1 DEF WizardType, WizardOK
        <3> QED BY <3>2, <3>3, <3>4
    <2>2. wiz' = [wiz EXCEPT ![i] = w]
        BY <1>2, <2>1
    <2> QED BY <1>2, <2>1, <2>2, WizardMoves
<1> QED BY <1>1, <1>2 DEF FetchArtifact

\* A specification is new, of a sound release, and no machine boots it yet.
LEMMA CreateSpecKeeps ==
    ASSUME DeliveryInv, NEW i \in Installations, CreateSpec(i)
    PROVE  DeliveryInv'
<1> DEFINE w == wiz[i]
           s == [driver |-> "2", artifacts |-> [role \in Roles |-> Pin(w, role)]]
<1>1. /\ w \in WizardType /\ w.pc = "fetch"
      /\ w.provenance \in SignedReleases /\ Sound(w.provenance)
      /\ w.version \in Versions /\ w.manifest = w.provenance.current
    BY DEF DeliveryInv, DeliveryTypeOK, WizardOK, CreateSpec
<1>2. w.manifest \in Manifests
    BY <1>1, SoundHasManifest
<1>3. /\ spec' = [spec EXCEPT ![i] = s] /\ wiz' = [wiz EXCEPT ![i] = NoWizard]
      /\ boot' = boot /\ Lease!Create(i)
    BY DEF CreateSpec
<1> HIDE DEF w
<1>4. s \in SpecType
    <2>1. ASSUME NEW role \in Roles PROVE Pin(w, role) \in Descriptor
        <3>1. File(w.manifest, role) \in Files
            BY <1>2 DEF Files
        <3>2. <<w.version, role>> \in Versions \X Roles
            BY <1>1
        <3> HIDE DEF Files
        <3> QED BY <1>1, <3>1, <3>2 DEF Pin, Descriptor
    <2> QED BY <2>1 DEF SpecType
<1>5. SpecOK(s)
    <2>1. PinsOnly(s, w.provenance)
        BY <1>1 DEF PinsOnly, Pin
    <2> QED BY <2>1, <1>1 DEF SpecOK
<1> HIDE DEF s
<1>6. Lease!TypeOK'
    BY <1>3, LeaseTyped DEF DeliveryInv, DeliveryTypeOK
<1>7. DeliveryTypeOK'
    BY <1>3, <1>4, <1>6, NoWizardOK DEF DeliveryInv, DeliveryTypeOK
<1>8. ASSUME NEW j \in Installations PROVE (WizardOK(wiz[j]) /\ SpecOK(spec[j]))'
    <2>1. /\ wiz'[j] = IF j = i THEN NoWizard ELSE wiz[j]
          /\ spec'[j] = IF j = i THEN s ELSE spec[j]
        BY <1>3 DEF DeliveryInv, DeliveryTypeOK
    <2>2. WizardOK(wiz'[j]) /\ SpecOK(spec'[j])
        BY <2>1, <1>5, NoWizardOK DEF DeliveryInv
    <2> QED BY <2>2
<1>9. AttemptOK'
    <2>1. ASSUME NEW j \in Installations, phase[j] # "fresh"
          PROVE  phase'[j] # "fresh" /\ spec'[j] = spec[j]
        BY <2>1, <1>3 DEF Lease!Create, Lease!Move, DeliveryInv, DeliveryTypeOK, Lease!TypeOK
    <2> QED BY <2>1, <1>3, AttemptUndisturbed DEF DeliveryInv
<1> QED BY <1>7, <1>8, <1>9 DEF DeliveryInv

-----------------------------------------------------------------------------
(***************************************************************************)
(* The operator.                                                           *)
(***************************************************************************)
LEMMA OperatorKeeps ==
    ASSUME DeliveryInv, NEW i \in Installations, Arm(i) \/ Cancel(i) \/ Delete(i)
    PROVE  DeliveryInv'
<1>1. /\ wiz' = wiz /\ boot' = boot
      /\ spec' = spec \/ spec' = [spec EXCEPT ![i] = None]
      /\ Lease!Arm(i) \/ Lease!Cancel(i) \/ Lease!Delete(i)
    BY DEF Arm, Cancel, Delete
<1>2. Lease!TypeOK'
    BY <1>1, LeaseTyped DEF DeliveryInv, DeliveryTypeOK
<1>3. DeliveryTypeOK'
    BY <1>1, <1>2 DEF DeliveryInv, DeliveryTypeOK
<1>4. \A j \in Installations : spec'[j] = spec[j] \/ spec'[j] = None
    BY <1>1 DEF DeliveryInv, DeliveryTypeOK
<1>5. ASSUME NEW j \in Installations PROVE (WizardOK(wiz[j]) /\ SpecOK(spec[j]))'
    <2>1. SpecOK(spec'[j])
        BY <1>4 DEF DeliveryInv, SpecOK
    <2>2. WizardOK(wiz'[j])
        BY <1>1 DEF DeliveryInv
    <2> QED BY <2>1, <2>2
<1>6. \A j \in Installations : phase[j] # "fresh" => phase'[j] # "fresh"
    BY <1>1 DEF Lease!Arm, Lease!Cancel, Lease!Delete, Lease!Move,
                DeliveryInv, DeliveryTypeOK, Lease!TypeOK
<1>7. AttemptOK'
    BY <1>1, <1>4, <1>6, AttemptUndisturbed DEF DeliveryInv
<1> QED BY <1>3, <1>5, <1>7 DEF DeliveryInv

-----------------------------------------------------------------------------
(***************************************************************************)
(* The machine.                                                            *)
(***************************************************************************)
\* The machine moves, and with it at most the lease.
LEMMA MachineMoves ==
    ASSUME DeliveryInv, UNCHANGED <<wiz, spec>>, boot' \in BootType, Lease!TypeOK', AttemptOK'
    PROVE  DeliveryInv'
BY DEF DeliveryInv, DeliveryTypeOK

\* Without an attempt there is nothing to account for.
LEMMA FailsKeeps ==
    ASSUME DeliveryInv, Fails
    PROVE  DeliveryInv'
<1>1. boot \in BootType /\ boot' = [boot EXCEPT !.pc = "failed", !.item = None, !.answer = None]
    BY DEF DeliveryInv, DeliveryTypeOK, Fails, NoAnswer
<1>2. boot' \in BootType /\ boot'.pc = "failed"
    BY <1>1 DEF BootType
<1>3. AttemptOK'
    BY <1>2 DEF AttemptOK
<1>4. UNCHANGED <<wiz, spec>> /\ Lease!TypeOK'
    BY LeaseTyped DEF Fails, DeliveryInv, DeliveryTypeOK
<1> QED BY <1>2, <1>3, <1>4, MachineMoves

\* The machine is sent to the boot script of an armed installation.
LEMMA DiscoverKeeps ==
    ASSUME DeliveryInv, NEW i \in Installations, Discover(i)
    PROVE  DeliveryInv'
<1>1. boot \in BootType /\ boot' = [boot EXCEPT !.pc = "chain", !.inst = i]
    BY DEF DeliveryInv, DeliveryTypeOK, Discover
<1>2. boot' \in BootType /\ boot'.pc = "chain" /\ boot'.inst = i
    BY <1>1 DEF BootType
<1>3. phase' = phase /\ phase[i] = "armed"
    BY DEF Discover, leaseVars
<1>4. AttemptOK'
    BY <1>2, <1>3 DEF AttemptOK
<1>5. UNCHANGED <<wiz, spec>> /\ Lease!TypeOK'
    BY LeaseTyped DEF Discover, DeliveryInv, DeliveryTypeOK
<1> QED BY <1>2, <1>4, <1>5, MachineMoves

\* The script begins with an empty memory and a specification that is whole.
LEMMA ServeScriptKeeps ==
    ASSUME DeliveryInv, ServeScript
    PROVE  DeliveryInv'
<1>1. CASE Fails
    BY <1>1, FailsKeeps
<1>2. CASE /\ Gate /\ Renderable(spec[boot.inst])
           /\ boot' = [boot EXCEPT !.pc = "ask", !.line = 1, !.images = {}]
           /\ UNCHANGED <<wiz, spec, leaseVars>>
    <2>1. PICK i \in Installations : i = boot.inst /\ phase[i] # "fresh"
        BY DEF ServeScript, DeliveryInv, AttemptOK
    <2>2. boot \in BootType
        BY DEF DeliveryInv, DeliveryTypeOK
    <2>3. boot' \in BootType
        <3>1. {} \in SUBSET ImageType /\ 1 \in 1 .. 5
            OBVIOUS
        <3>2. boot' = [boot EXCEPT !.pc = "ask", !.line = 1, !.images = {}]
            BY <1>2
        <3> QED BY <2>2, <3>1, <3>2 DEF BootType
    <2>4. boot'.pc = "ask" /\ boot'.line = 1 /\ boot'.images = {} /\ boot'.inst = i
        BY <1>2, <2>1, <2>2 DEF BootType
    <2>5. spec[i] # None /\ spec[i].driver = "2" /\ Pinned(spec[i]) = Roles
        BY <1>2, <2>1 DEF Gate, Renderable, ValidateSpec
    <2>6. PICK rel \in SignedReleases : Sound(rel) /\ PinsOnly(spec[i], rel)
        BY <2>5 DEF DeliveryInv, SpecOK
    <2>7. Images(rel, Earlier(1)) \cup SeedAt(1, i) = {}
        BY EarlierLines DEF Images, SeedAt
    <2>8. MadeOf(boot', spec[i], rel)
        BY <2>4, <2>5, <2>6, <2>7 DEF MadeOf, Loading
    <2>9. AttemptOK'
        BY <1>2, <2>1, <2>4, <2>8 DEF AttemptOK, Lines, leaseVars
    <2>10. Lease!TypeOK'
        BY <1>2, LeaseTyped DEF DeliveryInv, DeliveryTypeOK
    <2> QED BY <1>2, <2>3, <2>9, <2>10, MachineMoves
<1> QED BY <1>1, <1>2 DEF ServeScript

\* The descriptor a request reads is the release's, and stays so.
LEMMA RequestArtifactKeeps ==
    ASSUME DeliveryInv, RequestArtifact
    PROVE  DeliveryInv'
<1>1. CASE Fails
    BY <1>1, FailsKeeps
<1>2. CASE /\ Gate
           /\ spec[boot.inst].artifacts[Script[boot.line]] # None
           /\ boot' = [boot EXCEPT !.pc = "load",
                                   !.item = spec[boot.inst].artifacts[Script[boot.line]]]
           /\ UNCHANGED <<wiz, spec, leaseVars>>
    <2>1. PICK i \in Installations : i = boot.inst /\ phase[i] # "fresh"
        BY DEF RequestArtifact, Asks, DeliveryInv, AttemptOK
    <2>2. PICK rel \in SignedReleases : MadeOf(boot, spec[i], rel)
        BY <2>1 DEF RequestArtifact, Asks, DeliveryInv, AttemptOK
    <2>3. boot \in BootType /\ spec[i] \in SpecType
        BY <1>2, <2>1 DEF DeliveryInv, DeliveryTypeOK, Gate
    <2>4. PICK line \in 1 .. 3 : line = boot.line /\ Script[line] \in Roles
        <3>1. boot.line \in 1 .. 5 /\ boot.line <= 4 /\ Script[boot.line] \in Roles
            BY <2>3, ScriptLines DEF RequestArtifact, Asks, BootType
        <3>2. boot.line \in 1 .. 4
            BY <3>1
        <3> QED BY <3>1, <3>2, ScriptRoles
    <2>5. PICK item \in Descriptor : item = spec[i].artifacts[Script[line]]
        BY <1>2, <2>1, <2>3, <2>4 DEF SpecType
    <2>6. item.digest = File(rel.current, Script[line])
        BY <1>2, <2>1, <2>2, <2>4, <2>5 DEF Gate, MadeOf, PinsOnly
    <2>7. boot' = [boot EXCEPT !.pc = "load", !.item = item]
        BY <1>2, <2>1, <2>4, <2>5
    <2>8. boot' \in BootType
        BY <2>3, <2>7 DEF BootType
    <2>9. /\ boot'.pc = "load" /\ boot'.line = line /\ boot'.item = item
          /\ boot'.inst = i /\ boot'.images = boot.images
        BY <2>1, <2>3, <2>4, <2>7 DEF BootType
    <2>10. MadeOf(boot', spec[i], rel)
        BY <2>1, <2>2, <2>4, <2>6, <2>9 DEF MadeOf, Loading
    <2>11. AttemptOK'
        BY <1>2, <2>1, <2>9, <2>10 DEF AttemptOK, Lines, leaseVars
    <2>12. Lease!TypeOK'
        BY <1>2, LeaseTyped DEF DeliveryInv, DeliveryTypeOK
    <2> QED BY <1>2, <2>8, <2>11, <2>12, MachineMoves
<1> QED BY <1>1, <1>2 DEF RequestArtifact

\* What the mirror sends changes nothing until it is compared.
LEMMA MirrorAnswersKeeps ==
    ASSUME DeliveryInv, MirrorAnswers
    PROVE  DeliveryInv'
<1>1. PICK answer \in Files \cup {Junk} : boot' = [boot EXCEPT !.answer = answer]
    BY DEF MirrorAnswers
<1>2. boot \in BootType /\ boot.pc = "load"
    BY DEF DeliveryInv, DeliveryTypeOK, MirrorAnswers
<1>3. boot' \in BootType
    BY <1>1, <1>2 DEF BootType
<1>4. /\ boot'.pc = boot.pc /\ boot'.line = boot.line /\ boot'.item = boot.item
      /\ boot'.inst = boot.inst /\ boot'.images = boot.images
    BY <1>1, <1>2 DEF BootType
<1>5. UNCHANGED <<wiz, spec, leaseVars>>
    BY DEF MirrorAnswers
<1>6. PICK i \in Installations : i = boot.inst /\ phase[i] # "fresh"
    BY <1>2 DEF DeliveryInv, AttemptOK
<1>7. PICK rel \in SignedReleases : MadeOf(boot, spec[i], rel)
    BY <1>2, <1>6 DEF DeliveryInv, AttemptOK
<1>8. MadeOf(boot', spec[i], rel)
    BY <1>4, <1>7 DEF MadeOf, Loading
<1>9. boot.line \in Lines(boot.pc)
    BY <1>2 DEF DeliveryInv, AttemptOK
<1>10. AttemptOK'
    BY <1>2, <1>4, <1>5, <1>6, <1>8, <1>9 DEF AttemptOK, leaseVars
<1>11. Lease!TypeOK'
    BY <1>5, LeaseTyped DEF DeliveryInv, DeliveryTypeOK
<1> QED BY <1>3, <1>5, <1>10, <1>11, MachineMoves

\* Bytes that carry the pinned digest are the release's; they are the next image.
LEMMA LoadKeeps ==
    ASSUME DeliveryInv, Load
    PROVE  DeliveryInv'
<1>1. CASE Fails
    BY <1>1, FailsKeeps
<1>2. CASE /\ VerifyContent(boot.item, boot.answer)
           /\ Fetched([name |-> Script[boot.line], bytes |-> boot.answer])
           /\ UNCHANGED <<wiz, spec, leaseVars>>
    <2>1. PICK i \in Installations : i = boot.inst /\ phase[i] # "fresh"
        BY DEF Load, DeliveryInv, AttemptOK
    <2>2. PICK rel \in SignedReleases : MadeOf(boot, spec[i], rel)
        BY <2>1 DEF Load, DeliveryInv, AttemptOK
    <2>3. boot \in BootType /\ boot.pc = "load"
        BY DEF DeliveryInv, DeliveryTypeOK, Load
    <2>4. PICK line \in 1 .. 3 : line = boot.line
        BY <2>3 DEF DeliveryInv, AttemptOK, Lines
    <2>5. PICK role \in Roles : role = Script[line]
        BY ScriptRoles, line \in 1 .. 4
    <2>6. boot.answer = File(rel.current, role)
        BY <1>2, <2>2, <2>3, <2>4, <2>5 DEF VerifyContent, MadeOf, Loading
    <2> DEFINE image == [name |-> role, bytes |-> File(rel.current, role)]
    <2>7. boot' = [boot EXCEPT !.pc = "ask", !.line = line + 1,
                               !.images = boot.images \cup {image},
                               !.item = None, !.answer = None]
        BY <1>2, <2>4, <2>5, <2>6 DEF Fetched
    <2>8. image \in ImageType
        <3>1. rel.current \in Manifests
            BY <2>2, SoundHasManifest DEF MadeOf
        <3>2. File(rel.current, role) \in Files
            BY <3>1 DEF Files
        <3> QED BY <3>2 DEF ImageType
    <2>9. Images(rel, Earlier(line + 1)) = Images(rel, Earlier(line)) \cup {image}
        <3>1. Earlier(line + 1) = Earlier(line) \cup {role}
            BY <2>5, EarlierLines
        <3> QED BY <3>1 DEF Images
    <2> HIDE DEF image
    <2>10. boot' \in BootType
        <3>1. line + 1 \in 1 .. 5
            OBVIOUS
        <3>2. boot.images \cup {image} \in SUBSET ImageType
            BY <2>3, <2>8 DEF BootType
        <3> QED BY <2>3, <2>7, <3>1, <3>2 DEF BootType
    <2>11. /\ boot'.pc = "ask" /\ boot'.line = line + 1 /\ boot'.inst = i
           /\ boot'.images = boot.images \cup {image}
        BY <2>1, <2>3, <2>7 DEF BootType
    <2>12. SeedAt(line, i) = {} /\ SeedAt(line + 1, i) = {}
        BY DEF SeedAt
    <2>13. MadeOf(boot', spec[i], rel)
        BY <2>1, <2>2, <2>4, <2>9, <2>11, <2>12 DEF MadeOf, Loading
    <2>14. boot'.line \in Lines("ask")
        BY <2>11 DEF Lines
    <2>15. AttemptOK'
        BY <1>2, <2>1, <2>11, <2>13, <2>14 DEF AttemptOK, leaseVars
    <2>16. Lease!TypeOK'
        BY <1>2, LeaseTyped DEF DeliveryInv, DeliveryTypeOK
    <2> QED BY <1>2, <2>10, <2>15, <2>16, MachineMoves
<1> QED BY <1>1, <1>2 DEF Load

\* A machine that asks for the Preseed holds all the images.
LEMMA SeedIsLast ==
    ASSUME DeliveryInv, Asks({Seed})
    PROVE  boot.line = 4
<1>1. boot \in BootType
    BY DEF DeliveryInv, DeliveryTypeOK
<1>2. boot.line \in 1 .. 5 /\ boot.line <= 4 /\ Script[boot.line] = Seed
    BY <1>1, ScriptLines DEF Asks, BootType
<1>3. boot.line \in 1 .. 4
    BY <1>2
<1> QED BY <1>2, <1>3, ScriptRoles

\* The request for the Preseed spends the assignment; the images stay.
LEMMA RequestSeedKeeps ==
    ASSUME DeliveryInv, RequestSeed
    PROVE  DeliveryInv'
<1>1. CASE Fails
    BY <1>1, FailsKeeps
<1>2. CASE Lease!Spend(boot.inst) /\ BootGoes("seed") /\ UNCHANGED <<wiz, spec>>
    <2>1. PICK i \in Installations : i = boot.inst /\ phase[i] # "fresh"
        BY DEF RequestSeed, Asks, DeliveryInv, AttemptOK
    <2>2. PICK rel \in SignedReleases : MadeOf(boot, spec[i], rel)
        BY <2>1 DEF RequestSeed, Asks, DeliveryInv, AttemptOK
    <2>3. boot \in BootType /\ boot.line = 4
        BY SeedIsLast DEF DeliveryInv, DeliveryTypeOK, RequestSeed
    <2>4. boot' = [boot EXCEPT !.pc = "seed"]
        BY <1>2 DEF BootGoes
    <2>5. boot' \in BootType
        BY <2>3, <2>4 DEF BootType
    <2>6. boot'.pc = "seed" /\ boot'.line = 4 /\ boot'.inst = i /\ boot'.images = boot.images
        BY <2>1, <2>3, <2>4 DEF BootType
    <2>7. MadeOf(boot', spec[i], rel)
        BY <2>1, <2>2, <2>3, <2>6 DEF MadeOf, Loading
    <2>8. phase'[i] # "fresh"
        BY <1>2, <2>1 DEF Lease!Spend, Lease!Move, DeliveryInv, DeliveryTypeOK, Lease!TypeOK
    <2>9. AttemptOK'
        BY <1>2, <2>6, <2>7, <2>8 DEF AttemptOK, Lines
    <2>10. Lease!TypeOK'
        BY <1>2, <2>1, LeaseTyped DEF DeliveryInv, DeliveryTypeOK
    <2> QED BY <1>2, <2>5, <2>9, <2>10, MachineMoves
<1> QED BY <1>1, <1>2 DEF RequestSeed

\* The Preseed joins the images, as the last object of the script.
LEMMA WriteSeedKeeps ==
    ASSUME DeliveryInv, WriteSeed
    PROVE  DeliveryInv'
<1>1. PICK i \in Installations : i = boot.inst /\ phase[i] # "fresh"
    BY DEF WriteSeed, DeliveryInv, AttemptOK
<1>2. boot \in BootType /\ boot.pc = "seed" /\ Lease!TypeOK
    BY DEF DeliveryInv, DeliveryTypeOK, WriteSeed
<1>3. UNCHANGED <<wiz, spec>>
    BY DEF WriteSeed
<1>4. CASE Lease!Lose({boot.inst}) /\ BootGoes("failed")
    <2>1. boot' = [boot EXCEPT !.pc = "failed"]
        BY <1>4 DEF BootGoes
    <2>2. boot' \in BootType /\ boot'.pc = "failed"
        BY <1>2, <2>1 DEF BootType
    <2>3. AttemptOK'
        BY <2>2 DEF AttemptOK
    <2>4. Lease!TypeOK'
        BY <1>1, <1>2, <1>4, {i} \in SUBSET Installations, LeaseTyped
    <2> QED BY <1>3, <2>2, <2>3, <2>4, MachineMoves
<1>5. CASE Lease!Deliver(boot.inst) /\ Fetched([name |-> Seed, bytes |-> boot.inst])
    <2>1. PICK rel \in SignedReleases : MadeOf(boot, spec[i], rel)
        BY <1>1, <1>2 DEF DeliveryInv, AttemptOK
    <2>2. boot.line = 4
        BY <1>2 DEF DeliveryInv, AttemptOK, Lines
    <2> DEFINE image == [name |-> Seed, bytes |-> i]
    <2>3. boot' = [boot EXCEPT !.pc = "ask", !.line = 5,
                               !.images = boot.images \cup {image},
                               !.item = None, !.answer = None]
        BY <1>1, <1>5, <2>2, 4 + 1 = 5 DEF Fetched
    <2>4. image \in ImageType
        BY DEF ImageType
    <2>5. SeedAt(4, i) = {} /\ SeedAt(5, i) = {image}
        BY DEF SeedAt
    <2> HIDE DEF image
    <2>6. boot' \in BootType
        <3>1. boot.images \cup {image} \in SUBSET ImageType
            BY <1>2, <2>4 DEF BootType
        <3>2. 5 \in 1 .. 5
            OBVIOUS
        <3> QED BY <1>2, <2>3, <3>1, <3>2 DEF BootType
    <2>7. /\ boot'.pc = "ask" /\ boot'.line = 5 /\ boot'.inst = i
          /\ boot'.images = boot.images \cup {image}
        BY <1>1, <1>2, <2>3 DEF BootType
    <2>8. Images(rel, Earlier(5)) = Images(rel, Earlier(4))
        BY EarlierLines
    <2>9. MadeOf(boot', spec[i], rel)
        BY <1>1, <2>1, <2>2, <2>5, <2>7, <2>8 DEF MadeOf, Loading
    <2>10. phase' = phase
        BY <1>5 DEF Lease!Deliver
    <2>11. boot'.line \in Lines("ask")
        BY <2>7 DEF Lines
    <2>12. AttemptOK'
        BY <1>1, <1>3, <2>7, <2>9, <2>10, <2>11 DEF AttemptOK
    <2>13. Lease!TypeOK'
        BY <1>1, <1>2, <1>5, LeaseTyped
    <2> QED BY <1>3, <2>6, <2>12, <2>13, MachineMoves
<1> QED BY <1>4, <1>5 DEF WriteSeed

\* The installer starts with what was loaded.
LEMMA BootInstallerKeeps ==
    ASSUME DeliveryInv, BootInstaller
    PROVE  DeliveryInv'
<1>1. PICK i \in Installations : i = boot.inst /\ phase[i] # "fresh"
    BY DEF BootInstaller, DeliveryInv, AttemptOK
<1>2. PICK rel \in SignedReleases : MadeOf(boot, spec[i], rel)
    BY <1>1 DEF BootInstaller, DeliveryInv, AttemptOK
<1>3. boot \in BootType /\ boot.line > 4 /\ boot.pc = "ask"
    BY ScriptLines DEF DeliveryInv, DeliveryTypeOK, BootInstaller
<1>4. boot.line = 5
    BY <1>3 DEF BootType
<1>5. boot' = [boot EXCEPT !.pc = "installing"]
    BY DEF BootInstaller, BootGoes
<1>6. boot' \in BootType
    BY <1>3, <1>5 DEF BootType
<1>7. boot'.pc = "installing" /\ boot'.line = 5 /\ boot'.inst = i /\ boot'.images = boot.images
    BY <1>1, <1>3, <1>4, <1>5 DEF BootType
<1>8. MadeOf(boot', spec[i], rel)
    BY <1>1, <1>2, <1>4, <1>7 DEF MadeOf, Loading
<1>9. UNCHANGED <<wiz, spec, leaseVars>>
    BY DEF BootInstaller
<1>10. AttemptOK'
    BY <1>1, <1>7, <1>8, <1>9 DEF AttemptOK, Lines, leaseVars
<1>11. Lease!TypeOK'
    BY <1>9, LeaseTyped DEF DeliveryInv, DeliveryTypeOK
<1> QED BY <1>6, <1>9, <1>10, <1>11, MachineMoves

\* A machine that tries again holds what it has, or nothing.
LEMMA AgainKeeps ==
    ASSUME DeliveryInv, Again
    PROVE  DeliveryInv'
<1>1. PICK images \in {boot.images, {}} : boot' = Off(images)
    BY DEF Again
<1>2. boot \in BootType
    BY DEF DeliveryInv, DeliveryTypeOK
<1>3. images \in SUBSET ImageType
    BY <1>2 DEF BootType
<1>4. boot' \in BootType /\ boot'.pc = "off"
    BY <1>1, <1>3 DEF Off, BootType
<1>5. AttemptOK'
    BY <1>4 DEF AttemptOK
<1>6. UNCHANGED <<wiz, spec>> /\ Lease!TypeOK'
    BY LeaseTyped DEF Again, DeliveryInv, DeliveryTypeOK
<1> QED BY <1>4, <1>5, <1>6, MachineMoves

\* A stopped server forgets wizards and answers; specifications survive it.
LEMMA CrashKeeps ==
    ASSUME DeliveryInv, Crash
    PROVE  DeliveryInv'
<1>1. boot \in BootType /\ Lease!TypeOK /\ spec \in [Installations -> SpecType \cup {None}]
    BY DEF DeliveryInv, DeliveryTypeOK
<1>2. wiz' = [i \in Installations |-> NoWizard] /\ spec' = spec /\ Lease!Lose(token)
    BY DEF Crash
<1>3. phase' = phase
    BY <1>2 DEF Lease!Lose
<1>4. boot' \in BootType /\ AttemptOK'
    <2>1. CASE boot' = boot
        BY <1>1, <1>2, <1>3, <2>1, AttemptUndisturbed DEF DeliveryInv
    <2>2. CASE boot' = NoAnswer
        <3>1. boot' \in BootType /\ boot'.pc = "failed"
            BY <1>1, <2>2 DEF NoAnswer, BootType
        <3> QED BY <3>1 DEF AttemptOK
    <2> QED BY <2>1, <2>2 DEF Crash
<1>5. Lease!TypeOK'
    <2>1. token \in SUBSET Installations
        BY <1>1 DEF Lease!TypeOK
    <2> QED BY <1>1, <1>2, <2>1, LeaseTyped
<1>6. DeliveryTypeOK'
    BY <1>1, <1>2, <1>4, <1>5, NoWizardOK DEF DeliveryTypeOK
<1>7. ASSUME NEW j \in Installations PROVE (WizardOK(wiz[j]) /\ SpecOK(spec[j]))'
    <2>1. WizardOK(wiz'[j]) /\ SpecOK(spec'[j])
        BY <1>2, NoWizardOK DEF DeliveryInv
    <2> QED BY <2>1
<1> QED BY <1>4, <1>6, <1>7 DEF DeliveryInv

-----------------------------------------------------------------------------
(***************************************************************************)
(* The results.                                                            *)
(***************************************************************************)
LEMMA DeliveryStarts == DeliveryInit => DeliveryInv
<1> SUFFICES ASSUME DeliveryInit PROVE DeliveryInv
    OBVIOUS
<1>1. PICK rel \in SignedReleases : \E v \in Candidates(rel) :
          /\ Candidates(rel) = {v}
          /\ spec = [i \in Installations |-> IF i \in Legacy THEN LegacySpecs(rel, v) ELSE None]
    BY DEF DeliveryInit
<1>2. PICK v \in Versions :
          /\ Candidates(rel) = {v}
          /\ spec = [i \in Installations |-> IF i \in Legacy THEN LegacySpecs(rel, v) ELSE None]
    BY <1>1 DEF Candidates
<1>3. Sound(rel)
    BY <1>2, FS_Singleton DEF Sound
<1>4. rel.current \in Manifests
    BY <1>3, SoundHasManifest
<1> DEFINE w == [version |-> v, provenance |-> rel, manifest |-> rel.current]
           old == LegacySpecs(rel, v)
<1>5. old.driver = "1" /\ old.artifacts =
        [role \in Roles |-> IF role = "bootnetx64.efi" THEN None ELSE Pin(w, role)]
    BY DEF LegacySpecs
<1>6. ASSUME NEW role \in Roles
      PROVE  Pin(w, role) \in Descriptor /\ Pin(w, role).digest = File(rel.current, role)
    <2>1. File(rel.current, role) \in Files
        BY <1>4 DEF Files
    <2>2. <<v, role>> \in Versions \X Roles
        OBVIOUS
    <2>3. w.version = v /\ w.provenance = rel /\ w.manifest = rel.current
        OBVIOUS
    <2> HIDE DEF w
    <2> QED BY <2>1, <2>2, <2>3 DEF Pin, Descriptor
<1>7. old \in SpecType
    <2> HIDE DEF w
    <2>1. [role \in Roles |-> IF role = "bootnetx64.efi" THEN None ELSE Pin(w, role)]
            \in [Roles -> Descriptor \cup {None}]
        BY <1>6
    <2> QED BY <1>5, <2>1 DEF LegacySpecs, SpecType, w
<1>8. SpecOK(old) /\ SpecOK(None)
    <2> HIDE DEF w, old
    <2>1. PinsOnly(old, rel)
        BY <1>5, <1>6 DEF PinsOnly
    <2> QED BY <1>3, <2>1 DEF SpecOK
<1> HIDE DEF w, old
<1>9. spec = [i \in Installations |-> IF i \in Legacy THEN old ELSE None]
    BY <1>2 DEF old
<1>10. boot = Off({}) /\ wiz = [i \in Installations |-> NoWizard]
    BY DEF DeliveryInit
<1>11. boot \in BootType /\ boot.pc = "off"
    <2>1. {} \in SUBSET ImageType /\ 1 \in 1 .. 5
        OBVIOUS
    <2> QED BY <1>10, <2>1 DEF Off, BootType
<1>12. Lease!TypeOK
    BY DEF DeliveryInit, Lease!TypeOK, Lease!Phases
<1>13. DeliveryTypeOK
    BY <1>7, <1>9, <1>10, <1>11, <1>12, NoWizardOK DEF DeliveryTypeOK
<1>14. \A i \in Installations : WizardOK(wiz[i]) /\ SpecOK(spec[i])
    BY <1>8, <1>9, <1>10, NoWizardOK
<1>15. AttemptOK
    BY <1>11 DEF AttemptOK
<1> QED BY <1>13, <1>14, <1>15 DEF DeliveryInv

\* Every step of operators, machine, mirror and server keeps the invariant.
LEMMA DeliveryStep == DeliveryInv /\ [DeliveryNext]_vars => DeliveryInv'
<1> SUFFICES ASSUME DeliveryInv, [DeliveryNext]_vars PROVE DeliveryInv'
    OBVIOUS
<1>1. ASSUME NEW i \in Installations,
             \/ ResolveRelease(i) \/ ResolveManifest(i) \/ FetchArtifact(i) \/ CreateSpec(i)
             \/ Arm(i) \/ Cancel(i) \/ Delete(i)
             \/ Discover(i)
      PROVE  DeliveryInv'
    BY <1>1, ResolveReleaseKeeps, ResolveManifestKeeps, FetchArtifactKeeps, CreateSpecKeeps,
       OperatorKeeps, DiscoverKeeps
<1>2. CASE Attempt
    <2>1. CASE LoadTimeout
        BY <2>1, FailsKeeps DEF LoadTimeout
    <2> QED BY <1>2, <2>1, ServeScriptKeeps, RequestArtifactKeeps, LoadKeeps, RequestSeedKeeps,
               WriteSeedKeeps, BootInstallerKeeps DEF Attempt
<1>3. CASE MirrorAnswers \/ Again \/ Crash
    BY <1>3, MirrorAnswersKeeps, AgainKeeps, CrashKeeps
<1>4. CASE UNCHANGED vars
    <2>1. UNCHANGED <<wiz, spec, boot, leaseVars>> /\ phase' = phase
        BY <1>4 DEF vars, leaseVars
    <2>2. boot' \in BootType /\ Lease!TypeOK'
        BY <2>1, LeaseTyped DEF DeliveryInv, DeliveryTypeOK
    <2>3. AttemptOK'
        BY <2>1, AttemptUndisturbed DEF DeliveryInv
    <2> QED BY <2>1, <2>2, <2>3, MachineMoves
<1> QED BY <1>1, <1>2, <1>3, <1>4 DEF DeliveryNext

\* Every attempt is accounted for by one sound release, also after its
\* specification was deleted and across crashes.
THEOREM DeliveryInvariant == DeliverySpec => []DeliveryInv
<1> QED BY DeliveryStarts, DeliveryStep, PTL DEF DeliverySpec

\* Wizards, specifications and the machine keep their shape: what is pinned is a
\* version the release names and bytes a manifest lists.
THEOREM DeliveryTyped == DeliverySpec => []DeliveryTypeOK
<1>1. DeliveryInv => DeliveryTypeOK
    BY DEF DeliveryInv
<1> QED BY <1>1, DeliveryInvariant, PTL

\* The installer that starts is kernel, initrd and shim of one manifest that a
\* signed release calls current, and the Preseed of the installation that pinned
\* them: for any mirror, releases, interleaving and crashes.
THEOREM DeliveryBootsOneRelease == DeliverySpec => []BootsOneRelease
<1>1. DeliveryInv => BootsOneRelease
    <2> SUFFICES ASSUME DeliveryInv, boot.pc = "installing"
                 PROVE  \E rel \in SignedReleases :
                            /\ Cardinality(Candidates(rel)) = 1
                            /\ boot.images =
                                {[name |-> role, bytes |-> File(rel.current, role)] : role \in Roles}
                                    \cup {[name |-> Seed, bytes |-> boot.inst]}
        BY DEF BootsOneRelease
    <2>1. boot.line = 5
        BY DEF DeliveryInv, AttemptOK, Lines
    <2>2. PICK rel \in SignedReleases : MadeOf(boot, spec[boot.inst], rel)
        BY DEF DeliveryInv, AttemptOK
    <2>3. boot.images = Images(rel, Roles) \cup {[name |-> Seed, bytes |-> boot.inst]}
        BY <2>1, <2>2, EarlierLines DEF MadeOf, SeedAt
    <2> QED BY <2>2, <2>3 DEF MadeOf, Sound, Images
<1> QED BY <1>1, DeliveryInvariant, PTL

\* An assignment is spent only by the request for the Preseed.
LEMMA OnlySeedSpends ==
    ASSUME DeliveryInv, [DeliveryNext]_vars, NEW i \in Installations,
           phase[i] = "armed", phase'[i] = "spent"
    PROVE  RequestSeed /\ i = boot.inst /\ Gate
<1>1. phase \in [Installations -> Lease!Phases]
    BY DEF DeliveryInv, DeliveryTypeOK, Lease!TypeOK
<1>2. ASSUME NEW j \in Installations,
             \/ ResolveRelease(j) \/ ResolveManifest(j) \/ FetchArtifact(j) \/ CreateSpec(j)
             \/ Arm(j) \/ Cancel(j) \/ Delete(j) \/ Discover(j)
      PROVE  FALSE
    <2>1. phase' = phase \/ (\E to \in {"idle", "armed", "cancelled", "deleted"} :
                                phase' = [phase EXCEPT ![j] = to])
        BY <1>2 DEF ResolveRelease, ResolveManifest, FetchArtifact, Rejected, CreateSpec,
           Arm, Cancel, Delete, Discover, Lease!Create, Lease!Arm, Lease!Cancel, Lease!Delete,
           Lease!Move, leaseVars
    <2> QED BY <1>1, <2>1
<1>3. CASE Attempt
    <2>1. CASE RequestSeed
        <3>1. phase' # phase
            OBVIOUS
        <3>2. Lease!Spend(boot.inst) /\ Gate
            BY <2>1, <3>1 DEF RequestSeed, Fails, leaseVars
        <3>3. phase' = [phase EXCEPT ![boot.inst] = "spent"]
            BY <3>2 DEF Lease!Spend, Lease!Move
        <3>4. i = boot.inst
            BY <1>1, <3>3
        <3> QED BY <2>1, <3>2, <3>4
    <2>2. CASE ServeScript \/ RequestArtifact \/ Load \/ LoadTimeout \/ WriteSeed \/ BootInstaller
        <3>1. phase' = phase
            BY <2>2 DEF ServeScript, RequestArtifact, Load, LoadTimeout, WriteSeed,
               BootInstaller, Fails, Lease!Deliver, Lease!Lose, leaseVars
        <3> QED BY <3>1
    <2> QED BY <1>3, <2>1, <2>2 DEF Attempt
<1>4. CASE MirrorAnswers \/ Again \/ Crash
    BY <1>4 DEF MirrorAnswers, Again, Crash, Lease!Lose, leaseVars
<1>5. CASE UNCHANGED vars
    BY <1>5 DEF vars, leaseVars
<1> QED BY <1>2, <1>3, <1>4, <1>5 DEF DeliveryNext

\* The assignment is spent on a machine that holds every image its installation
\* pins, so that a mirror that fails or lies never costs more than an attempt.
THEOREM DeliveryHandoffNeedsImages == DeliverySpec => HandoffNeedsImages
<1> DEFINE Handoff == \A i \in Installations : phase[i] = "armed" /\ phase'[i] = "spent" =>
                        \A role \in Roles :
                            [name |-> role, bytes |-> spec[i].artifacts[role].digest] \in boot.images
<1>1. DeliveryInv /\ [DeliveryNext]_vars => [Handoff]_vars
    <2> SUFFICES ASSUME DeliveryInv, [DeliveryNext]_vars, NEW i \in Installations,
                        phase[i] = "armed", phase'[i] = "spent", NEW role \in Roles
                 PROVE  [name |-> role, bytes |-> spec[i].artifacts[role].digest] \in boot.images
        OBVIOUS
    <2>1. RequestSeed /\ i = boot.inst /\ spec[i] # None
        BY OnlySeedSpends DEF Gate
    <2>2. PICK rel \in SignedReleases : MadeOf(boot, spec[i], rel)
        BY <2>1 DEF RequestSeed, Asks, DeliveryInv, AttemptOK
    <2>3. boot.images = Images(rel, Roles) \cup SeedAt(4, boot.inst)
        BY <2>1, <2>2, SeedIsLast, EarlierLines DEF RequestSeed, MadeOf
    <2>4. spec[i].artifacts[role].digest = File(rel.current, role)
        BY <2>1, <2>2 DEF MadeOf, Pinned, PinsOnly
    <2> QED BY <2>3, <2>4 DEF Images
<1> QED BY <1>1, DeliveryInvariant, PTL DEF DeliverySpec, HandoffNeedsImages

=============================================================================
