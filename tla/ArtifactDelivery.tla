-------------------------- MODULE ArtifactDelivery --------------------------
(***************************************************************************)
(* From the Debian mirror into the memory of a machine.  The wizard        *)
(* resolves a signed release into a manifest and the manifest into kernel, *)
(* initrd and shim (internal/drivers/debian13/artifacts.go), and pins what *)
(* it saw in the installation's specification.  When the machine boots,    *)
(* its boot script fetches each of them through the server, which fetches  *)
(* them from the mirror again (internal/artifact/loader.go), and then the  *)
(* Preseed, which spends the assignment.                                   *)
(*                                                                         *)
(* The mirror is free to answer any fetch with anything: another release   *)
(* than a moment ago, the bytes of another version, an error, nothing.     *)
(* Assignments are taken from OneShotBoot, which Provisioning implements.  *)
(***************************************************************************)
EXTENDS Naturals, Sequences, FiniteSets

CONSTANTS
    Installations,
    Legacy,          \* those whose specification a server of driver contract 1 wrote
    Versions,        \* installer versions: the directories of the archive
    SignedReleases,  \* the InRelease files the archive has ever signed
    Junk,            \* any bytes that are in no manifest, and any failed fetch
    None

Roles == {"linux", "initrd.gz", "bootnetx64.efi"}
Seed == "preseed.cfg"

\* Bytes are named by the manifest that lists them, which stands for its own
\* bytes as well; two bytes have the same SHA-256 when they are the same.
Manifests == Versions
File(m, role) == <<m, role>>
Files == {File(m, role) : m \in Manifests, role \in Roles}

\* "current" is the manifest listed for the moving directory of that name;
\* manifests[v] the one listed for version v.
ReleaseType ==
    [current : Manifests \cup {None}, manifests : [Versions -> Manifests \cup {None}]]

ASSUME DeliveryAssumption ==
    /\ Legacy \subseteq Installations
    /\ SignedReleases \subseteq ReleaseType
    /\ None \notin Versions /\ Junk \notin Versions \cup {None}

VARIABLES
    wiz,       \* the wizard that creates each installation
    spec,      \* installation_specs: driver contract and pinned artifacts
    boot,      \* the machine: its iPXE and the request it is waiting for
    phase, token, delivered   \* the one-shot lease

leaseVars == <<phase, token, delivered>>
vars == <<wiz, spec, boot, leaseVars>>

Lease == INSTANCE OneShotBoot

Descriptor ==
    [version : Versions, provenance : SignedReleases, digest : Files,
     source : Versions \X Roles]

SpecType == [driver : {"1", "2"}, artifacts : [Roles -> Descriptor \cup {None}]]

WizardType ==
    [pc : {"idle", "manifest", "fetch"}, version : Versions \cup {None},
     provenance : SignedReleases \cup {None}, manifest : Manifests \cup {None},
     verified : SUBSET Roles]

ImageType == [name : Roles, bytes : Files] \cup [name : {Seed}, bytes : Installations]

BootType ==
    [pc : {"off", "chain", "ask", "load", "seed", "installing", "failed"},
     line : 1 .. 5, inst : Installations \cup {None}, images : SUBSET ImageType,
     item : Descriptor \cup {None}, answer : Files \cup {Junk, None}]

\* The shape of specifications, wizards and machine: what is pinned is a version
\* the release names and bytes a manifest lists.
DeliveryTypeOK ==
    /\ wiz \in [Installations -> WizardType]
    /\ spec \in [Installations -> SpecType \cup {None}]
    /\ boot \in BootType
    /\ Lease!TypeOK

NoWizard ==
    [pc |-> "idle", version |-> None, provenance |-> None, manifest |-> None, verified |-> {}]

Off(images) ==
    [pc |-> "off", line |-> 1, inst |-> None, images |-> images,
     item |-> None, answer |-> None]

(***************************************************************************)
(* Driver contracts.                                                       *)
(***************************************************************************)
Pinned(s) == {role \in Roles : s.artifacts[role] # None}

ValidateSpec(s) ==
    /\ Pinned(s) = IF s.driver = "2" THEN Roles ELSE Roles \ {"bootnetx64.efi"}
    /\ \A role \in Pinned(s) :
        LET item == s.artifacts[role]
            kernel == s.artifacts["linux"]
        IN  /\ item.version = kernel.version /\ item.provenance = kernel.provenance
            /\ item.source = <<item.version, role>>

\* The old contract is kept for audit and cleanup and is not rendered.
Renderable(s) == ValidateSpec(s) /\ s.driver = "2"

Pin(w, role) ==
    [version |-> w.version, provenance |-> w.provenance,
     digest |-> File(w.manifest, role), source |-> <<w.version, role>>]

(***************************************************************************)
(* The wizard: Resolve, then the specification.                            *)
(***************************************************************************)
\* The versions that list the manifest "current" stands for.
Candidates(rel) == {v \in Versions : rel.current # None /\ rel.manifests[v] = rel.current}

\* Faulty variant: that no version matches is not noticed.
ParseRelease_NoMatch(rel) ==
    IF Candidates(rel) = {} THEN {None}
    ELSE IF Cardinality(Candidates(rel)) = 1 THEN Candidates(rel) ELSE {}

\* The installer version, if the release has one and only one.
ParseRelease(rel) == IF Cardinality(Candidates(rel)) = 1 THEN Candidates(rel) ELSE {}

Rejected(i) == wiz' = [wiz EXCEPT ![i] = NoWizard] /\ UNCHANGED <<spec, boot, leaseVars>>

\* A missing or wrong signature is an error like a failed fetch, and changes nothing.
ResolveRelease(i) ==
    /\ wiz[i].pc = "idle"
    /\ phase[i] = "fresh"
    /\ \E rel \in SignedReleases : \E v \in ParseRelease(rel) :
          wiz' = [wiz EXCEPT ![i] = [NoWizard EXCEPT !.pc = "manifest", !.version = v,
                                        !.provenance = rel, !.manifest = rel.current]]
    /\ UNCHANGED <<spec, boot, leaseVars>>

ResolveManifest(i) ==
    /\ wiz[i].pc = "manifest"
    /\ \E answer \in Manifests \cup {Junk} :
        \/ /\ answer = wiz[i].manifest
           /\ wiz' = [wiz EXCEPT ![i].pc = "fetch"]
           /\ UNCHANGED <<spec, boot, leaseVars>>
        \/ answer # wiz[i].manifest /\ Rejected(i)

\* Each artifact is fetched in turn; the bytes are compared and not kept.
NextRole(w) ==
    IF "linux" \notin w.verified THEN "linux"
    ELSE IF "initrd.gz" \notin w.verified THEN "initrd.gz" ELSE "bootnetx64.efi"

FetchArtifact(i) ==
    /\ wiz[i].pc = "fetch"
    /\ wiz[i].verified # Roles
    /\ LET role == NextRole(wiz[i]) IN
       \E answer \in Files \cup {Junk} :
        \/ /\ answer = File(wiz[i].manifest, role)
           /\ wiz' = [wiz EXCEPT ![i].verified = @ \cup {role}]
           /\ UNCHANGED <<spec, boot, leaseVars>>
        \/ answer # File(wiz[i].manifest, role) /\ Rejected(i)

CreateSpec(i) ==
    /\ wiz[i].pc = "fetch"
    /\ wiz[i].verified = Roles
    /\ LET s == [driver |-> "2", artifacts |-> [role \in Roles |-> Pin(wiz[i], role)]] IN
        /\ ValidateSpec(s)
        /\ spec' = [spec EXCEPT ![i] = s]
    /\ wiz' = [wiz EXCEPT ![i] = NoWizard]
    /\ Lease!Create(i)
    /\ UNCHANGED boot

(***************************************************************************)
(* The operator.                                                           *)
(***************************************************************************)
Arm(i) ==
    /\ \A j \in Installations : phase[j] # "armed"
    /\ Lease!Arm(i)
    /\ UNCHANGED <<wiz, spec, boot>>

Cancel(i) == Lease!Cancel(i) /\ UNCHANGED <<wiz, spec, boot>>

Delete(i) ==
    /\ Lease!Delete(i)
    /\ spec' = [spec EXCEPT ![i] = None]
    /\ UNCHANGED <<wiz, boot>>

(***************************************************************************)
(* The machine and the handlers it talks to.  A handler first passes the   *)
(* gate of loadPublicBootContext, which asks for an armed assignment.      *)
(***************************************************************************)
Gate == spec[boot.inst] # None /\ phase[boot.inst] = "armed"

BootGoes(pc) == boot' = [boot EXCEPT !.pc = pc]
NoAnswer == [boot EXCEPT !.pc = "failed", !.item = None, !.answer = None]
Fails == boot' = NoAnswer /\ UNCHANGED <<wiz, spec, leaseVars>>

\* Discovery chains to the script of the armed installation.
Discover(i) ==
    /\ boot.pc = "off"
    /\ phase[i] = "armed"
    /\ boot' = [boot EXCEPT !.pc = "chain", !.inst = i]
    /\ UNCHANGED <<wiz, spec, leaseVars>>

\* Faulty variant: the Preseed is fetched before the images.
Script_SeedFirst == <<Seed, "linux", "initrd.gz", "bootnetx64.efi">>

\* The fetches of the boot script; it begins with imgfree and ends with boot.
Script == <<"linux", "initrd.gz", "bootnetx64.efi", Seed>>

ServeScript ==
    /\ boot.pc = "chain"
    /\ \/ /\ Gate
          /\ Renderable(spec[boot.inst])
          /\ boot' = [boot EXCEPT !.pc = "ask", !.line = 1, !.images = {}]
          /\ UNCHANGED <<wiz, spec, leaseVars>>
       \/ Fails

Asks(names) == boot.pc = "ask" /\ boot.line <= Len(Script) /\ Script[boot.line] \in names

RequestArtifact ==
    /\ Asks(Roles)
    /\ \/ /\ Gate
          /\ ValidateSpec(spec[boot.inst])
          /\ spec[boot.inst].artifacts[Script[boot.line]] # None
          /\ boot' = [boot EXCEPT !.pc = "load",
                                  !.item = spec[boot.inst].artifacts[Script[boot.line]]]
          /\ UNCHANGED <<wiz, spec, leaseVars>>
       \/ Fails

MirrorAnswers ==
    /\ boot.pc = "load"
    /\ boot.answer = None
    /\ \E answer \in Files \cup {Junk} : boot' = [boot EXCEPT !.answer = answer]
    /\ UNCHANGED <<wiz, spec, leaseVars>>

\* Faulty variant: bytes of the right length are good enough.
VerifyContent_SizeOnly(item, bytes) == bytes # Junk

VerifyContent(item, bytes) == bytes = item.digest

Fetched(image) ==
    boot' = [boot EXCEPT !.pc = "ask", !.line = @ + 1, !.images = @ \cup {image},
                         !.item = None, !.answer = None]

\* The descriptor was read before the fetch: a cancellation or a deletion in
\* the meantime goes unnoticed until the next request.
Load ==
    /\ boot.pc = "load"
    /\ boot.answer # None
    /\ \/ /\ VerifyContent(boot.item, boot.answer)
          /\ Fetched([name |-> Script[boot.line], bytes |-> boot.answer])
          /\ UNCHANGED <<wiz, spec, leaseVars>>
       \/ Fails

\* Faulty variant: the client that fetches from the mirror has no timeout.
LoadTimeout_Never == FALSE /\ Fails

LoadTimeout ==
    /\ boot.pc = "load"
    /\ boot.answer = None
    /\ Fails

\* The gate and the spending are one step: ConsumeAssignment checks again what
\* the gate saw, and Provisioning takes the calls apart.
RequestSeed ==
    /\ Asks({Seed})
    /\ \/ /\ Gate
          /\ Renderable(spec[boot.inst])
          /\ Lease!Spend(boot.inst)
          /\ BootGoes("seed")
          /\ UNCHANGED <<wiz, spec>>
       \/ Fails

WriteSeed ==
    /\ boot.pc = "seed"
    /\ \/ /\ Lease!Deliver(boot.inst)
          /\ Fetched([name |-> Seed, bytes |-> boot.inst])
       \/ /\ Lease!Lose({boot.inst})
          /\ BootGoes("failed")
    /\ UNCHANGED <<wiz, spec>>

BootInstaller ==
    /\ boot.pc = "ask"
    /\ boot.line > Len(Script)
    /\ BootGoes("installing")
    /\ UNCHANGED <<wiz, spec, leaseVars>>

\* The machine comes back, with the images of the last attempt or without.
Again ==
    /\ boot.pc \in {"failed", "installing"}
    /\ \E images \in {boot.images, {}} : boot' = Off(images)
    /\ UNCHANGED <<wiz, spec, leaseVars>>

\* The server stops: wizards, downloads and a Preseed being written are lost.
Crash ==
    /\ wiz' = [i \in Installations |-> NoWizard]
    /\ boot' = IF boot.pc \in {"chain", "ask", "load", "seed"}
               THEN NoAnswer ELSE boot
    /\ Lease!Lose(token)
    /\ UNCHANGED spec

(***************************************************************************)
(* The specification.                                                      *)
(***************************************************************************)
\* Specifications written by the previous driver contract have no shim.
LegacySpecs(rel, v) ==
    [driver |-> "1",
     artifacts |-> [role \in Roles |->
        IF role = "bootnetx64.efi" THEN None
        ELSE Pin([version |-> v, provenance |-> rel, manifest |-> rel.current], role)]]

DeliveryInit ==
    /\ wiz = [i \in Installations |-> NoWizard]
    /\ \E rel \in SignedReleases : \E v \in Candidates(rel) :
          /\ Candidates(rel) = {v}
          /\ spec = [i \in Installations |-> IF i \in Legacy THEN LegacySpecs(rel, v) ELSE None]
    /\ boot = Off({})
    /\ phase = [i \in Installations |-> IF i \in Legacy THEN "idle" ELSE "fresh"]
    /\ token = {}
    /\ delivered = [i \in Installations |-> 0]

Attempt ==
    \/ ServeScript \/ RequestArtifact \/ Load \/ LoadTimeout
    \/ RequestSeed \/ WriteSeed \/ BootInstaller

DeliveryNext ==
    \/ \E i \in Installations :
        \/ ResolveRelease(i) \/ ResolveManifest(i) \/ FetchArtifact(i) \/ CreateSpec(i)
        \/ Arm(i) \/ Cancel(i) \/ Delete(i)
        \/ Discover(i)
    \/ Attempt \/ MirrorAnswers \/ Again \/ Crash

\* iPXE runs its script and the handlers answer; the mirror owes nothing.
DeliverySpec == DeliveryInit /\ [][DeliveryNext]_vars /\ WF_vars(Attempt)

(***************************************************************************)
(* Properties.                                                             *)
(***************************************************************************)
Attempting == boot.pc \in {"chain", "ask", "load", "seed"}

\* Whatever the mirror serves and however releases, wizards, cancellations and
\* crashes interleave, an installer that starts consists of kernel, initrd and
\* shim of one manifest, the one a signed release calls current, and of the
\* Preseed of the installation that pinned them; nothing is left over from an
\* earlier attempt and no specification of the old contract gets that far.
BootsOneRelease ==
    boot.pc = "installing" =>
        \E rel \in SignedReleases :
            /\ Cardinality(Candidates(rel)) = 1
            /\ boot.images =
                {[name |-> role, bytes |-> File(rel.current, role)] : role \in Roles}
                    \cup {[name |-> Seed, bytes |-> boot.inst]}

\* The assignment is spent on a machine that already holds every verified image
\* its installation pins: a mirror that fails or lies costs an attempt, never
\* the assignment (ADR 0005: the Preseed is the final object of the script).
HandoffNeedsImages ==
    [][\A i \in Installations : phase[i] = "armed" /\ phase'[i] = "spent" =>
          \A role \in Roles :
            [name |-> role, bytes |-> spec[i].artifacts[role].digest] \in boot.images]_vars

\* Every boot attempt ends, also when the mirror never answers: the loader's
\* client has a timeout, and a gate that closes is an error of the script.
AttemptsEnd == Attempting ~> ~Attempting

=============================================================================
