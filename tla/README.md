# AegisPXE: a TLA+ model, its checks and its proofs

AegisPXE is a PXE provisioning server. A machine boots over the network and is
*discovered*; an operator allows it to be provisioned, describes an
*installation* and *arms* it; the machine's next boot fetches a boot script,
kernel, initrd and finally a Preseed, which erases the disk. The installer then
proves possession of a TPM key, gets a *lifecycle credential*, and reports its
progress until the installed system has validated itself.

This directory holds the models of the parts that carry state, the TLC
configurations that check them on small instances, and TLAPS proofs of what
holds for every instance.

    tlc -workers 2 -config MCStore.cfg MCStore      # any run of PROJECT.json
    tlapm InstallationStoreProofs.tla               # any *Proofs module

`PROJECT.json` lists components, runs, the variant ("mutant") each property is
known to catch, the source lines behind every definition, findings, hazards and
theorems. Definitions named `X_Something`, commented *Faulty variant*, are those
variants; no specification uses them.

## Inventory

| Component | State | Operations | Correct when |
|---|---|---|---|
| `lifecycle` | none | `CanAdvance`, `SourceAllowed`, `Report.Validate` | stages only advance; terminal stages end |
| `store` machines | `machines`, `machine_identifiers` | discover, set policy, delete | one row per host; provisionable only by an audited change |
| `store` installations, assignments | `installation_specs`, `installation_assignments` | create, arm, cancel, consume, delete | one armed installation per machine; an assignment is spent once |
| `store` telemetry | lifecycle events, credentials, log chunks | append event, append log chunk, authenticate | append-only, idempotent, ordered, bounded; revoked at the end |
| `store` boot trust | keys, challenges, credentials | register, approve, revoke, challenge, prove | one approved key; one release; every layer agrees at release |
| `store` events | audit log | append in the same transaction | agrees with the state it describes |
| `httpapi` boot API | requests in flight | discover, boot script, artifacts, Preseed | destructive payload at most once; every request answered |
| `httpapi` discovery limiter | a counter per address, in memory | admit, refuse, sweep | no address exceeds its rate; the table is bounded |
| `drivers/debian13`, `artifact` | the descriptors pinned in a specification | resolve release, manifest and artifacts; validate; fetch again and verify | what boots is one signed release; a failing mirror never costs the assignment |
| `cmd/aegispxe-server`, `store` schema, key file | process, two listeners, schema version, recovery key file | start, migrate, create key, serve, drain, exit | stops as a whole; a created key is kept |
| `httpapi` telemetry, trust | requests in flight | report, log, challenge, prove | progress needs an active credential |
| `operatorui` + `operator*` | accounts, passkeys (database); flows, tickets, sessions, attempts (memory) | resolve, claim, approve, block, enrol, log in, recover | one initial claim; an administrator remains; sessions are earned |
| `reporter` daemon, hooks | `/run/aegispxe` files: queue, evidence, offset, sequence, ciphertext | queue, detect, drain, upload, acquire | no event lost or overtaken; log a prefix |
| `reporter` finalizer | ciphertext and sequence on the target | handoff, first boot, validate | credential kept until the final word |
| Preseed text, pages, assets on disk, TPM, logging, packaging | files, hardware | render, log | not modelled, see below |

How they interact. HTTP handlers, one goroutine per request, call the store
several times each; the store opens SQLite with one connection
(`store.go`, `SetMaxOpenConns(1)`), so a store call is atomic and *handlers*
interleave between calls. In-memory tables (flows, tickets, sessions) have a
mutex each. Daemon and hooks of the reporter are separate processes that share
files; only the queue file has a lock, and one reader does not take it. Between
reporter and server any request or answer may be lost.

What is hard here: a value read by one store call and used by a later one; a
response that fails after the assignment it depends on was spent; late
check-ins and proofs; the retry of something already done; file rewrites that
are not atomic; two operators undoing each other; a mirror that changes between
two fetches; a process that ends in the middle of any of this. `PROJECT.json` lists these
hazards at the line where they bite, with the properties aimed at them.

## Modules

| Module | Models | Builds on |
|---|---|---|
| `Lifecycle` | `internal/lifecycle`: stages, successors, who may report what | |
| `InstallationStore` | `internal/store`: machines, specs, assignments, events, credentials, audit | `Lifecycle` |
| `OneShotBoot` | abstract: what the server promises about the destructive boot (`docs/adr/0005`) | |
| `Provisioning` | `internal/httpapi` handlers and console operations over the store, crash and restart | `InstallationStore`; refines `OneShotBoot` |
| `BootTrust` | TPM keys, challenges, credential release | `InstallationStore` |
| `Reporter` | `internal/reporter`: daemon, hooks, handoff, first boot | `InstallationStore` |
| `OperatorAuth` | accounts, ceremonies, tickets, sessions | |
| `ServerProcess` | `cmd/aegispxe-server`, schema migration, recovery key file, around the handlers | `Provisioning` |
| `ArtifactDelivery` | `drivers/debian13`, `artifact`: from the Debian mirror into a machine | `OneShotBoot` for assignments |
| `DiscoveryLimiter` | `allowDiscovery` of `internal/httpapi` | |
| `InstallationStoreProofs`, `ProvisioningProofs`, `ServerProcessProofs`, `BootTrustProofs`, `OperatorAuthProofs`, `ArtifactDeliveryProofs`, `DiscoveryLimiterProofs`, `ReporterProofs` | theorems | the module named |
| `MC*` | constants and symmetry for TLC | the module named |

**InstallationStore.** A variable is a table or a column: `policy` and
`secureBoot` (of `machines`), `owner` (`machine_identifiers`), `specMachine`
(`installation_specs`), `assignment` and `asgMachine`
(`installation_assignments`), `events` (`installation_lifecycle_events` in
sequence order), `credential` (`lifecycle_credentials`), `audit` (`events`, as
the set of pairs subject and type). A transaction is an action with the name of
the Go method; its guards are the method's early returns; a call that returns an
error is no step. Idempotency keys, sources, messages and times are
members of small sets; `body` stands for everything the store compares when a
key is repeated. Identifiers are random and never used twice (`Fresh`).

**Provisioning.** `req[r]` is the local state of the handler of request `r`:
where it is and what it has read. Each store call is a step: `StartMaterial`,
`ReadMachine`, `ReadAssignment`, `Consume` and `WritePreseed` are
`loadPublicBootContext` and `installationPreseed`; `StartDiscovery`, `Decide`,
`ReadSpec` and `CheckIn` are `discover` and `assignmentDecision`;
`StartTelemetry` and `ApplyReport` authenticate and append; `StartCreate` and
`FinishCreate` are the wizard, which resolves artifacts between them. `handoffs`
counts the payloads written. `Crash` empties `req` and leaves the tables.
Console operations other than the wizard are one store call each. The release of
a credential is the store's `ReleaseCredential`, detailed in `BootTrust`.
`Routes` are the groups of paths the handlers are registered under; `Arrive` and
`StoreStep` take the groups that are reachable. `ProvisioningSpec` exposes them
all, as `HandlerWithBootTrust` does; `ServerProcess` those of its listeners.

**BootTrust.** Adds keys, challenges and, as history, `releases` (which key got
the credential through which challenge, and the assignment's state then). A
challenge may expire at any time. Deletion includes the trust tables. A proof is
checked against the key its challenge names, so `ReleaseNeedsStandingTrust` speaks
of that key and of the challenge as it goes from open to used.

**Reporter.** `daemon` and `det` are the program counters of the daemon and of
the two runs of `detectNativeInstallerEvidence`; `hook` that of installer, hooks and
validator, which run one after the other. Each file is a variable, each write
of one a step. The evidence file, which two processes write, has a step for every
call of `writePrivateFile`: open and truncate, write, chmod, remove after a failed
chmod, rename; `det[p].file` is what a process holds open, which the other's rename
turns into the file of record and its remove into no file at all. Files on the
target are not synced: `unsynced` holds what a power loss may leave in place of
the sequence number. A line of log stands for its size: a read takes
`MaxReporterLogRead` lines (64 KiB in the code) and the store keeps
`MaxInstallationLogBytes`. The cap falls on line ends; that a line cut in two by it is
redacted piece by piece is outside the model. `RedactLogContent` is applied before the
store compares or measures anything, as the handler does. A request is taken by the server or not, and its answer lost or
not: to the client a lost request, a lost answer and a refusal are one failure.
Timestamps are drawn from `Stamps`, always one that no report of that key has,
as `time.Now` at nanosecond resolution gives.

**OperatorAuth.** A token (flow, ticket, session) is unused, live or ended;
`by` remembers what earned it. `req` is again the handler's local state,
with the account as it was read. Whether a WebAuthn answer verifies is a choice.
A login needs one live session fewer than `MaxActiveSessions` (1024 in the code),
a ceremony one live flow fewer than `MaxActiveFlows` (256).

**ServerProcess.** `proc.pc` is where `main` is: `assets` is the check of the Secure
Boot assets, which ends the process under the required policy, `store`, `key`, `write` and
`sync` are `store.Open` and `loadOrCreateRecoveryKey`, `config` the remaining
gates, `serve` the `select`, `drain_pxe` and `drain_studio` the two calls of
`Shutdown`. `listener` says which one is open and `Surface` which routes it lets
through: boot material and discovery on the first, the console on the second. The
telemetry and trust routes are registered but answer 404 on both (`pxeSurface`,
`studioSurface`), which `ReporterIsDormant` follows to its end: at this commit no
installation gets past `PXE_BOOTED`, and `Reporter`, `BootTrust` and the telemetry
steps of `Provisioning` model code that is kept for when the reporter returns. A listener closes as
its `Shutdown` begins, so that the console still accepts work while the boot network
drains, and both share one deadline (`proc.late`). The end of the process,
orderly or not, drops the requests in flight. `Kill` keeps files as they are,
`PowerLoss` only what was synced; the database keeps what was committed (WAL,
synchronous). `fsync` of a new file is taken to include its directory entry.
`announced` records the keys the log reported as created.

**ArtifactDelivery.** Bytes are named by the manifest that lists them and two
bytes have one digest only if they are equal. A release says which manifest
`current` stands for and which one each version lists. `wiz` is `Resolve` fetch
by fetch, `spec` what was pinned, `boot` the iPXE of one machine: the line of the
boot script it is at, what it has loaded, and the descriptor the server is
fetching for it. The mirror answers any fetch with any bytes, an error, or not
at all. Installations in `Legacy` were pinned by driver contract 1, without a
shim. Assignments are the abstract lease of `OneShotBoot`, which `Provisioning`
implements; machine policy and Secure Boot state are in `Provisioning`. The gate of
the Preseed and the spending of the assignment are one step here, as the latter
checks again; their interleavings are `Provisioning`'s. Only a client that follows
the boot script is modelled: the Preseed endpoint is public and does not ask whether
images were fetched, so `HandoffNeedsImages` is about the script.

**DiscoveryLimiter.** `clients` is the map of counters; one request is one step,
as in the code, under the mutex. `admitted` is history: the times of all
admissions of a host. A restart empties the table and is left out: the property is about
one process.

## Runs

| Run | Instance | Distinct states | Shows |
|---|---|---|---|
| `store` | 2 machines, 2 installations, 2 identifiers observed alone or together, 4 reports that repeat, conflict, skip and fail | 163,783 | the tables stay consistent in every order of transactions |
| `provisioning` | 1 machine, 2 installations, 2 requests | 344,034 | one-shot handoff, scheduling against lifecycle, refinement of `OneShotBoot` |
| `server` | 1 machine, installation and request, both Secure Boot states, 2 keys, databases of no, the last and the next schema version | 78,243 | no listener lets a reporter in, the boot network drains first, the process stops as a whole, keeps its key, answers every request |
| `delivery` | 2 wizards, 1 installation of the old contract, 2 installer versions, 4 releases (two of them ambiguous or incomplete) | 93,849 | one signed release boots, the assignment is spent last, attempts end |
| `limiter` | 3 hosts, a table of 2 swept from 1 on, 2 requests per window of 2 ticks, 7 ticks | 827,844 | rate and table bounds |
| `boot_trust` | 1 machine, 2 installations, 2 keys, 2 challenges | 862,334 | rows stay bound, one release, trust in the proving key standing at release |
| `reporter` | 1 installation, 2 scripts of installer log (one with a sensitive line), 2 timestamps, 2 first boots, 2 lines a read, log limit 3 | 3,112,794 | events neither lost nor overtaken, log a redacted prefix, credential kept |
| `operator_auth` | 2 users, 2 requests, 3 flows of which 2 may be live, 1 ticket, 3 sessions of which 2 may be live, 1 attempt per window | 913,633 | claims, sessions, blocking |
| `stale_policy`, `cancelled_release`, `retries`, `handoff_drain` | smaller | | a counterexample each, see Findings |

*Bounds.* Two requests are what a read-then-use race needs, two installations
what "one armed per machine" needs, two keys and challenges what a double
release needs; a second boot of the first-boot unit is what its restart needs; three
flows are a login for each of two users and a recovery; a third session is what the
limit of two needs. Two installer versions are a release and its successor, and
a second key is what a replaced one needs. Seven ticks of the limiter are a full window, its
successor, and the two windows after which a counter is swept, and a third host is
what a full table of two turns away. The bound of
`LimiterHolds` is tight: with one admission less TLC finds a violation. Every
stage up to `SUCCESS` is reached in `reporter`. Its log of three lines takes two reads,
and with all three stored the first-boot chunk meets the limit and is refused; two
timestamps are an attempt and its retry. Identifiers are never
reused, so a finite set of them bounds how often things are created, and a
behaviour ends when they run out: that is why the runs do not check for
deadlock (clients and operators may also simply stop). `MaxBoots`,
`MaxInstallationLogBytes`, `MaxReporterLogRead`, `MaxLoginAttempts`,
`MaxActiveSessions`, `MaxActiveFlows`, the limiter's constants with `MaxTime`, and the sizes of the identifier sets are the
only bounds. Symmetry is used only in runs that check safety.

*Fairness.* `ProcessSpec`: weak fairness of `main`'s steps once it is launched, of the
shutdown timer, and of each request's `Handle`. `main` waits for nothing but
the `select` and the drains; `net/http` gives an accepted request its own
goroutine, and the handlers wait for nothing but the database and fetches that
have a timeout. `StopsWhole` does not need the handlers' part, as the deadline ends
the drains. `DeliverySpec`: weak fairness of an attempt's own steps, in which
iPXE runs its script, the handlers answer, and the loader's client gives up after
its timeout; the mirror owes nothing. Nothing is assumed of clients, operators,
service manager or the reporter.

## Findings

* `stale_policy`: the Preseed handler acts on a policy it read earlier
  (`provisioning.go:397`, then `:223`); `ConsumeAssignment` does not look again.
  `ARCHITECTURE.md` says a blocked machine must be refused.
* `cancelled_release`: a proof repeated for a used challenge is answered with the
  credential before policy and assignment are looked at (`boot_trust.go:254`);
  `LIFECYCLE.md:57` says a cancelled assignment never releases one.
* `retries`: log chunks and first-boot reports are stamped anew on each
  attempt, and the store compares the stamp, so that a retry after a lost answer is
  refused from then on; `LIFECYCLE.md:178` and ADR 0006 say retries are safe.
* `handoff_drain`: the handoff's check of the queue ignores the lock and can
  see the file between its truncation and its rewriting.

Two notes without a run. `README.md:69` still says that Preseed reads consume
nothing; since ADR 0005 they consume the assignment. And a recovery key whose
process is killed after the write and before the sync is loaded by the next
process from an unsynced file: it is used, but was never reported as created,
and a power loss can still take it. `CreatedKeyIsKept` is about reported keys.

## Proofs

Every invariant, action property and refinement the passing runs check is also a
theorem, and so are two that no run lists: `AssignmentIsOneShot`, whose case TLC
covers with `ImplementsOneShotBoot`, and `OneApprovedKeyPerMachine`. They hold for any sets of machines, installations, identifiers, observations,
reports, requests, keys, challenges, users and tokens. TLC evaluates every
assumption in the runs:

| Assumption | Says |
|---|---|
| `DomainAssumption`, `NoneAssumption`, `InputAssumption` | inputs are of their types, `None` is nobody, machine and installation ids differ |
| `SecureBootPolicyAssumption` | the configured policy is one of the three the code accepts |
| `ProcessAssumption` | a recovery key is not a marker of a missing or unusable file |
| `AuthAssumption` | flows and tickets differ, the limits on attempts, flows and sessions are natural numbers |
| `LimiterAssumption` | window, limit and table size are positive, as the code's constants are |
| `DeliveryAssumption` | releases are of their type, old installations are installations |
| `ReporterAssumption`, `TextAssumption` | the reporter's installation is one; a read takes something; its stages, keys and codes are texts the store accepts |
| `NoFileAssumption` | a missing evidence file is not one with contents |
| `StampAssumption` | there are two different times |
| `SyslogAssumption` | of the Debian installer, which is not part of this code: where no menu item failed, its late command runs after the base system is installed and the profile applied |

**InstallationStoreProofs.** Apart from the types, none of the store's invariants is
inductive alone: all of them need the types, and most need `ReferentialIntegrity`,
by which an installation without a spec has neither assignment nor events, so
that creating one starts a new history; `AuditAgrees` needs besides that no
existing installation is marked deleted (`DeletedIsFinal`).
`StoreInv` is their conjunction:

    TypeOK, ReferentialIntegrity, OneArmedPerMachine, LifecycleOrdered,
    KeysIdentifyEvents, ApprovalIsAudited, AuditAgrees, DeletedIsFinal

`StoreInvStep` combines one lemma per conjunct, each of which goes through the
actions that can disturb it. The lemma `EventsStep` says what
any action does to a history (nothing, one accepted event more, or delete it),
`AuditStep` that each operation on an assignment writes the row that says so,
and `AdvanceIncreasesRank` that `CanAdvance` follows a rank. The action properties `HistoryIsAppendOnly` and
`AssignmentIsOneShot` follow from the same lemmas.

**ProvisioningProofs.** `ServerStepOK`: every step of the server is a step of
the store or leaves it alone, for any number of handlers at any point, so
`StoreInv` carries over (`ServerInvariant`). `OneShotHandoff` is then
strengthened to `HandoffInv`: an installation with a payload delivered or being
delivered has its assignment consumed (or is deleted), at most one request is
delivering it, and none once it was delivered. `SpentStays` says a spent assignment
stays spent and `QuietStep` disposes of the steps that touch neither.

`ScheduleMatchesLifecycle` and `CredentialGatesProgress` are not inductive
alone: a handler checks assignment or credential in one store call and
appends its event in a later one. `LetIn` says what still holds then: a
handler about to check in or append is about an installation that has had an
assignment, one about to append an installation that has had a credential, or
the installation is deleted and the append finds no row. `LetInStays` carries that over every other
handler's step (`ServerProgress`).

`ServerImplementsOneShotBoot` is the refinement of `OneShotBoot`. `StorePhases`
gives the move of the abstract phase for each transaction, `ConsumeImplements`,
`WriteImplements` and `CrashImplements` what becomes of the token in the hands
of a handler; every other step leaves phases and tokens as they are.

**ServerProcessProofs.** `ProcessStepImplements`: every step of the process is a
step of `Provisioning` or changes nothing there; an exit is its `Crash`, or a
stutter when no request is in flight. Hence `ProcessSpec => ProvisioningSpec`, and
what is proved of the handlers holds across restarts, for any set of keys and
schema versions. `CreatedKeyIsKept` is strengthened to `KeyInv`: a process that is creating the
file was not preceded by one that announced a key, and one that holds a key holds
the file's. `ProcessTypeOK`, which says that nothing listens without a key,
needs `ClosedFirst`: the boot listener is closed before its drain is waited for.
`ReporterIsDormant` goes from `InstallationsHidden` (no surface has the route) through
`UncredentialedStep` to `CredentialGatesProgress`, proved of the handlers: without a
credential no installation leaves the server's stages. `BootRequestsDrained` needs
`HandlerKeepsOp`, that a request stays on the listener it came in by.

**BootTrustProofs.** Trust operations on keys write audit rows that `StoreInv`
does not speak of, and the others are store transactions, so `StoreInv` carries
over (`TrustKeepsStore`). `TrustInv` adds `ChallengesAreBound` (an issued challenge
names its installation, machine and key) and `ReleasesAreProven` (an installation
has one used challenge at most, and every release went through it).
Without the latter `OneReleasePerInstallation` is not inductive: it
says nothing of the challenge a repeated proof is checked against.

**OperatorAuthProofs.** `AuthInv` has four parts: the types with the limit on live
sessions; `AccountsOK` (no role before approval, a claim has left an
administrator); `TokensOK`, which says of every ticket, session and handler what
earned it and what the handler may still rely on (the role it read is the
account's, as no role changes after approval); and `OneHeir`: a token that has
ended has one heir at most, a handler, a session or a ticket.
`TakingOver` and `PassingOn` are the two ways an heir changes.
`BlockedIsLetInNowhere` goes through the points at which a handler reads the account. `ShapeStep`
and `TokensKept` deal with what a step leaves alone; `SessionsAreEarned` follows.

**DiscoveryLimiterProofs.** The bound is about all admissions, the code remembers
a start and a count. `Counts` connects them: the latest `count` admissions are the
counter's, and `MaxDiscoveryPerWindow` before its first the clock was a window
behind; `Forgotten` says the same of a host whose counter was swept. `HostWaits`,
`HostSwept`, `HostRestarts` and `HostCounts` are the four things that happen to
a host, and `EntryFits` is the bound of the table.

**ArtifactDeliveryProofs.** An attempt's images are fetched one by one, and the
specification they come from may be deleted between two of them. `AttemptOK`
therefore names a signed release (`MadeOf`) that accounts for what the machine
holds and for what the specification, while it exists, will add.
One lemma per action; `OnlySeedSpends` then gives `HandoffNeedsImages`.

**ReporterProofs.** The longest argument, since daemon and hook share files without
a lock. `StepAtServer` says what a step does to the installation's rows (nothing,
one report more, deletion), `StepAtQueue` what it does to the queue (nothing, one
more, the end of a drain). On these rest the parts of `ReporterInv`:

* `QueueOK`: what the drain counts as sent, the server has; whatever was queued
  is pending or at the server.
* `EvidenceOK`: what either process has seen or left in a file, the temporary
  one included, has been queued, and the hook has seen it all before it moves
  on. `EvidenceWriterMoves` shows it for every call of `writePrivateFile`, whichever
  file the other process is holding open. From this `EvidenceIsNotOvertaken`, which has to be carried along, as
  a drain may write the queue back at any time.
* `CredentialOK`: the file is removed after the server has the final word.
* `LogOK`: either the offset is where the server's log ends, or the server has a
  chunk whose answer was lost, and its sequence number then blocks every later
  one, whose time differs. Reads are cut (`ReadWithinLog`) and chunks compared after
  redaction (`RedactedTyped`).

**Only model-checked.** Liveness (`RequestsAreAnswered`, `StopsWhole`,
`AttemptsEnd`), as fairness and `ENABLED` are out of this prover's reach; and the
counterexamples of the four runs under Findings.

## Not modelled

The text of Preseed, iPXE scripts and pages; signature checks, TPM and WebAuthn
cryptography and the MAC's time window (each is a choice); what makes Secure Boot
assets on disk valid; machine nicknames and inventory; the read-only machine API;
CSRF tokens; logging and the console's log view, which change no state of the
system; packaging. The trusted-proxy check is a stateless predicate on address
and headers; `OperatorAuth` starts from the identity it vouches for.
`IssueLifecycleCredential` and `RevokeLifecycleCredential` have no caller outside
tests. The reporter's package is suspended at this commit; its source is there and
is modelled.

## Plan

Done, in this order: `Lifecycle`, `InstallationStore`, `OneShotBoot`,
`Provisioning`, `BootTrust`, `Reporter`, `OperatorAuth`, `ArtifactDelivery`,
`DiscoveryLimiter`, `ServerProcess`, each checked; then the proofs, store
first, so that `StoreInv` could be carried into `Provisioning`, `ServerProcess` and
`BootTrust`, then the components that stand alone.

Next:

1. `BootTrust` as a refinement of the store with `ReleaseCredential` as its
   abstract release, so that `Provisioning` and `BootTrust` meet in a theorem.
2. Shorter proofs where one lemma can serve several components: the handlers of
   `Provisioning` and `OperatorAuth` are alike.
