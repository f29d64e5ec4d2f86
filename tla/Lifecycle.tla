----------------------------- MODULE Lifecycle -----------------------------
(***************************************************************************)
(* The authoritative lifecycle of one installation, internal/lifecycle:    *)
(* its stages, who may report each of them, and which stage may follow     *)
(* which.  The database, the HTTP handlers and the reporter all go through *)
(* these predicates, so every other module of the project extends this     *)
(* one.                                                                    *)
(***************************************************************************)
EXTENDS Naturals, Sequences

\* Stage "" of Go: the installation has no lifecycle event yet.
NoStage == "NO_STAGE"

ServerStages == {"CREATED", "QUEUED", "PXE_BOOTED"}

InstallerStages ==
    {"INSTALLER_STARTED", "DISK_PREPARATION", "OS_INSTALLING",
     "PROFILE_APPLYING", "HARDENING"}

TerminalStages == {"SUCCESS", "FAILED"}

Stages ==
    ServerStages \cup InstallerStages \cup {"FIRST_BOOT", "VALIDATING"}
        \cup TerminalStages

Sources == {"server", "installer", "finalizer", "validator"}

Terminal(stage) == stage \in TerminalStages

SourceAllowed(stage, source) ==
    \/ stage \in ServerStages /\ source = "server"
    \/ stage \in InstallerStages /\ source = "installer"
    \/ stage = "FIRST_BOOT" /\ source = "finalizer"
    \/ stage \in {"VALIDATING", "SUCCESS"} /\ source \in {"validator", "finalizer"}
    \/ stage = "FAILED" /\ source \in {"installer", "finalizer", "validator"}

\* The stages that may follow each stage, FAILED left to CanAdvance.
Successors ==
    [CREATED           |-> {"QUEUED", "PXE_BOOTED"},
     QUEUED            |-> {"PXE_BOOTED"},
     PXE_BOOTED        |-> {"INSTALLER_STARTED"},
     INSTALLER_STARTED |-> {"DISK_PREPARATION"},
     DISK_PREPARATION  |-> {"OS_INSTALLING"},
     OS_INSTALLING     |-> {"PROFILE_APPLYING"},
     PROFILE_APPLYING  |-> {"HARDENING"},
     HARDENING         |-> {"FIRST_BOOT", "VALIDATING"},
     FIRST_BOOT        |-> {"VALIDATING"},
     VALIDATING        |-> {"SUCCESS"},
     SUCCESS           |-> {},
     FAILED            |-> {}]

MayFail == Stages \ ({"CREATED", "QUEUED"} \cup TerminalStages)

CanAdvance(current, next) ==
    \/ current = NoStage /\ next \in ServerStages
    \/ current \in MayFail /\ next = "FAILED"
    \/ current \in Stages /\ next \in Successors[current]

(***************************************************************************)
(* A report and the event stored for it.  "key" is the idempotency key,    *)
(* "code" the error code ("" when there is none) and "body" everything     *)
(* else AppendLifecycleEvent compares on a retry: message, metadata and    *)
(* the client's own timestamp.                                             *)
(***************************************************************************)
ReportValid(report) ==
    /\ report.stage \in Stages
    /\ report.source \in Sources
    /\ (report.stage = "FAILED") <=> (report.code # "")
    /\ SourceAllowed(report.stage, report.source)

\* The progress measure of a stage; no code computes it.
Rank ==
    [CREATED |-> 1, QUEUED |-> 2, PXE_BOOTED |-> 3, INSTALLER_STARTED |-> 4,
     DISK_PREPARATION |-> 5, OS_INSTALLING |-> 6, PROFILE_APPLYING |-> 7,
     HARDENING |-> 8, FIRST_BOOT |-> 9, VALIDATING |-> 10, SUCCESS |-> 11,
     FAILED |-> 12]

=============================================================================
