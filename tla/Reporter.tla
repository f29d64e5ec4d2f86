------------------------------ MODULE Reporter ------------------------------
(***************************************************************************)
(* The reporter on the machine being installed, internal/reporter, against *)
(* the store: the daemon that acquires the credential, watches the         *)
(* installer's log and drains the event queue, the hooks the installer     *)
(* runs beside it, the handoff to the installed system, and the validator  *)
(* of its first boots.  The files under /run/aegispxe are shared by daemon *)
(* and hooks; only the queue has a lock.  Any request or its answer may be *)
(* lost, the daemon may be killed, and the machine may lose power while it *)
(* validates itself.                                                       *)
(*                                                                         *)
(* The model starts where Provisioning ends: the Preseed has been handed   *)
(* over and its assignment is spent.                                       *)
(***************************************************************************)
EXTENDS InstallationStore, SequencesExt

CONSTANTS
    machine, installation,  \* what the reporter's configuration names
    Stamps,                 \* client timestamps (bound: its size)
    SyslogRuns,             \* what the Debian installer may write to its log
    MaxBoots,               \* bound: starts of the first-boot unit
    MaxReporterLogRead,     \* what one upload reads at most, in lines of log
    MaxInstallationLogBytes \* the store's limit, in lines of log

ASSUME ReporterAssumption ==
    /\ machine \in Machines /\ installation \in Installations
    /\ MaxBoots \in Nat /\ MaxInstallationLogBytes \in Nat
    /\ MaxReporterLogRead \in Nat \ {0}

VARIABLES
    serverLog,   \* installation_log_chunks of the installation, by sequence
    daemon,      \* the daemon: where it is; events sent, or lines uploaded
    rest,        \* drainEvents: the events it has still to write back
    det,         \* detectNativeInstallerEvidence, in the daemon and in a hook
    hook,        \* where the installer, its hooks and the validator are
    queue,       \* events.queue
    evidence,    \* evidence.state
    evidenceTmp, \* evidence.state.tmp; None when there is no such file
    ciphertext,  \* lifecycle.enc: {} or where it is, "run" or "target"
    offset,      \* syslog.offset
    logSequence, \* log.sequence
    targetSequence, \* log.sequence on the installed system
    syslog,      \* the installer's log, a sequence of lines
    script,      \* what the installer will have written at its end
    boots,       \* starts of the first-boot unit
    unsynced,    \* what a loss of power may leave in log.sequence instead
    queued,      \* history: the keys of events ever queued
    refused      \* history: reports refused although stored before

fileVars == <<queue, evidence, evidenceTmp, ciphertext, offset, logSequence, targetSequence>>
installerVars == <<syslog, script, boots, unsynced>>
historyVars == <<queued, refused>>
vars == <<storeVars, serverLog, daemon, rest, det, hook, fileVars, installerVars, historyVars>>

Lines == {"os-install", "profile", "base-failed", "profile-failed", "bootloader-failed"}

\* A line of the log that is evidence of nothing and must not be kept.
Sensitive == "sensitive"

LogLines == Lines \cup {Sensitive}

\* The order in which a pass over the log looks for evidence.
Checks == <<"os-install", "profile", "base-failed", "profile-failed", "bootloader-failed">>

CheckStage(line) ==
    CASE line = "os-install" -> "OS_INSTALLING"
      [] line = "profile" -> "PROFILE_APPLYING"
      [] OTHER -> "FAILED"

\* The lines with which the installer ends without its late command.
FailedItems == {line \in Lines : CheckStage(line) = "FAILED"}

FirstBootFailure == "VAL001_FIRST_BOOT_VALIDATION_FAILED"
NoTPMFailure == "SEC019_BOOT_TRUST_KEY_INVALID"

ValidatorKey ==
    [FIRST_BOOT |-> "reporter:first-boot", VALIDATING |-> "reporter:validating",
     SUCCESS |-> "reporter:success", FAILED |-> "reporter:failed:firstboot-validation"]

ASSUME TextAssumption ==
    Stages \cup Stamps \cup Lines \cup {FirstBootFailure, NoTPMFailure}
        \cup {ValidatorKey[stage] : stage \in DOMAIN ValidatorKey} \subseteq Text

\* A file that is not there is not a file with lines.
ASSUME NoFileAssumption == \A content \in SUBSET Lines : content # None

\* Time goes on between two attempts.
ASSUME StampAssumption == \E s, t \in Stamps : s # t

\* The Debian installer: it reaches its late command, where no menu item has
\* failed, only after it has installed the base system and applied the profile.
ASSUME SyslogAssumption ==
    \A run \in SyslogRuns :
        /\ run \in Seq(LogLines) /\ run # <<>>
        /\ Last(run) \notin FailedItems => {"os-install", "profile"} \subseteq Range(run)

Processes == {"daemon", "hook"}

DaemonPoints == {"start", "acquire", "cipher", "detect", "drain", "post", "truncate",
                 "rewrite", "log", "offset", "sequence", "dead"}

HookPoints == {"started", "disk", "install", "hardening", "late", "wait", "empty", "check",
               "ciphertext", "sequence", "reboot", "first", "validating", "log",
               "written", "success", "failed", "remove", "off", "halted"}

DetectPoints == {"off", "state", "queue", "tmp", "write", "chmod", "remove", "rename",
                 "done", "error"}

\* What a process has open for writing: no file, evidence.state.tmp, the file
\* that has since become evidence.state, or one that has no name any more.
OpenFiles == {"none", "tmp", "state", "gone"}

NotDetecting == [pc |-> "off", text |-> {}, seen |-> {}, changed |-> FALSE, file |-> "none"]

\* The shape of the reporter's memory and files.
ReporterTypeOK ==
    /\ daemon \in [pc : DaemonPoints, n : Nat]
    /\ det \in [Processes -> [pc : DetectPoints, text : SUBSET Lines,
                              seen : SUBSET Lines, changed : BOOLEAN, file : OpenFiles]]
    /\ hook \in HookPoints
    /\ queue \in Seq(EventType) /\ rest \in Seq(EventType)
    /\ evidence \subseteq Lines
    /\ ciphertext \subseteq {"run", "target"}
    /\ offset \in Nat /\ offset <= Len(syslog)
    /\ logSequence \in Nat /\ targetSequence \in Nat

ReporterInit ==
    /\ policy = [m \in Machines |-> IF m = machine THEN "provision" ELSE None]
    /\ secureBoot = [m \in Machines |-> IF m = machine THEN "enabled" ELSE None]
    /\ owner = [d \in Identifiers |-> machine]
    /\ specMachine = [i \in Installations |-> IF i = installation THEN machine ELSE None]
    /\ assignment = [i \in Installations |-> IF i = installation THEN "consumed" ELSE "none"]
    /\ asgMachine = specMachine
    /\ events = [i \in Installations |->
            IF i = installation
            THEN <<ServerEvent("CREATED"), ServerEvent("QUEUED"), ServerEvent("PXE_BOOTED")>>
            ELSE <<>>]
    /\ credential = [i \in Installations |-> "none"]
    /\ audit = {<<machine, "MACHINE_DISCOVERED">>, <<machine, "MACHINE_POLICY_CHANGED">>}
                \cup {<<installation, t>> :
                        t \in {"INSTALLATION_CREATED", "INSTALLATION_ARMED", "PXE_BOOTED",
                               "ASSIGNMENT_CONSUMED"}}
    /\ serverLog = <<>>
    /\ daemon = [pc |-> "start", n |-> 0]
    /\ rest = <<>>
    /\ det = [p \in Processes |-> NotDetecting]
    /\ hook = "started"
    /\ queue = <<>> /\ evidence = {} /\ evidenceTmp = None /\ ciphertext = {}
    /\ offset = 0 /\ logSequence = 0 /\ targetSequence = 0
    /\ syslog = <<>> /\ script \in SyslogRuns /\ boots = 0 /\ unsynced = {}
    /\ queued = {} /\ refused = {}

DaemonAt(pc) == daemon.pc = pc
DaemonGoes(pc) == daemon' = [daemon EXCEPT !.pc = pc]
HookGoes(from, to) == hook = from /\ hook' = to

(***************************************************************************)
(* Requests.  Stored is what the server does to a report that reaches it   *)
(* and is taken; a report that never arrives or is refused changes nothing *)
(* there, and to the reporter an answer that is lost looks the same.       *)
(***************************************************************************)
Authenticates == credential[installation] = "active"

Stored(report) ==
    /\ Authenticates
    /\ \/ AppendLifecycleEvent(installation, report)
       \/ Duplicate(installation, report) /\ UNCHANGED storeVars

Takes(report) ==
    Authenticates /\ (Accepts(installation, report) \/ Duplicate(installation, report))

\* A chunk of log: its idempotency key is its kind and its sequence.
LogKeyTaken(chunk) ==
    \E n \in DOMAIN serverLog : n = chunk.seq /\ serverLog[n].kind = chunk.kind

LogDuplicate(chunk) == chunk.seq \in DOMAIN serverLog /\ serverLog[chunk.seq] = chunk

LogSize == FoldSeq(LAMBDA c, n : n + Len(c.content), 0, serverLog)

\* Faulty variant: neither the key of a chunk nor its sequence is looked at.
LogAccepts_AnySequence(chunk) ==
    LogSize + Len(chunk.content) <= MaxInstallationLogBytes

LogAccepts(chunk) ==
    /\ ~LogKeyTaken(chunk)
    /\ chunk.seq = Len(serverLog) + 1
    /\ LogSize + Len(chunk.content) <= MaxInstallationLogBytes

LogTaken(chunk) ==
    /\ Authenticates
    /\ SpecExists(installation)
    /\ LogAccepts(chunk) \/ LogDuplicate(chunk)

AppendInstallationLogChunk(chunk) ==
    serverLog' = IF LogDuplicate(chunk) THEN serverLog ELSE Append(serverLog, chunk)

(***************************************************************************)
(* The queue.                                                              *)
(***************************************************************************)
\* drainEvents holds the lock while it posts and rewrites.
Locked == daemon.pc \in {"post", "truncate", "rewrite"}

EventKey(stage, code) == IF stage = "FAILED" THEN code ELSE stage

\* time.Now at nanosecond resolution: a timestamp no other report of the key has.
UnusedStamps(key) ==
    {t \in Stamps : \A e \in Range(queue) \cup Range(rest) \cup Range(events[installation]) :
                        e.key = key => e.body # t}

QueuedEvent(stage, code, t) ==
    [stage |-> stage, source |-> "installer", key |-> EventKey(stage, code),
     code |-> code, body |-> t]

QueueEvent(stage, code) ==
    /\ ~Locked
    /\ LET key == EventKey(stage, code) IN
        /\ UnusedStamps(key) # {}
        /\ queue' = Append(queue, QueuedEvent(stage, code, CHOOSE t \in UnusedStamps(key) : TRUE))
        /\ queued' = queued \cup {key}

(***************************************************************************)
(* detectNativeInstallerEvidence.  The daemon runs it every two seconds,   *)
(* the late hook before it queues HARDENING, and nothing keeps them apart. *)
(***************************************************************************)
DetectStart(p) ==
    det' = [det EXCEPT ![p] = [NotDetecting EXCEPT !.pc = "state", !.text = Range(syslog) \cap Lines]]

ReadEvidenceState(p) ==
    /\ det[p].pc = "state"
    /\ det' = [det EXCEPT ![p].pc = "queue", ![p].seen = evidence]
    /\ UNCHANGED <<storeVars, serverLog, daemon, rest, hook, fileVars, installerVars, historyVars>>

\* The checks whose line is in the log and not yet accounted for.
Missing(p) == {k \in DOMAIN Checks : Checks[k] \in det[p].text \ det[p].seen}

QueueEvidence(p) ==
    /\ det[p].pc = "queue"
    /\ \/ /\ Missing(p) = {}
          /\ det' = [det EXCEPT ![p].pc = IF det[p].changed THEN "tmp" ELSE "done"]
          /\ UNCHANGED <<queue, queued>>
       \/ \E k \in Missing(p) :
            LET line == Checks[k]
                stage == CheckStage(line)
            IN  /\ \A j \in Missing(p) : k <= j
                /\ QueueEvent(stage, IF stage = "FAILED" THEN line ELSE "")
                /\ det' = [det EXCEPT ![p].seen = @ \cup {line}, ![p].changed = TRUE]
    /\ UNCHANGED <<storeVars, serverLog, daemon, rest, hook, evidence, evidenceTmp, ciphertext,
                   offset, logSequence, targetSequence, installerVars, refused>>

(***************************************************************************)
(* writePrivateFile.  Daemon and hook use the same temporary file, so one  *)
(* may truncate, rename or remove what the other is writing.               *)
(***************************************************************************)
WritesFile(p, pc, file, others) ==
    /\ det' = [q \in Processes |->
                IF q = p THEN [det[p] EXCEPT !.pc = pc, !.file = file]
                ELSE [det[q] EXCEPT !.file = others[@]]]
    /\ UNCHANGED <<storeVars, serverLog, daemon, rest, hook, queue, ciphertext, offset,
                   logSequence, targetSequence, installerVars, historyVars>>

\* What the other process has open, when no file gets another name.
Untouched == [file \in OpenFiles |-> file]

OpenEvidenceTmp(p) ==
    /\ det[p].pc = "tmp"
    /\ \/ WritesFile(p, "write", "tmp", Untouched) /\ evidenceTmp' = {}
       \/ WritesFile(p, "error", "none", Untouched) /\ UNCHANGED evidenceTmp
    /\ UNCHANGED evidence

\* Written over what is already in the file, whose end may stay.
Overwritten(content, seen) == {seen \cup end : end \in SUBSET content}

WriteEvidenceTmp(p) ==
    /\ det[p].pc = "write"
    /\ \/ /\ WritesFile(p, "chmod", "none", Untouched)
          /\ IF det[p].file = "tmp" THEN evidenceTmp' \in Overwritten(evidenceTmp, det[p].seen)
             ELSE UNCHANGED evidenceTmp
          /\ IF det[p].file = "state" THEN evidence' \in Overwritten(evidence, det[p].seen)
             ELSE UNCHANGED evidence
       \/ WritesFile(p, "error", "none", Untouched) /\ UNCHANGED <<evidence, evidenceTmp>>

ChmodEvidenceTmp(p) ==
    /\ det[p].pc = "chmod"
    /\ \/ evidenceTmp # None /\ WritesFile(p, "rename", "none", Untouched)
       \/ WritesFile(p, "remove", "none", Untouched)
    /\ UNCHANGED <<evidence, evidenceTmp>>

\* By its name: it may be the other process's file by now.
RemoveEvidenceTmp(p) ==
    /\ det[p].pc = "remove"
    /\ WritesFile(p, "error", "none", [Untouched EXCEPT !["tmp"] = "gone"])
    /\ evidenceTmp' = None
    /\ UNCHANGED evidence

RenameEvidence(p) ==
    /\ det[p].pc = "rename"
    /\ IF evidenceTmp = None
       THEN /\ WritesFile(p, "error", "none", Untouched)
            /\ UNCHANGED <<evidence, evidenceTmp>>
       ELSE /\ WritesFile(p, "done", "none",
                          [Untouched EXCEPT !["tmp"] = "state", !["state"] = "gone"])
            /\ evidence' = evidenceTmp
            /\ evidenceTmp' = None

Detect(p) ==
    \/ ReadEvidenceState(p) \/ QueueEvidence(p)
    \/ OpenEvidenceTmp(p) \/ WriteEvidenceTmp(p) \/ ChmodEvidenceTmp(p)
    \/ RemoveEvidenceTmp(p) \/ RenameEvidence(p)

(***************************************************************************)
(* The daemon.                                                             *)
(***************************************************************************)
\* Without a TPM the daemon queues a failure nobody will send, and ends.
OpenTPMKey ==
    /\ DaemonAt("start")
    /\ \/ DaemonGoes("acquire") /\ UNCHANGED <<queue, queued>>
       \/ DaemonGoes("dead") /\ QueueEvent("FAILED", NoTPMFailure)
    /\ UNCHANGED <<storeVars, serverLog, rest, det, hook, evidence, evidenceTmp, ciphertext,
                   offset, logSequence, targetSequence, installerVars, refused>>

\* Enrolment, challenge and proof; the failed attempts of the loop change
\* nothing.  Every attempt asks for a challenge of its own, so an answer that
\* is lost after the credential was issued is never recovered.
AcquireCredential ==
    /\ DaemonAt("acquire")
    /\ ReleaseCredential(installation)
    /\ DaemonGoes("cipher") \/ UNCHANGED daemon
    /\ UNCHANGED <<serverLog, rest, det, hook, fileVars, installerVars, historyVars>>

WriteCiphertext ==
    /\ DaemonAt("cipher")
    /\ DaemonGoes("detect")
    /\ ciphertext' = ciphertext \cup {"run"}
    /\ UNCHANGED <<storeVars, serverLog, rest, det, hook, queue, evidence, evidenceTmp, offset,
                   logSequence, targetSequence, installerVars, historyVars>>

\* An error of the evidence monitor is printed and the loop goes on.
DaemonDetects ==
    /\ DaemonAt("detect")
    /\ \/ /\ det["daemon"].pc = "off"
          /\ DetectStart("daemon")
          /\ UNCHANGED daemon
       \/ /\ det["daemon"].pc \in {"done", "error"}
          /\ det' = [det EXCEPT !["daemon"] = NotDetecting]
          /\ DaemonGoes("drain")
    /\ UNCHANGED <<storeVars, serverLog, rest, hook, fileVars, installerVars, historyVars>>

\* drainEvents: the lock is free whenever the daemon gets here.
StartDrain ==
    /\ DaemonAt("drain")
    /\ daemon' = [pc |-> "post", n |-> 0]
    /\ UNCHANGED <<storeVars, serverLog, rest, det, hook, fileVars, installerVars, historyVars>>

DrainEnds == DaemonGoes(IF daemon.n = 0 THEN "log" ELSE "truncate")

PostQueuedEvent ==
    /\ DaemonAt("post")
    /\ IF daemon.n = Len(queue)
       THEN DrainEnds /\ UNCHANGED storeVars
       ELSE LET event == queue[daemon.n + 1] IN
            \/ Stored(event) /\ daemon' = [daemon EXCEPT !.n = @ + 1]
            \/ Stored(event) /\ DrainEnds
            \/ DrainEnds /\ UNCHANGED storeVars
    /\ UNCHANGED <<serverLog, rest, det, hook, fileVars, installerVars, historyVars>>

\* Faulty variant: the event that could not be sent is dropped with the sent.
Unsent_SkipsFailed(sent) == SubSeq(queue, sent + 2, Len(queue))

Unsent(sent) == SubSeq(queue, sent + 1, Len(queue))

TruncateQueue ==
    /\ DaemonAt("truncate")
    /\ rest' = Unsent(daemon.n)
    /\ queue' = <<>>
    /\ DaemonGoes("rewrite")
    /\ UNCHANGED <<storeVars, serverLog, det, hook, evidence, evidenceTmp, ciphertext, offset,
                   logSequence, targetSequence, installerVars, historyVars>>

RewriteQueue ==
    /\ DaemonAt("rewrite")
    /\ queue' = rest
    /\ rest' = <<>>
    /\ daemon' = [pc |-> "log", n |-> 0]
    /\ UNCHANGED <<storeVars, serverLog, det, hook, evidence, evidenceTmp, ciphertext, offset,
                   logSequence, targetSequence, installerVars, historyVars>>

\* A sensitive line is replaced where it stands, before anything is compared.
RedactLogContent(content) ==
    [k \in 1 .. Len(content) |-> IF content[k] = Sensitive THEN "redacted" ELSE content[k]]

\* The chunk the store sees.  Its timestamp is taken at every attempt.
LogChunk(kind, seq, content) ==
    LET stored == IF seq \in DOMAIN serverLog THEN {serverLog[seq].stamp} ELSE {} IN
    [kind |-> kind, seq |-> seq, content |-> RedactLogContent(content),
     stamp |-> CHOOSE t \in Stamps : t \notin stored]

SameButForTime(chunk) ==
    /\ chunk.seq \in DOMAIN serverLog
    /\ [serverLog[chunk.seq] EXCEPT !.stamp = chunk.stamp] = chunk

\* One read from the offset on.
ReadEnd ==
    IF offset + MaxReporterLogRead < Len(syslog) THEN offset + MaxReporterLogRead
    ELSE Len(syslog)

UploadInstallerLog ==
    /\ DaemonAt("log")
    /\ LET content == SubSeq(syslog, offset + 1, ReadEnd)
           chunk == LogChunk("installer", logSequence + 1, content)
       IN  IF content = <<>>
           THEN DaemonGoes("detect") /\ UNCHANGED <<serverLog, refused>>
           ELSE \/ /\ LogTaken(chunk)
                   /\ AppendInstallationLogChunk(chunk)
                   /\ \/ daemon' = [pc |-> "offset", n |-> Len(content)]
                      \/ DaemonGoes("detect")
                   /\ UNCHANGED refused
                \/ /\ DaemonGoes("detect")
                   /\ refused' = IF SameButForTime(chunk) /\ ~LogTaken(chunk) /\ Authenticates
                                 THEN refused \cup {"log"} ELSE refused
                   /\ UNCHANGED serverLog
    /\ UNCHANGED <<storeVars, rest, det, hook, fileVars, installerVars, queued>>

\* Faulty variant: one line too far.
NextOffset_Beyond == offset + daemon.n + 1

NextOffset == offset + daemon.n

WriteOffset ==
    /\ DaemonAt("offset")
    /\ offset' = NextOffset
    /\ daemon' = [pc |-> "sequence", n |-> 0]
    /\ UNCHANGED <<storeVars, serverLog, rest, det, hook, queue, evidence, evidenceTmp,
                   ciphertext, logSequence, targetSequence, installerVars, historyVars>>

WriteSequence ==
    /\ DaemonAt("sequence")
    /\ logSequence' = logSequence + 1
    /\ DaemonGoes("detect")
    /\ UNCHANGED <<storeVars, serverLog, rest, det, hook, queue, evidence, evidenceTmp,
                   ciphertext, offset, targetSequence, installerVars, historyVars>>

\* The daemon is killed: its memory and its lock are gone.
Kill ==
    /\ ~DaemonAt("dead")
    /\ daemon' = [pc |-> "dead", n |-> 0]
    /\ rest' = <<>>
    /\ det' = [det EXCEPT !["daemon"] = NotDetecting]
    /\ UNCHANGED <<storeVars, serverLog, hook, fileVars, installerVars, historyVars>>

Daemon ==
    \/ OpenTPMKey \/ AcquireCredential \/ WriteCiphertext \/ DaemonDetects \/ Detect("daemon")
    \/ StartDrain \/ PostQueuedEvent \/ TruncateQueue \/ RewriteQueue
    \/ UploadInstallerLog \/ WriteOffset \/ WriteSequence

(***************************************************************************)
(* The installer and its hooks, in the order of the Debian installer.      *)
(***************************************************************************)
EarlyHook(from, stage, to) ==
    /\ HookGoes(from, to)
    /\ QueueEvent(stage, "")
    /\ UNCHANGED <<storeVars, serverLog, daemon, rest, det, evidence, evidenceTmp, ciphertext,
                   offset, logSequence, targetSequence, installerVars, refused>>

\* The installer writes its log; a failed menu item ends the installation.
InstallerLogs ==
    /\ hook = "install"
    /\ IF Len(syslog) < Len(script)
       THEN /\ syslog' = Append(syslog, script[Len(syslog) + 1])
            /\ UNCHANGED hook
       ELSE /\ hook' = IF Last(script) \in FailedItems THEN "halted" ELSE "hardening"
            /\ UNCHANGED syslog
    /\ UNCHANGED <<storeVars, serverLog, daemon, rest, det, fileVars, script, boots, unsynced,
                   historyVars>>

\* Faulty variant: the hook leaves the evidence to the daemon.
HookDetects_Never ==
    /\ HookGoes("hardening", "late")
    /\ UNCHANGED det

\* QueueHookEvent: the evidence first; an error of it fails the hook.
HookDetects ==
    \/ /\ hook = "hardening" /\ det["hook"].pc = "off"
       /\ DetectStart("hook")
       /\ UNCHANGED hook
    \/ /\ det["hook"].pc = "done"
       /\ HookGoes("hardening", "late")
       /\ det' = [det EXCEPT !["hook"] = NotDetecting]
    \/ /\ det["hook"].pc = "error"
       /\ HookGoes("hardening", "halted")
       /\ det' = [det EXCEPT !["hook"] = NotDetecting]

LateHook ==
    /\ HookDetects
    /\ UNCHANGED <<storeVars, serverLog, daemon, rest, fileVars, installerVars, historyVars>>

(***************************************************************************)
(* InstallFirstBoot.  Either wait may time out, which fails the hook.      *)
(***************************************************************************)
QueueEmpty == queue = <<>>

WaitForCredentialCiphertext ==
    /\ \/ "run" \in ciphertext /\ HookGoes("wait", "empty")
       \/ "run" \notin ciphertext /\ HookGoes("wait", "halted")
    /\ UNCHANGED <<storeVars, serverLog, daemon, rest, det, fileVars, installerVars, historyVars>>

\* The loop ends with an empty queue or at its deadline; the queue is looked
\* at once more after it.
WaitForQueue ==
    /\ HookGoes("empty", "check")
    /\ UNCHANGED <<storeVars, serverLog, daemon, rest, det, fileVars, installerVars, historyVars>>

CheckQueue ==
    /\ HookGoes("check", IF QueueEmpty THEN "ciphertext" ELSE "halted")
    /\ UNCHANGED <<storeVars, serverLog, daemon, rest, det, fileVars, installerVars, historyVars>>

CopyCiphertext ==
    /\ HookGoes("ciphertext", "sequence")
    /\ ciphertext' = ciphertext \cup {"target"}
    /\ UNCHANGED <<storeVars, serverLog, daemon, rest, det, queue, evidence, evidenceTmp, offset,
                   logSequence, targetSequence, installerVars, historyVars>>

CopySequence ==
    /\ HookGoes("sequence", "reboot")
    /\ targetSequence' = logSequence
    /\ UNCHANGED <<storeVars, serverLog, daemon, rest, det, queue, evidence, evidenceTmp,
                   ciphertext, offset, logSequence, installerVars, historyVars>>

\* /run and everything that runs are gone.
Reboot ==
    /\ HookGoes("reboot", "off")
    /\ daemon' = [pc |-> "dead", n |-> 0]
    /\ det' = [p \in Processes |-> NotDetecting]
    /\ ciphertext' = ciphertext \ {"run"}
    /\ queue' = <<>> /\ rest' = <<>> /\ evidence' = {} /\ evidenceTmp' = None
    /\ offset' = 0 /\ logSequence' = 0
    /\ UNCHANGED <<storeVars, serverLog, targetSequence, installerVars, historyVars>>

(***************************************************************************)
(* RunFirstBoot, started at every boot for as long as its ciphertext is    *)
(* there.  It ends at the first request that fails, and power may go.      *)
(***************************************************************************)
StartFirstBoot ==
    /\ HookGoes("off", "first")
    /\ "target" \in ciphertext
    /\ boots < MaxBoots
    /\ boots' = boots + 1
    /\ unsynced' = {}
    /\ UNCHANGED <<storeVars, serverLog, daemon, rest, det, fileVars, syslog, script, historyVars>>

ValidatorEvent(stage, source, code) ==
    [stage |-> stage, source |-> source, key |-> ValidatorKey[stage], code |-> code,
     body |-> CHOOSE t \in UnusedStamps(ValidatorKey[stage]) : TRUE]

StoredBefore(report) ==
    \E e \in Range(events[installation]) : e.key = report.key /\ e.stage = report.stage

\* Faulty variant: a request that failed is taken for one that succeeded.
OnError_Ignored(to) == to

\* RunFirstBoot returns the error.
OnError(to) == "off"

PostValidatorEvent(from, stage, source, code, to) ==
    /\ hook = from
    /\ UnusedStamps(ValidatorKey[stage]) # {}
    /\ LET report == ValidatorEvent(stage, source, code) IN
       \/ Stored(report) /\ hook' \in {to, "off"} /\ UNCHANGED refused
       \/ /\ hook' = OnError(to)
          /\ refused' = IF StoredBefore(report) /\ ~Takes(report) /\ Authenticates
                        THEN refused \cup {stage} ELSE refused
          /\ UNCHANGED storeVars
    /\ UNCHANGED <<serverLog, daemon, rest, det, fileVars, installerVars, queued>>

PostFirstBootLog ==
    /\ hook = "log"
    /\ LET chunk == LogChunk("firstboot", targetSequence + 1, <<"validation">>) IN
       \/ /\ LogTaken(chunk)
          /\ AppendInstallationLogChunk(chunk)
          /\ hook' \in {"written", "off"}
          /\ UNCHANGED refused
       \/ /\ hook' = "off"
          /\ refused' = IF SameButForTime(chunk) /\ ~LogTaken(chunk) /\ Authenticates
                        THEN refused \cup {"log"} ELSE refused
          /\ UNCHANGED serverLog
    /\ UNCHANGED <<storeVars, daemon, rest, det, fileVars, installerVars, queued>>

\* writePrivateFile does not sync: until the system is shut down, power may go
\* with the number before it on disk, or nothing.  The system validated before
\* passes or does not.
WriteFirstBootSequence ==
    /\ hook = "written"
    /\ hook' \in {"success", "failed"}
    /\ targetSequence' = targetSequence + 1
    /\ unsynced' = unsynced \cup {targetSequence, 0}
    /\ UNCHANGED <<storeVars, serverLog, daemon, rest, det, queue, evidence, evidenceTmp,
                   ciphertext, offset, logSequence, syslog, script, boots, historyVars>>

RemoveCiphertext ==
    /\ HookGoes("remove", "off")
    /\ ciphertext' = ciphertext \ {"target"}
    /\ UNCHANGED <<storeVars, serverLog, daemon, rest, det, queue, evidence, evidenceTmp, offset,
                   logSequence, targetSequence, installerVars, historyVars>>

\* What was not synced may be lost, the removal of the ciphertext too.
PowerLoss ==
    /\ hook \in {"off", "first", "validating", "log", "written", "success", "failed", "remove"}
    /\ hook' = "off"
    /\ targetSequence' \in {targetSequence} \cup unsynced
    /\ ciphertext' \in {ciphertext, ciphertext \cup {"target"}}
    /\ unsynced' = {}
    /\ UNCHANGED <<storeVars, serverLog, daemon, rest, det, queue, evidence, evidenceTmp, offset,
                   logSequence, syslog, script, boots, historyVars>>

Installer ==
    \/ EarlyHook("started", "INSTALLER_STARTED", "disk")
    \/ EarlyHook("disk", "DISK_PREPARATION", "install")
    \/ InstallerLogs
    \/ LateHook \/ Detect("hook")
    \/ EarlyHook("late", "HARDENING", "wait")
    \/ WaitForCredentialCiphertext \/ WaitForQueue \/ CheckQueue
    \/ CopyCiphertext \/ CopySequence \/ Reboot

Validator ==
    \/ StartFirstBoot
    \/ PostValidatorEvent("first", "FIRST_BOOT", "finalizer", "", "validating")
    \/ PostValidatorEvent("validating", "VALIDATING", "validator", "", "log")
    \/ PostFirstBootLog \/ WriteFirstBootSequence
    \/ PostValidatorEvent("success", "SUCCESS", "validator", "", "remove")
    \/ PostValidatorEvent("failed", "FAILED", "validator", FirstBootFailure, "remove")
    \/ RemoveCiphertext \/ PowerLoss

\* An operator deletes the installation, its log with it; the credential ends.
ServerSide ==
    /\ \/ DeleteInstallation(installation) /\ serverLog' = <<>>
       \/ ExpireCredential(installation) /\ UNCHANGED serverLog
    /\ UNCHANGED <<daemon, rest, det, hook, fileVars, installerVars, historyVars>>

ReporterNext == Daemon \/ Kill \/ Installer \/ Validator \/ ServerSide

ReporterSpec == ReporterInit /\ [][ReporterNext]_vars

(***************************************************************************)
(* Properties.                                                             *)
(***************************************************************************)
\* The events the daemon has still to send, in order.
Pending == IF DaemonAt("rewrite") THEN rest ELSE queue

Reported(stage) == \E e \in Range(events[installation]) : e.stage = stage

\* hooks.go: the stages read from the installer's log cannot be overtaken by
\* the late hook, although the daemon and the hook look for them at the same
\* time and without a lock: where HARDENING waits, they wait before it or have
\* been sent.  (A killed daemon takes what it held with it.)
EvidenceIsNotOvertaken ==
    ~DaemonAt("dead") /\ ~Deleted(installation) =>
        \A k \in DOMAIN Pending : Pending[k].stage = "HARDENING" =>
            \A stage \in {"OS_INSTALLING", "PROFILE_APPLYING"} :
                Reported(stage) \/ \E j \in 1 .. k - 1 : Pending[j].stage = stage

\* An event leaves the queue only when the server has it, whatever is lost on
\* the way: drainEvents breaks at the first failure and writes back the rest.
NoEventIsLost ==
    ~DaemonAt("dead") /\ ~Deleted(installation) =>
        \A key \in queued :
            \E e \in Range(Pending) \cup Range(events[installation]) : e.key = key

\* cut[n] is how much of the installer's log the first n chunks hold.
CutInto(chunks, lines, cut) ==
    /\ cut[0] = 0
    /\ \A n \in 1 .. Len(chunks) :
        IF chunks[n].kind = "installer"
        THEN /\ cut[n - 1] <= cut[n]
             /\ chunks[n].content = RedactLogContent(SubSeq(lines, cut[n - 1] + 1, cut[n]))
        ELSE cut[n] = cut[n - 1]

\* The installation's log at the server is a prefix of the installer's, every
\* line once and no sensitive one as it was: no lost answer, retry, full read
\* or growing log repeats or drops a line.
LogIsPrefix ==
    \E cut \in [0 .. Len(serverLog) -> 0 .. Len(syslog)] : CutInto(serverLog, syslog, cut)

\* The installed system gives its credential up only once the server has its
\* final word, so no crash of the validator strands an unfinished installation
\* without a credential.
CredentialKeptUntilFinal ==
    boots > 0 /\ "target" \notin ciphertext =>
        Terminal(CurrentStage(installation)) \/ Deleted(installation)

\* LIFECYCLE.md: "This makes network retries safe"; docs/adr/0006: "Telemetry
\* retries are safe and deterministic."  No report that differs from a stored
\* one in nothing but the time of the attempt is refused.
RetriesAreSafe == refused = {}

\* finalizer.go: "reporter lifecycle queue did not drain before first-boot
\* handoff" is an error.  Past that check nothing waits to be sent.
HandoffWaitsForQueue ==
    hook \in {"ciphertext", "sequence", "reboot"} => Pending = <<>>

=============================================================================
