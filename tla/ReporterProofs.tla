--------------------------- MODULE ReporterProofs ---------------------------
(***************************************************************************)
(* The reporter for every log the Debian installer may write, any number   *)
(* of first boots and any loss of requests and answers: no event leaves    *)
(* the queue unsent, the evidence is queued before HARDENING although two  *)
(* processes look for it without a lock, and the credential outlives every *)
(* crash of the validator.                                                 *)
(***************************************************************************)
EXTENDS Reporter, SequenceTheorems, TLAPS

Timeline == events[installation]

Evidence == {"os-install", "profile"}
EvidenceStages == {"OS_INSTALLING", "PROFILE_APPLYING"}

(***************************************************************************)
(* Memory and files.                                                       *)
(***************************************************************************)
\* What the installer has written so far.
SyslogOK ==
    /\ script \in SyslogRuns
    /\ syslog \in Seq(LogLines)
    /\ Len(syslog) <= Len(script)
    /\ \A k \in 1 .. Len(syslog) : syslog[k] = script[k]

\* The type invariant, and what it needs: an upload ends within the log, and
\* a temporary file that is open under its name is there.
MemoryOK ==
    /\ ReporterTypeOK
    /\ SyslogOK
    /\ boots \in Nat /\ unsynced \subseteq Nat
    /\ evidenceTmp # None => evidenceTmp \subseteq Lines
    /\ \A p \in Processes : det[p].file = "tmp" => evidenceTmp # None
    /\ DaemonAt("offset") => offset + daemon.n <= Len(syslog)

(***************************************************************************)
(* The installation's events at the server.                                *)
(***************************************************************************)
\* The key of a stage of evidence is its name, and no other event has that key.
NamesStage(e) == e.key \in EvidenceStages \/ e.stage \in EvidenceStages => e.stage = e.key

\* Nothing follows a terminal stage.
EventsOK ==
    /\ events \in [Installations -> Seq(EventType)]
    /\ \A k \in 1 .. Len(Timeline) :
        /\ NamesStage(Timeline[k])
        /\ Terminal(Timeline[k].stage) => k = Len(Timeline)

(***************************************************************************)
(* The queue.  What the drain counts as sent, the server has.              *)
(***************************************************************************)
HasKey(s, key) == \E k \in 1 .. Len(s) : s[k].key = key

QueueNames ==
    /\ \A k \in 1 .. Len(queue) : NamesStage(queue[k])
    /\ \A k \in 1 .. Len(rest) : NamesStage(rest[k])

DrainOK ==
    /\ daemon.pc \in {"post", "truncate"} =>
        /\ daemon.n <= Len(queue)
        /\ Deleted(installation) \/ \A k \in 1 .. daemon.n : HasKey(Timeline, queue[k].key)
    /\ DaemonAt("rewrite") => queue = <<>>

NothingLost ==
    \/ DaemonAt("dead") \/ Deleted(installation)
    \/ \A key \in queued : HasKey(Pending, key) \/ HasKey(Timeline, key)

QueueOK == QueueNames /\ DrainOK /\ NothingLost

(***************************************************************************)
(* The evidence.  What either process has seen, or left in a file, has     *)
(* been queued; and the hook has seen it all before it moves on.           *)
(***************************************************************************)
Noted(line) ==
    \/ line \in evidence
    \/ evidenceTmp # None /\ line \in evidenceTmp
    \/ \E p \in Processes : line \in det[p].seen

EvidenceOK ==
    /\ \A line \in Evidence : Noted(line) => CheckStage(line) \in queued
    /\ hook = "hardening" => Evidence \subseteq Range(syslog)
    /\ det["hook"].pc # "off" =>
        /\ hook = "hardening"
        /\ Evidence \subseteq det["hook"].text
    /\ det["hook"].pc \in {"tmp", "write", "chmod", "remove", "rename", "done"} =>
        Evidence \subseteq det["hook"].seen
    /\ hook = "late" => EvidenceStages \subseteq queued

(***************************************************************************)
(* The credential.                                                         *)
(***************************************************************************)
Final == Terminal(CurrentStage(installation)) \/ Deleted(installation)

CredentialOK ==
    /\ hook = "remove" => Final
    /\ boots > 0 /\ "target" \notin ciphertext => Final

(***************************************************************************)
(* The log.  A chunk whose answer was lost blocks every later one; else    *)
(* the offset is where the server's log ends.                              *)
(***************************************************************************)
ChunkType ==
    [kind : {"installer", "firstboot"}, seq : Nat,
     content : Seq(LogLines \cup {"validation", "redacted"}), stamp : Stamps]

InstalledSystem == {"off", "first", "validating", "log", "written", "success", "failed", "remove"}

\* The server has the first m lines.
Uploaded(m) ==
    /\ DaemonAt("offset") => Len(serverLog) = logSequence + 1 /\ m = offset + daemon.n
    /\ DaemonAt("sequence") => Len(serverLog) = logSequence + 1 /\ m = offset
    /\ daemon.pc \notin {"offset", "sequence"} =>
        \/ logSequence < Len(serverLog)
        \/ logSequence = Len(serverLog) /\ m = offset

LogCut(cut) ==
    /\ CutInto(serverLog, syslog, cut)
    /\ ~DaemonAt("dead") /\ SpecExists(installation) => Uploaded(cut[Len(serverLog)])

LogOK ==
    /\ serverLog \in Seq(ChunkType)
    /\ installation \in DOMAIN specMachine
    /\ SpecExists(installation) \/ serverLog = <<>>
    /\ hook \in InstalledSystem => DaemonAt("dead")
    /\ \E cut \in [0 .. Len(serverLog) -> 0 .. Len(syslog)] : LogCut(cut)

ReporterInv ==
    /\ MemoryOK /\ EventsOK /\ QueueOK /\ EvidenceOK /\ CredentialOK /\ LogOK
    /\ EvidenceIsNotOvertaken

-----------------------------------------------------------------------------
(***************************************************************************)
(* Lines, stages and the queue.                                            *)
(***************************************************************************)
LEMMA ChecksAreLines ==
    /\ DOMAIN Checks = 1 .. 5
    /\ \A k \in 1 .. 5 : Checks[k] \in Lines
    /\ \A line \in Lines : \E k \in 1 .. 5 : Checks[k] = line
BY DEF Checks, Lines

\* Two lines are evidence of a stage, the others of a failure.
LEMMA LineStages ==
    /\ CheckStage("os-install") = "OS_INSTALLING" /\ CheckStage("profile") = "PROFILE_APPLYING"
    /\ \A line \in Lines : CheckStage(line) \in EvidenceStages \cup {"FAILED"}
    /\ \A line \in Lines \ Evidence : CheckStage(line) = "FAILED"
BY DEF CheckStage, EvidenceStages, Lines, Evidence

\* What QueueEvent adds.
QueuedAs(stage, key) ==
    /\ ~Locked
    /\ queued' = queued \cup {key}
    /\ \E e \in EventType :
        /\ e.stage = stage /\ e.key = key
        /\ NamesStage(e)
        /\ queue' = Append(queue, e)

\* QueueEvent appends one report under the key of its stage or code.
LEMMA QueueEventAppends ==
    ASSUME NEW stage \in InstallerStages \cup {"FAILED"}, NEW code \in Text,
           code \notin EvidenceStages, QueueEvent(stage, code)
    PROVE  QueuedAs(stage, EventKey(stage, code))
<1> DEFINE key == EventKey(stage, code)
           t == CHOOSE t \in UnusedStamps(key) : TRUE
           e == QueuedEvent(stage, code, t)
<1>1. t \in Text
    BY TextAssumption DEF QueueEvent, UnusedStamps
<1>2. key \in Text
    BY TextAssumption DEF EventKey, InstallerStages, Stages
<1>3. stage \in Stages /\ "installer" \in Sources
    BY DEF InstallerStages, Stages, TerminalStages, Sources
<1>4. queued' = queued \cup {key} /\ ~Locked /\ queue' = Append(queue, e)
    BY DEF QueueEvent
<1> HIDE DEF t
<1>5. e \in EventType
    <2> HIDE DEF key
    <2> QED BY <1>1, <1>2, <1>3 DEF QueuedEvent, EventType, key
<1>6. e.stage = stage /\ e.key = key
    BY DEF QueuedEvent
<1>7. NamesStage(e)
    <2>1. stage # "FAILED" => key = stage
        BY DEF EventKey
    <2>2. stage = "FAILED" => key = code
        BY DEF EventKey
    <2> HIDE DEF e, key
    <2> QED BY <1>6, <2>1, <2>2 DEF NamesStage, EvidenceStages
<1> HIDE DEF e, key
<1>8. QueuedAs(stage, key)
    BY <1>4, <1>5, <1>6, <1>7 DEF QueuedAs
<1> QED BY <1>8 DEF key

\* The event of a line of evidence.
LEMMA EvidenceAppends ==
    ASSUME NEW p \in Processes, QueueEvidence(p), Missing(p) # {}
    PROVE  \E line \in Lines :
            /\ line \in det[p].text \ det[p].seen
            /\ det' = [det EXCEPT ![p].seen = @ \cup {line}, ![p].changed = TRUE]
            /\ QueuedAs(CheckStage(line), IF line \in Evidence THEN CheckStage(line) ELSE line)
<1>1. PICK k \in Missing(p) :
            LET line == Checks[k]
                stage == CheckStage(line)
            IN  /\ QueueEvent(stage, IF stage = "FAILED" THEN line ELSE "")
                /\ det' = [det EXCEPT ![p].seen = @ \cup {line}, ![p].changed = TRUE]
    BY DEF QueueEvidence
<1>2. PICK line \in Lines : line = Checks[k] /\ line \in det[p].text \ det[p].seen
    BY ChecksAreLines DEF Missing
<1>3. PICK stage \in EvidenceStages \cup {"FAILED"} : stage = CheckStage(line)
    BY LineStages
<1> DEFINE code == IF stage = "FAILED" THEN line ELSE ""
<1>4. /\ stage \in InstallerStages \cup {"FAILED"}
      /\ code \in Text /\ code \notin EvidenceStages
    BY <1>3, TextAssumption, InputAssumption DEF EvidenceStages, InstallerStages, Lines
<1>5. QueueEvent(stage, code)
    BY <1>1, <1>2, <1>3
<1>6. QueuedAs(stage, EventKey(stage, code))
    BY <1>4, <1>5, QueueEventAppends
<1>7. EventKey(stage, code) = IF line \in Evidence THEN stage ELSE line
    BY <1>3, LineStages DEF EventKey, Evidence, EvidenceStages
<1> QED BY <1>1, <1>2, <1>3, <1>6, <1>7

-----------------------------------------------------------------------------
(***************************************************************************)
(* Memory and files.                                                       *)
(***************************************************************************)
DetType ==
    [pc : DetectPoints, text : SUBSET Lines, seen : SUBSET Lines, changed : BOOLEAN,
     file : OpenFiles]

\* A process that is not detecting, or has just begun, has no file open.
LEMMA NotDetectingTyped ==
    /\ NotDetecting \in DetType /\ NotDetecting.file = "none"
    /\ [NotDetecting EXCEPT !.pc = "state", !.text = Range(syslog) \cap Lines] \in DetType
    /\ [NotDetecting EXCEPT !.pc = "state", !.text = Range(syslog) \cap Lines].file = "none"
<1>1. PICK log \in SUBSET Lines : log = Range(syslog) \cap Lines
    OBVIOUS
<1>2. /\ NotDetecting \in DetType /\ NotDetecting.file = "none"
      /\ [NotDetecting EXCEPT !.pc = "state", !.text = log] \in DetType
      /\ [NotDetecting EXCEPT !.pc = "state", !.text = log].file = "none"
    BY DEF NotDetecting, DetType, DetectPoints, OpenFiles
<1> QED BY <1>1, <1>2

\* The files a process has open when none of them gets another name, and when
\* evidence.state.tmp is renamed or removed.
LEMMA FilesMoved ==
    /\ Untouched \in [OpenFiles -> OpenFiles]
    /\ Untouched["tmp"] = "tmp"
    /\ \A file \in OpenFiles : Untouched[file] = "tmp" => file = "tmp"
    /\ [Untouched EXCEPT !["tmp"] = "gone"] \in [OpenFiles -> OpenFiles \ {"tmp"}]
    /\ [Untouched EXCEPT !["tmp"] = "state", !["state"] = "gone"]
            \in [OpenFiles -> OpenFiles \ {"tmp"}]
BY DEF Untouched, OpenFiles

\* A step of writePrivateFile moves the one process on and may change what the
\* other has open, nothing else of either.
LEMMA FileWritten ==
    ASSUME MemoryOK, NEW p \in Processes, NEW pc \in DetectPoints, NEW file \in OpenFiles,
           NEW others \in [OpenFiles -> OpenFiles], WritesFile(p, pc, file, others)
    PROVE  /\ det' \in [Processes -> DetType]
           /\ det'[p].pc = pc /\ det'[p].file = file
           /\ \A q \in Processes : det'[q].seen = det[q].seen /\ det'[q].text = det[q].text
           /\ \A q \in Processes : q # p =>
                det'[q].pc = det[q].pc /\ det'[q].file = others[det[q].file]
<1>1. det \in [Processes -> DetType]
    BY DEF MemoryOK, ReporterTypeOK, DetType
<1>2. PICK moved : moved = [q \in Processes |->
                                IF q = p THEN [det[p] EXCEPT !.pc = pc, !.file = file]
                                ELSE [det[q] EXCEPT !.file = others[det[q].file]]]
    OBVIOUS
<1>3. det' = moved
    BY <1>2 DEF WritesFile
<1>4. ASSUME NEW q \in Processes
      PROVE  /\ moved[q] \in DetType
             /\ moved[q].seen = det[q].seen /\ moved[q].text = det[q].text
             /\ q = p => moved[q].pc = pc /\ moved[q].file = file
             /\ q # p => moved[q].pc = det[q].pc /\ moved[q].file = others[det[q].file]
    <2>1. det[q] \in DetType /\ others[det[q].file] \in OpenFiles
        BY <1>1 DEF DetType
    <2>2. CASE q = p
        BY <1>2, <2>1, <2>2 DEF DetType
    <2>3. CASE q # p
        BY <1>2, <2>1, <2>3 DEF DetType
    <2> QED BY <2>2, <2>3
<1>5. moved \in [Processes -> DetType]
    BY <1>2, <1>4
<1> QED BY <1>3, <1>4, <1>5

\* The five steps of writePrivateFile.
WritesEvidence(p) ==
    \/ OpenEvidenceTmp(p) \/ WriteEvidenceTmp(p) \/ ChmodEvidenceTmp(p)
    \/ RemoveEvidenceTmp(p) \/ RenameEvidence(p)

\* What writePrivateFile leaves alone.
LEMMA EvidenceWriterLeaves ==
    ASSUME NEW p \in Processes, WritesEvidence(p)
    PROVE  UNCHANGED <<storeVars, serverLog, daemon, rest, hook, queue, ciphertext, offset,
                       logSequence, targetSequence, installerVars, historyVars>>
BY DEF WritesEvidence, OpenEvidenceTmp, WriteEvidenceTmp, ChmodEvidenceTmp, RemoveEvidenceTmp,
   RenameEvidence, WritesFile

\* Whatever the other process does to the temporary file meanwhile, the files
\* hold only lines that were in one of them, or that the writer has seen.
LEMMA EvidenceWriterMoves ==
    ASSUME MemoryOK, NEW p \in Processes, WritesEvidence(p)
    PROVE  /\ det' \in [Processes -> DetType]
           /\ \A q \in Processes : det'[q].seen = det[q].seen /\ det'[q].text = det[q].text
           /\ \A q \in Processes : q # p => det'[q].pc = det[q].pc
           /\ det[p].pc \in {"tmp", "write", "chmod", "remove", "rename"}
           /\ det'[p].pc \in DetectPoints \ {"off", "state", "queue", "tmp"}
           /\ \A line \in evidence' :
                \/ line \in evidence \/ line \in det[p].seen
                \/ evidenceTmp # None /\ line \in evidenceTmp
           /\ evidenceTmp' # None =>
                \A line \in evidenceTmp' :
                    \/ line \in det[p].seen
                    \/ evidenceTmp # None /\ line \in evidenceTmp
           /\ \A q \in Processes : det'[q].file = "tmp" => evidenceTmp' # None
<1>1. /\ det \in [Processes -> DetType] /\ det[p] \in DetType
      /\ \A q \in Processes : det[q].file \in OpenFiles
      /\ \A q \in Processes : det[q].file = "tmp" => evidenceTmp # None
    BY DEF MemoryOK, ReporterTypeOK, DetType
<1>2. /\ {"write", "chmod", "remove", "rename", "done", "error"} \subseteq DetectPoints
      /\ {"none", "tmp"} \subseteq OpenFiles
    BY DEF DetectPoints, OpenFiles
<1>3. CASE OpenEvidenceTmp(p)
    <2>1. CASE WritesFile(p, "write", "tmp", Untouched) /\ evidenceTmp' = {} /\ evidence' = evidence
        <3>1. {} # None
            BY NoFileAssumption
        <3> QED BY <1>2, <1>3, <2>1, <3>1, FilesMoved, FileWritten DEF OpenEvidenceTmp
    <2>2. CASE WritesFile(p, "error", "none", Untouched) /\ UNCHANGED <<evidence, evidenceTmp>>
        BY <1>1, <1>2, <1>3, <2>2, FilesMoved, FileWritten DEF OpenEvidenceTmp
    <2> QED BY <1>3, <2>1, <2>2 DEF OpenEvidenceTmp
<1>4. CASE WriteEvidenceTmp(p)
    <2>1. /\ det[p].seen \subseteq Lines
          /\ evidenceTmp # None => evidenceTmp \subseteq Lines
        BY <1>1 DEF MemoryOK, DetType
    <2>2. CASE /\ WritesFile(p, "chmod", "none", Untouched)
               /\ det[p].file = "tmp" /\ evidence' = evidence
               /\ evidenceTmp' \in Overwritten(evidenceTmp, det[p].seen)
        <3>1. PICK end : end \subseteq evidenceTmp /\ evidenceTmp' = det[p].seen \cup end
            BY <2>2 DEF Overwritten
        <3>2. evidenceTmp # None
            BY <1>1, <2>2
        <3>3. evidenceTmp' \in SUBSET Lines
            BY <2>1, <3>1, <3>2
        <3>4. evidenceTmp' # None
            BY <3>3, NoFileAssumption
        <3> QED BY <1>2, <1>4, <2>2, <3>1, <3>2, <3>4, FilesMoved, FileWritten DEF WriteEvidenceTmp
    <2>3. CASE /\ WritesFile(p, "chmod", "none", Untouched)
               /\ det[p].file = "state" /\ evidenceTmp' = evidenceTmp
               /\ evidence' \in Overwritten(evidence, det[p].seen)
        <3>1. PICK end : end \subseteq evidence /\ evidence' = det[p].seen \cup end
            BY <2>3 DEF Overwritten
        <3>2. /\ det' \in [Processes -> DetType] /\ det'[p].pc = "chmod" /\ det'[p].file = "none"
              /\ \A q \in Processes : det'[q].seen = det[q].seen /\ det'[q].text = det[q].text
              /\ \A q \in Processes : q # p =>
                    det'[q].pc = det[q].pc /\ det'[q].file = Untouched[det[q].file]
            BY <1>2, <2>3, FilesMoved, FileWritten
        <3>3. \A q \in Processes : det'[q].file = "tmp" => det[q].file = "tmp"
            BY <1>1, <3>2, FilesMoved
        <3>4. det[p].pc = "write"
            BY <1>4 DEF WriteEvidenceTmp
        <3> QED BY <1>1, <1>2, <2>3, <3>1, <3>2, <3>3, <3>4
    <2>4. CASE /\ \/ WritesFile(p, "chmod", "none", Untouched)
                  \/ WritesFile(p, "error", "none", Untouched)
               /\ UNCHANGED <<evidence, evidenceTmp>>
        BY <1>1, <1>2, <1>4, <2>4, FilesMoved, FileWritten DEF WriteEvidenceTmp
    <2> QED BY <1>4, <2>2, <2>3, <2>4 DEF WriteEvidenceTmp
<1>5. CASE ChmodEvidenceTmp(p)
    <2>1. \/ WritesFile(p, "rename", "none", Untouched)
          \/ WritesFile(p, "remove", "none", Untouched)
        BY <1>5 DEF ChmodEvidenceTmp
    <2> QED BY <1>1, <1>2, <1>5, <2>1, FilesMoved, FileWritten DEF ChmodEvidenceTmp
<1>6. CASE RemoveEvidenceTmp(p)
    <2>1. PICK others \in [OpenFiles -> OpenFiles \ {"tmp"}] :
            WritesFile(p, "error", "none", others)
        BY <1>6, FilesMoved DEF RemoveEvidenceTmp
    <2>2. others \in [OpenFiles -> OpenFiles] /\ \A f \in OpenFiles : others[f] # "tmp"
        BY <2>1
    <2>3. /\ det[p].pc = "remove" /\ evidenceTmp' = None /\ evidence' = evidence
        BY <1>6 DEF RemoveEvidenceTmp
    <2>4. /\ det' \in [Processes -> DetType] /\ det'[p].pc = "error" /\ det'[p].file = "none"
          /\ \A q \in Processes : det'[q].seen = det[q].seen /\ det'[q].text = det[q].text
          /\ \A q \in Processes : q # p =>
                det'[q].pc = det[q].pc /\ det'[q].file = others[det[q].file]
        BY <1>2, <2>1, <2>2, FileWritten
    <2>5. \A q \in Processes : det'[q].file # "tmp"
        BY <1>1, <2>2, <2>4
    <2> QED BY <1>2, <2>3, <2>4, <2>5
<1>7. CASE RenameEvidence(p)
    <2>1. CASE WritesFile(p, "error", "none", Untouched) /\ UNCHANGED <<evidence, evidenceTmp>>
        <3>1. det[p].pc = "rename"
            BY <1>7 DEF RenameEvidence
        <3> QED BY <1>1, <1>2, <2>1, <3>1, FilesMoved, FileWritten
    <2>2. CASE evidenceTmp # None /\ evidence' = evidenceTmp /\ evidenceTmp' = None
        <3>1. PICK others \in [OpenFiles -> OpenFiles \ {"tmp"}] :
                WritesFile(p, "done", "none", others)
            BY <1>7, <2>2, FilesMoved DEF RenameEvidence
        <3> QED BY <1>1, <1>2, <1>7, <2>2, <3>1, FileWritten DEF RenameEvidence
    <2> QED BY <1>7, <2>1, <2>2 DEF RenameEvidence
<1> QED BY <1>3, <1>4, <1>5, <1>6, <1>7 DEF WritesEvidence

\* The steps of detectNativeInstallerEvidence keep the types.
LEMMA DetectMemory ==
    ASSUME MemoryOK, NEW p \in Processes, Detect(p)
    PROVE  MemoryOK'
<1>1. /\ det \in [Processes -> DetType] /\ det[p] \in DetType
      /\ evidence \subseteq Lines /\ queue \in Seq(EventType)
    BY DEF MemoryOK, ReporterTypeOK, DetType
<1>2. CASE ReadEvidenceState(p)
    <2>1. [det[p] EXCEPT !.pc = "queue", !.seen = evidence] \in DetType
        BY <1>1 DEF DetType, DetectPoints
    <2>2. det' \in [Processes -> DetType]
        BY <1>1, <1>2, <2>1 DEF ReadEvidenceState
    <2> QED BY <1>2, <2>2 DEF ReadEvidenceState, MemoryOK, ReporterTypeOK, SyslogOK, DetType,
               DaemonAt, fileVars, installerVars
<1>3. CASE QueueEvidence(p) /\ Missing(p) = {}
    <2>1. det' = [det EXCEPT ![p].pc = IF det[p].changed THEN "tmp" ELSE "done"] /\ queue' = queue
        BY <1>3 DEF QueueEvidence
    <2>2. [det[p] EXCEPT !.pc = IF det[p].changed THEN "tmp" ELSE "done"] \in DetType
        BY <1>1 DEF DetType, DetectPoints
    <2>3. det' \in [Processes -> DetType]
        BY <1>1, <2>1, <2>2
    <2> QED BY <1>3, <2>1, <2>3 DEF QueueEvidence, MemoryOK, ReporterTypeOK, SyslogOK, DetType,
               DaemonAt, installerVars
<1>4. CASE QueueEvidence(p) /\ Missing(p) # {}
    <2>1. PICK line \in Lines :
            /\ det' = [det EXCEPT ![p].seen = @ \cup {line}, ![p].changed = TRUE]
            /\ \E e \in EventType : queue' = Append(queue, e)
        BY <1>4, EvidenceAppends DEF QueuedAs
    <2>2. [det[p] EXCEPT !.seen = @ \cup {line}, !.changed = TRUE] \in DetType
        BY <1>1 DEF DetType
    <2>3. det' \in [Processes -> DetType] /\ queue' \in Seq(EventType)
        BY <1>1, <2>1, <2>2
    <2>4. \A q \in Processes : det'[q].file = det[q].file
        BY <1>1, <2>1 DEF DetType
    <2> QED BY <1>4, <2>3, <2>4 DEF QueueEvidence, MemoryOK, ReporterTypeOK, SyslogOK, DetType,
               DaemonAt, installerVars
<1>5. CASE WritesEvidence(p)
    <2>1. /\ det' \in [Processes -> DetType]
          /\ \A q \in Processes : det'[q].file = "tmp" => evidenceTmp' # None
        BY <1>5, EvidenceWriterMoves
    <2>2. evidence' \subseteq Lines /\ (evidenceTmp' # None => evidenceTmp' \subseteq Lines)
        BY <1>1, <1>5, EvidenceWriterMoves DEF MemoryOK, DetType
    <2>3. UNCHANGED <<daemon, rest, hook, queue, ciphertext, offset, logSequence, targetSequence,
                      syslog, script, boots, unsynced>>
        BY <1>5, EvidenceWriterLeaves DEF installerVars
    <2> QED BY <2>1, <2>2, <2>3 DEF MemoryOK, ReporterTypeOK, SyslogOK, DetType, DaemonAt
<1> QED BY <1>2, <1>3, <1>4, <1>5 DEF Detect, WritesEvidence

\* One read of the log ends within it.
LEMMA ReadWithinLog ==
    ASSUME ReporterTypeOK, SyslogOK
    PROVE  ReadEnd \in Nat /\ offset <= ReadEnd /\ ReadEnd <= Len(syslog)
<1>1. Len(syslog) \in Nat /\ offset \in Nat /\ offset <= Len(syslog) /\ MaxReporterLogRead \in Nat
    BY ReporterAssumption DEF ReporterTypeOK, SyslogOK
<1> QED BY <1>1 DEF ReadEnd

\* The daemon's steps and its death keep the types.
LEMMA DaemonMemory ==
    ASSUME MemoryOK, QueueOK, Daemon \/ Kill
    PROVE  MemoryOK'
<1>1. /\ daemon \in [pc : DaemonPoints, n : Nat] /\ det \in [Processes -> DetType]
      /\ queue \in Seq(EventType) /\ rest \in Seq(EventType)
    BY DEF MemoryOK, ReporterTypeOK, DetType
<1>2. CASE OpenTPMKey
    <2>1. daemon' \in [pc : DaemonPoints, n : Nat] /\ daemon'.pc # "offset"
        BY <1>1, <1>2 DEF OpenTPMKey, DaemonGoes, DaemonPoints
    <2>2. queue' \in Seq(EventType)
        <3>1. NoTPMFailure \in Text /\ NoTPMFailure \notin EvidenceStages
            BY TextAssumption DEF NoTPMFailure, EvidenceStages
        <3>2. queue' = queue \/ \E e \in EventType : queue' = Append(queue, e)
            BY <1>2, <3>1, QueueEventAppends DEF OpenTPMKey, QueuedAs
        <3> QED BY <1>1, <3>2
    <2> QED BY <1>2, <2>1, <2>2 DEF OpenTPMKey, MemoryOK, ReporterTypeOK, SyslogOK, DaemonAt,
               installerVars
<1>3. CASE AcquireCredential \/ WriteCiphertext
    <2>1. /\ daemon' \in [pc : DaemonPoints, n : Nat] /\ daemon'.pc # "offset"
          /\ ciphertext' \subseteq ciphertext \cup {"run"}
          /\ UNCHANGED <<rest, det, hook, queue, evidence, evidenceTmp, offset, logSequence,
                         targetSequence, installerVars>>
        BY <1>1, <1>3 DEF AcquireCredential, WriteCiphertext, DaemonGoes, DaemonAt, DaemonPoints,
           fileVars
    <2> QED BY <2>1 DEF MemoryOK, ReporterTypeOK, SyslogOK, DaemonAt, installerVars
<1>4. CASE DaemonDetects
    <2>1. daemon' \in [pc : DaemonPoints, n : Nat] /\ daemon'.pc # "offset"
        BY <1>1, <1>4 DEF DaemonDetects, DaemonGoes, DaemonAt, DaemonPoints
    <2>3. /\ det' \in [Processes -> DetType]
          /\ \A q \in Processes : det'[q].file \in {det[q].file, "none"}
        BY <1>1, <1>4, NotDetectingTyped DEF DaemonDetects, DetectStart
    <2>4. UNCHANGED <<rest, hook, fileVars, installerVars>>
        BY <1>4 DEF DaemonDetects
    <2> QED BY <2>1, <2>3, <2>4 DEF MemoryOK, ReporterTypeOK, SyslogOK, DaemonAt, DetType,
               fileVars, installerVars
<1>5. CASE Detect("daemon")
    BY <1>5, DetectMemory DEF Processes
<1>6. CASE StartDrain \/ PostQueuedEvent
    <2>1. daemon' \in [pc : DaemonPoints, n : Nat] /\ daemon'.pc # "offset"
        BY <1>1, <1>6 DEF StartDrain, PostQueuedEvent, DrainEnds, DaemonGoes, DaemonAt, DaemonPoints
    <2>2. UNCHANGED <<rest, det, hook, fileVars, installerVars>>
        BY <1>6 DEF StartDrain, PostQueuedEvent
    <2> QED BY <2>1, <2>2 DEF MemoryOK, ReporterTypeOK, SyslogOK, DaemonAt, fileVars, installerVars
<1>7. CASE TruncateQueue \/ RewriteQueue
    <2>1. daemon' \in [pc : DaemonPoints, n : Nat] /\ daemon'.pc # "offset"
        BY <1>1, <1>7 DEF TruncateQueue, RewriteQueue, DaemonGoes, DaemonPoints
    <2>2. queue' \in Seq(EventType) /\ rest' \in Seq(EventType)
        <3>1. CASE TruncateQueue
            <4>1. daemon.n \in Nat /\ daemon.n <= Len(queue)
                BY <1>1, <3>1 DEF TruncateQueue, DaemonAt, QueueOK, DrainOK
            <4>2. SubSeq(queue, daemon.n + 1, Len(queue)) \in Seq(EventType)
                BY <1>1, <4>1
            <4> QED BY <3>1, <4>2 DEF TruncateQueue, Unsent
        <3>2. CASE RewriteQueue
            BY <1>1, <3>2 DEF RewriteQueue
        <3> QED BY <1>7, <3>1, <3>2
    <2>3. UNCHANGED <<det, hook, evidence, evidenceTmp, ciphertext, offset, logSequence,
                      targetSequence, installerVars>>
        BY <1>7 DEF TruncateQueue, RewriteQueue
    <2> QED BY <2>1, <2>2, <2>3 DEF MemoryOK, ReporterTypeOK, SyslogOK, DaemonAt, installerVars
<1>8. CASE UploadInstallerLog
    <2> DEFINE content == SubSeq(syslog, offset + 1, ReadEnd)
    <2>0. ReadEnd \in Nat /\ offset <= ReadEnd /\ ReadEnd <= Len(syslog)
        BY ReadWithinLog DEF MemoryOK
    <2>1. /\ syslog \in Seq(LogLines) /\ offset \in Nat /\ offset <= Len(syslog)
        BY DEF MemoryOK, ReporterTypeOK, SyslogOK
    <2>2. Len(content) \in Nat /\ offset + Len(content) <= Len(syslog)
        <3>1. PICK end \in Nat : end = ReadEnd /\ offset <= end /\ end <= Len(syslog)
            BY <2>0
        <3>2. Len(SubSeq(syslog, offset + 1, end)) = end - offset
            BY <2>1, <3>1
        <3> QED BY <2>1, <3>1, <3>2
    <2> HIDE DEF content
    <2>3. \/ daemon' = [daemon EXCEPT !.pc = "detect"]
          \/ daemon' = [pc |-> "offset", n |-> Len(content)]
        BY <1>8 DEF UploadInstallerLog, DaemonGoes, content
    <2>4. daemon' \in [pc : DaemonPoints, n : Nat]
        BY <1>1, <2>2, <2>3 DEF DaemonPoints
    <2>5. daemon'.pc = "offset" => offset + daemon'.n <= Len(syslog)
        BY <1>1, <2>2, <2>3
    <2>6. UNCHANGED <<rest, det, hook, fileVars, installerVars>>
        BY <1>8 DEF UploadInstallerLog
    <2> QED BY <2>4, <2>5, <2>6 DEF MemoryOK, ReporterTypeOK, SyslogOK, DaemonAt, fileVars,
               installerVars
<1>9. CASE WriteOffset \/ WriteSequence
    <2>1. daemon' \in [pc : DaemonPoints, n : Nat] /\ daemon'.pc # "offset"
        BY <1>1, <1>9 DEF WriteOffset, WriteSequence, DaemonGoes, DaemonPoints
    <2>2. offset' \in Nat /\ offset' <= Len(syslog)
        BY <1>1, <1>9 DEF WriteOffset, WriteSequence, NextOffset, MemoryOK, ReporterTypeOK, DaemonAt
    <2>3. logSequence' \in Nat
        BY <1>9 DEF WriteOffset, WriteSequence, MemoryOK, ReporterTypeOK
    <2>4. UNCHANGED <<rest, det, hook, queue, evidence, evidenceTmp, ciphertext,
                      targetSequence, installerVars>>
        BY <1>9 DEF WriteOffset, WriteSequence
    <2> QED BY <2>1, <2>2, <2>3, <2>4 DEF MemoryOK, ReporterTypeOK, SyslogOK, DaemonAt,
               installerVars
<1>10. CASE Kill
    <2>1. daemon' \in [pc : DaemonPoints, n : Nat] /\ daemon'.pc # "offset"
        BY <1>10 DEF Kill, DaemonPoints
    <2>2. /\ det' \in [Processes -> DetType]
          /\ \A q \in Processes : det'[q].file \in {det[q].file, "none"}
        BY <1>1, <1>10, NotDetectingTyped DEF Kill
    <2>3. rest' \in Seq(EventType)
        BY <1>10 DEF Kill
    <2> QED BY <1>10, <2>1, <2>2, <2>3 DEF Kill, MemoryOK, ReporterTypeOK, SyslogOK, DaemonAt, DetType,
               fileVars, installerVars
<1> QED BY <1>2, <1>3, <1>4, <1>5, <1>6, <1>7, <1>8, <1>9, <1>10 DEF Daemon

\* A hook or the validator moves on, and at most two of their files with it.
LEMMA HookMemory ==
    ASSUME MemoryOK, hook' \in HookPoints, ciphertext' \subseteq {"run", "target"},
           targetSequence' \in Nat, boots' \in Nat, unsynced' \subseteq Nat,
           UNCHANGED <<daemon, rest, det, queue, evidence, evidenceTmp, offset, logSequence,
                       syslog, script>>
    PROVE  MemoryOK'
BY DEF MemoryOK, ReporterTypeOK, SyslogOK, DaemonAt

\* The steps of installer and hooks keep the types.
LEMMA InstallerMemory ==
    ASSUME MemoryOK, Installer
    PROVE  MemoryOK'
<1>1. /\ hook \in HookPoints /\ ciphertext \subseteq {"run", "target"}
      /\ targetSequence \in Nat /\ logSequence \in Nat /\ boots \in Nat /\ unsynced \subseteq Nat
      /\ queue \in Seq(EventType) /\ det \in [Processes -> DetType]
      /\ SyslogOK
    BY DEF MemoryOK, ReporterTypeOK, DetType
<1>2. ASSUME NEW from, NEW stage \in InstallerStages, NEW to \in HookPoints,
             EarlyHook(from, stage, to)
      PROVE  MemoryOK'
    <2>1. "" \in Text /\ "" \notin EvidenceStages
        BY InputAssumption DEF EvidenceStages
    <2>2. \E e \in EventType : queue' = Append(queue, e)
        BY <1>2, <2>1, QueueEventAppends DEF EarlyHook, QueuedAs
    <2>3. queue' \in Seq(EventType)
        BY <1>1, <2>2
    <2>4. hook' = to
        BY <1>2 DEF EarlyHook, HookGoes
    <2> QED BY <1>2, <2>3, <2>4 DEF EarlyHook, MemoryOK, ReporterTypeOK, SyslogOK, DaemonAt, installerVars
<1>3. CASE \/ EarlyHook("started", "INSTALLER_STARTED", "disk")
           \/ EarlyHook("disk", "DISK_PREPARATION", "install")
           \/ EarlyHook("late", "HARDENING", "wait")
    BY <1>2, <1>3 DEF InstallerStages, HookPoints
<1>4. CASE InstallerLogs /\ Len(syslog) < Len(script)
    <2>1. syslog' = Append(syslog, script[Len(syslog) + 1]) /\ hook' = hook /\ script' = script
        BY <1>4 DEF InstallerLogs
    <2>2. script \in Seq(LogLines) /\ syslog \in Seq(LogLines)
        BY <1>1, SyslogAssumption DEF SyslogOK
    <2>3. script[Len(syslog) + 1] \in LogLines
        BY <1>4, <2>2
    <2>4. syslog' \in Seq(LogLines) /\ Len(syslog') = Len(syslog) + 1
        BY <2>1, <2>2, <2>3
    <2>5. ASSUME NEW k \in 1 .. Len(syslog') PROVE syslog'[k] = script[k]
        <3>1. CASE k = Len(syslog) + 1
            BY <3>1, <2>1, <2>2, <2>3
        <3>2. CASE k # Len(syslog) + 1
            <4>1. k \in 1 .. Len(syslog)
                BY <3>2, <2>2, <2>4
            <4> QED BY <4>1, <2>1, <2>2, <2>3, <1>1 DEF SyslogOK
        <3> QED BY <3>1, <3>2
    <2>6. SyslogOK'
        BY <1>1, <1>4, <2>1, <2>2, <2>4, <2>5 DEF SyslogOK
    <2>7. \A x \in Int : x <= Len(syslog) => x <= Len(syslog')
        BY <2>2, <2>4
    <2>8. UNCHANGED <<daemon, rest, det, fileVars, boots, unsynced>>
        BY <1>4 DEF InstallerLogs
    <2> QED BY <2>1, <2>6, <2>7, <2>8 DEF MemoryOK, ReporterTypeOK, DaemonAt, fileVars
<1>5. CASE InstallerLogs /\ ~(Len(syslog) < Len(script))
    <2>1. hook' \in {"halted", "hardening"} /\ syslog' = syslog
        BY <1>5 DEF InstallerLogs
    <2> QED BY <1>1, <1>5, <2>1, HookMemory DEF InstallerLogs, HookPoints, fileVars
<1>6. CASE LateHook
    <2>1. hook' \in HookPoints
        BY <1>1, <1>6 DEF LateHook, HookDetects, HookGoes, HookPoints
    <2>3. /\ det' \in [Processes -> DetType]
          /\ \A q \in Processes : det'[q].file \in {det[q].file, "none"}
        BY <1>1, <1>6, NotDetectingTyped DEF LateHook, HookDetects, DetectStart
    <2> QED BY <1>6, <2>1, <2>3 DEF LateHook, MemoryOK, ReporterTypeOK, SyslogOK, DaemonAt,
               DetType, fileVars, installerVars
<1>7. CASE Detect("hook")
    BY <1>7, DetectMemory DEF Processes
<1>8. CASE WaitForCredentialCiphertext \/ WaitForQueue \/ CheckQueue \/ CopyCiphertext \/ CopySequence
    <2>1. hook' \in HookPoints
        BY <1>8 DEF WaitForCredentialCiphertext, WaitForQueue, CheckQueue, CopyCiphertext,
           CopySequence, HookGoes, HookPoints
    <2>2. ciphertext' \subseteq {"run", "target"} /\ targetSequence' \in Nat
        BY <1>1, <1>8 DEF WaitForCredentialCiphertext, WaitForQueue, CheckQueue, CopyCiphertext,
           CopySequence, fileVars
    <2>3. UNCHANGED <<daemon, rest, det, queue, evidence, evidenceTmp, offset, logSequence,
                      syslog, script, boots, unsynced>>
        BY <1>8 DEF WaitForCredentialCiphertext, WaitForQueue, CheckQueue, CopyCiphertext,
           CopySequence, fileVars, installerVars
    <2> QED BY <1>1, <2>1, <2>2, <2>3, HookMemory
<1>9. CASE Reboot
    <2>1. daemon' \in [pc : DaemonPoints, n : Nat] /\ daemon'.pc # "offset" /\ hook' \in HookPoints
        BY <1>9 DEF Reboot, DaemonPoints, HookGoes, HookPoints
    <2>2. det' \in [Processes -> DetType] /\ \A q \in Processes : det'[q].file = "none"
        BY <1>9, NotDetectingTyped DEF Reboot
    <2>3. offset' = 0 /\ 0 <= Len(syslog)
        BY <1>1, <1>9 DEF Reboot, SyslogOK
    <2>4. queue' \in Seq(EventType) /\ rest' \in Seq(EventType)
        BY <1>9 DEF Reboot
    <2> QED BY <1>1, <1>9, <2>1, <2>2, <2>3, <2>4 DEF Reboot, MemoryOK, ReporterTypeOK, SyslogOK,
               DaemonAt, DetType, installerVars
<1> QED BY <1>3, <1>4, <1>5, <1>6, <1>7, <1>8, <1>9 DEF Installer

\* The steps of validator and server keep the types.
LEMMA ValidatorMemory ==
    ASSUME MemoryOK, Validator \/ ServerSide
    PROVE  MemoryOK'
<1>1. /\ hook \in HookPoints /\ ciphertext \subseteq {"run", "target"}
      /\ targetSequence \in Nat /\ boots \in Nat /\ unsynced \subseteq Nat
    BY DEF MemoryOK, ReporterTypeOK
<1>2. CASE StartFirstBoot \/ WriteFirstBootSequence \/ RemoveCiphertext \/ PowerLoss
    <2>1. hook' \in HookPoints
        BY <1>2 DEF StartFirstBoot, WriteFirstBootSequence, RemoveCiphertext, PowerLoss, HookGoes,
           HookPoints
    <2>2. /\ ciphertext' \in {ciphertext, ciphertext \ {"target"}, ciphertext \cup {"target"}}
          /\ targetSequence' \in {targetSequence, targetSequence + 1} \cup unsynced
          /\ boots' = boots \/ boots' = boots + 1
          /\ unsynced' \in {unsynced, {}, unsynced \cup {targetSequence, 0}}
        BY <1>2 DEF StartFirstBoot, WriteFirstBootSequence, RemoveCiphertext, PowerLoss,
           fileVars, installerVars
    <2>4. targetSequence' \in Nat /\ boots' \in Nat /\ unsynced' \subseteq Nat
        BY <1>1, <2>2
    <2>5. ciphertext' \subseteq {"run", "target"}
        BY <1>1, <2>2
    <2>3. UNCHANGED <<daemon, rest, det, queue, evidence, evidenceTmp, offset, logSequence,
                      syslog, script>>
        BY <1>2 DEF StartFirstBoot, WriteFirstBootSequence, RemoveCiphertext, PowerLoss,
           fileVars, installerVars
    <2> QED BY <2>1, <2>3, <2>4, <2>5, HookMemory
<1>3. ASSUME hook' \in HookPoints, UNCHANGED <<daemon, rest, det, fileVars, installerVars>>
      PROVE  MemoryOK'
    BY <1>1, <1>3, HookMemory DEF fileVars, installerVars
<1>4. ASSUME NEW from, NEW stage, NEW source, NEW code, NEW to \in HookPoints,
             PostValidatorEvent(from, stage, source, code, to)
      PROVE  MemoryOK'
    <2>1. hook' \in HookPoints
        BY <1>4 DEF PostValidatorEvent, OnError, HookPoints
    <2> QED BY <1>3, <1>4, <2>1 DEF PostValidatorEvent
<1>5. CASE \/ PostValidatorEvent("first", "FIRST_BOOT", "finalizer", "", "validating")
           \/ PostValidatorEvent("validating", "VALIDATING", "validator", "", "log")
           \/ PostValidatorEvent("success", "SUCCESS", "validator", "", "remove")
           \/ PostValidatorEvent("failed", "FAILED", "validator", FirstBootFailure, "remove")
    BY <1>4, <1>5 DEF HookPoints
<1>6. CASE PostFirstBootLog
    <2>1. hook' \in HookPoints
        BY <1>6 DEF PostFirstBootLog, HookPoints
    <2> QED BY <1>3, <1>6, <2>1 DEF PostFirstBootLog
<1>7. CASE ServerSide
    BY <1>1, <1>3, <1>7 DEF ServerSide
<1> QED BY <1>2, <1>5, <1>6, <1>7 DEF Validator

-----------------------------------------------------------------------------
(***************************************************************************)
(* The server's side of a step.                                            *)
(***************************************************************************)
\* The installation is deleted, or its events stay, or one is appended.
StoreMoves ==
    /\ events' \in [Installations -> Seq(EventType)]
    /\ Deleted(installation) => Deleted(installation)'
    /\ \/ Deleted(installation)' /\ Timeline' = <<>>
       \/ Timeline' = Timeline
       \/ \E r \in EventType :
            /\ NamesStage(r)
            /\ CanAdvance(CurrentStage(installation), r.stage)
            /\ Timeline' = Append(Timeline, r)

\* No stage follows a terminal one.
LEMMA TerminalIsFinal ==
    ASSUME NEW s, Terminal(s), NEW t, CanAdvance(s, t)
    PROVE  FALSE
BY DEF Terminal, TerminalStages, CanAdvance, MayFail, Successors, NoStage

\* The current stage is that of the latest event.
LEMMA CurrentIsLast ==
    ASSUME Timeline # <<>>
    PROVE  CurrentStage(installation) = Timeline[Len(Timeline)].stage
BY DEF CurrentStage, Timeline

\* A step that leaves the store alone keeps the timeline.
LEMMA StoreStays ==
    ASSUME EventsOK, UNCHANGED storeVars
    PROVE  StoreMoves
BY DEF EventsOK, StoreMoves, storeVars, Deleted, Timeline

\* A report the server took is stored, and a terminal one is its last.
LEMMA StoredMoves ==
    ASSUME EventsOK, NEW r \in EventType, NamesStage(r), Stored(r)
    PROVE  /\ StoreMoves
           /\ HasKey(Timeline', r.key)
           /\ Terminal(r.stage) => Final'
<1>1. /\ installation \in Installations /\ events \in [Installations -> Seq(EventType)]
      /\ Timeline \in Seq(EventType)
    BY ReporterAssumption DEF EventsOK, Timeline
<1>2. CASE AppendLifecycleEvent(installation, r)
    <2>1. /\ events' = [events EXCEPT ![installation] = Append(Timeline, r)]
          /\ CanAdvance(CurrentStage(installation), r.stage)
        BY <1>2 DEF AppendLifecycleEvent, WithEvent, Accepts, Timeline
    <2>2. Append(Timeline, r) \in Seq(EventType)
        BY <1>1
    <2>3. events' \in [Installations -> Seq(EventType)] /\ Timeline' = Append(Timeline, r)
        BY <1>1, <2>1, <2>2 DEF Timeline
    <2>4. Deleted(installation) => Deleted(installation)'
        BY <1>2 DEF AppendLifecycleEvent, Audited, Deleted
    <2>5. StoreMoves
        BY <2>1, <2>3, <2>4 DEF StoreMoves
    <2>6. /\ Len(Timeline') = Len(Timeline) + 1 /\ Len(Timeline) \in Nat
          /\ Timeline'[Len(Timeline')] = r
        BY <1>1, <2>3
    <2>7. HasKey(Timeline', r.key)
        <3>1. Len(Timeline') \in 1 .. Len(Timeline')
            BY <2>6
        <3> QED BY <2>6, <3>1 DEF HasKey
    <2>8. CurrentStage(installation)' = r.stage
        <3>1. Timeline' # <<>>
            BY <2>6, <2>2, <2>3
        <3>2. (CurrentStage(installation))' = Timeline'[Len(Timeline')].stage
            BY <3>1 DEF CurrentStage, Timeline
        <3> QED BY <3>2, <2>6
    <2> QED BY <2>5, <2>7, <2>8 DEF Final
<1>3. CASE Duplicate(installation, r) /\ UNCHANGED storeVars
    <2>1. PICK k \in 1 .. Len(Timeline) : Timeline[k] = r
        BY <1>1, <1>3 DEF Duplicate, Timeline
    <2>2. events' = events /\ audit' = audit
        BY <1>3 DEF storeVars
    <2>3. HasKey(Timeline', r.key)
        BY <2>1, <2>2 DEF HasKey, Timeline
    <2>4. Terminal(r.stage) => Final'
        <3> SUFFICES ASSUME Terminal(r.stage) PROVE Final'
            OBVIOUS
        <3>1. k = Len(Timeline)
            BY <2>1 DEF EventsOK
        <3>2. Timeline # <<>>
            BY <2>1
        <3>3. Terminal(CurrentStage(installation))
            BY <2>1, <3>1, <3>2, CurrentIsLast
        <3>4. CurrentStage(installation)' = CurrentStage(installation)
            BY <2>2 DEF CurrentStage
        <3> QED BY <3>3, <3>4 DEF Final
    <2> QED BY <1>3, <2>3, <2>4, StoreStays
<1> QED BY <1>2, <1>3 DEF Stored

\* Every move of the store keeps the shape of the timeline.
LEMMA EventsKept ==
    ASSUME EventsOK, StoreMoves
    PROVE  EventsOK'
<1>1. events' \in [Installations -> Seq(EventType)]
    BY DEF StoreMoves
<1>2. Timeline \in Seq(EventType)
    BY ReporterAssumption DEF EventsOK, Timeline
<1>3. CASE Timeline' = <<>>
    <2>1. \A k \in 1 .. Len(Timeline') : FALSE
        BY <1>3
    <2> QED BY <1>1, <2>1 DEF EventsOK
<1>4. CASE Timeline' = Timeline
    BY <1>1, <1>4 DEF EventsOK
<1>5. ASSUME NEW r \in EventType, NamesStage(r),
             CanAdvance(CurrentStage(installation), r.stage),
             Timeline' = Append(Timeline, r)
      PROVE  EventsOK'
    <2> DEFINE n == Len(Timeline)
    <2>1. /\ n \in Nat /\ Len(Timeline') = n + 1 /\ Timeline'[n + 1] = r
          /\ \A k \in 1 .. n : Timeline'[k] = Timeline[k]
        BY <1>2, <1>5
    <2>2. ASSUME NEW k \in 1 .. n PROVE ~Terminal(Timeline[k].stage)
        <3> SUFFICES ASSUME Terminal(Timeline[k].stage) PROVE FALSE
            OBVIOUS
        <3>1. k = n /\ Timeline # <<>>
            BY <1>2 DEF EventsOK
        <3>2. CurrentStage(installation) = Timeline[k].stage
            BY <3>1, CurrentIsLast
        <3> QED BY <1>5, <3>2, TerminalIsFinal
    <2> HIDE DEF n
    <2>3. ASSUME NEW k \in 1 .. n + 1
          PROVE  NamesStage(Timeline'[k]) /\ (Terminal(Timeline'[k].stage) => k = n + 1)
        <3>1. CASE k = n + 1
            BY <1>5, <2>1, <3>1
        <3>2. CASE k # n + 1
            <4>1. k \in 1 .. n
                BY <2>1, <3>2
            <4> QED BY <2>1, <2>2, <4>1 DEF EventsOK, n
        <3> QED BY <3>1, <3>2
    <2> QED BY <1>1, <2>1, <2>3 DEF EventsOK, NamesStage
<1> QED BY <1>3, <1>4, <1>5 DEF StoreMoves

\* What the server has it keeps, until the installation is deleted.
LEMMA KeyStays ==
    ASSUME EventsOK, StoreMoves, NEW key, HasKey(Timeline, key)
    PROVE  Deleted(installation)' \/ HasKey(Timeline', key)
<1>1. Timeline \in Seq(EventType)
    BY ReporterAssumption DEF EventsOK, Timeline
<1>2. PICK k \in 1 .. Len(Timeline) : Timeline[k].key = key
    BY DEF HasKey
<1>3. CASE Timeline' = Timeline
    BY <1>2, <1>3 DEF HasKey
<1>4. ASSUME NEW r \in EventType, Timeline' = Append(Timeline, r)
      PROVE  HasKey(Timeline', key)
    <2>1. k \in 1 .. Len(Timeline') /\ Timeline'[k] = Timeline[k]
        BY <1>1, <1>4
    <2> QED BY <1>2, <2>1 DEF HasKey
<1> QED BY <1>3, <1>4 DEF StoreMoves

\* The final word stays final.
LEMMA FinalStays ==
    ASSUME EventsOK, StoreMoves, Final
    PROVE  Final'
<1>1. CASE Deleted(installation) \/ Deleted(installation)'
    BY <1>1 DEF StoreMoves, Final
<1>2. CASE Terminal(CurrentStage(installation)) /\ Timeline' = Timeline
    BY <1>2 DEF Final, CurrentStage, Timeline
<1>3. ASSUME NEW r \in EventType, Terminal(CurrentStage(installation)),
             CanAdvance(CurrentStage(installation), r.stage)
      PROVE  FALSE
    BY <1>3, TerminalIsFinal
<1> QED BY <1>1, <1>2, <1>3 DEF StoreMoves, Final

\* An event of the timeline reports its stage.
LEMMA ReportsStored ==
    ASSUME EventsOK, NEW k \in 1 .. Len(Timeline), NEW stage, Timeline[k].stage = stage
    PROVE  Reported(stage)
<1>1. Timeline \in Seq(EventType)
    BY ReporterAssumption DEF EventsOK, Timeline
<1>2. k \in DOMAIN Timeline
    BY <1>1
<1> QED BY <1>2 DEF Reported, Timeline, Range

\* The events of the validator are no evidence.
LEMMA ValidatorEventTyped ==
    ASSUME NEW stage \in {"FIRST_BOOT", "VALIDATING", "SUCCESS", "FAILED"},
           NEW source \in Sources, NEW code \in Text, UnusedStamps(ValidatorKey[stage]) # {}
    PROVE  /\ ValidatorEvent(stage, source, code) \in EventType
           /\ ValidatorEvent(stage, source, code).stage = stage
           /\ NamesStage(ValidatorEvent(stage, source, code))
<1> DEFINE key == ValidatorKey[stage]
           t == CHOOSE t \in UnusedStamps(key) : TRUE
           e == [stage |-> stage, source |-> source, key |-> key, code |-> code, body |-> t]
<1>1. t \in Text
    BY TextAssumption DEF UnusedStamps
<1>2. stage \in DOMAIN ValidatorKey /\ key \notin EvidenceStages
    BY DEF ValidatorKey, EvidenceStages
<1>3. key \in Text /\ stage \in Stages
    BY <1>2, TextAssumption DEF Stages, TerminalStages
<1>4. ValidatorEvent(stage, source, code) = e
    BY DEF ValidatorEvent
<1> HIDE DEF key, t
<1>5. e \in EventType /\ e.stage = stage /\ e.key = key
    BY <1>1, <1>3 DEF EventType
<1> HIDE DEF e
<1>6. NamesStage(e)
    BY <1>2, <1>5 DEF NamesStage, EvidenceStages
<1> QED BY <1>4, <1>5, <1>6

\* A step of the validator's that reports a stage.
LEMMA ValidatorReports ==
    ASSUME EventsOK, NEW from, NEW stage \in {"FIRST_BOOT", "VALIDATING", "SUCCESS", "FAILED"},
           NEW source \in Sources, NEW code \in Text, NEW to,
           PostValidatorEvent(from, stage, source, code, to)
    PROVE  /\ StoreMoves
           /\ hook' = "off" \/ (hook' = to /\ (Terminal(stage) => Final'))
<1>1. UnusedStamps(ValidatorKey[stage]) # {}
    BY DEF PostValidatorEvent
<1>2. PICK report \in EventType : /\ report = ValidatorEvent(stage, source, code)
                                  /\ report.stage = stage /\ NamesStage(report)
    BY <1>1, ValidatorEventTyped
<1>3. CASE Stored(report) /\ hook' \in {to, "off"}
    BY <1>2, <1>3, StoredMoves
<1>4. CASE hook' = "off" /\ UNCHANGED storeVars
    BY <1>4, StoreStays
<1> QED BY <1>2, <1>3, <1>4 DEF PostValidatorEvent, OnError

\* The event the drain is about to send.
LEMMA NextToSend ==
    ASSUME MemoryOK, QueueOK, DaemonAt("post"), daemon.n # Len(queue)
    PROVE  /\ daemon.n + 1 \in 1 .. Len(queue)
           /\ queue[daemon.n + 1] \in EventType /\ NamesStage(queue[daemon.n + 1])
<1>1. /\ daemon.n \in Nat /\ queue \in Seq(EventType) /\ Len(queue) \in Nat
      /\ daemon.n <= Len(queue)
    BY DEF MemoryOK, ReporterTypeOK, QueueOK, DrainOK, DaemonAt
<1>2. daemon.n + 1 \in 1 .. Len(queue)
    BY <1>1
<1> QED BY <1>1, <1>2 DEF QueueOK, QueueNames

\* Every step of the reporter is one of these at the server.
LEMMA StepAtServer ==
    ASSUME MemoryOK, EventsOK, QueueOK, [ReporterNext]_vars
    PROVE  StoreMoves
<1>1. CASE AcquireCredential
    <2>1. events' = events /\ audit' = Audited(installation, "BOOT_TRUST_VERIFIED")
        BY <1>1 DEF AcquireCredential, ReleaseCredential
    <2> QED BY <2>1 DEF StoreMoves, EventsOK, Deleted, Audited, Timeline
<1>2. CASE PostQueuedEvent
    <2>1. CASE UNCHANGED storeVars
        BY <2>1, StoreStays
    <2>2. CASE daemon.n # Len(queue) /\ Stored(queue[daemon.n + 1])
        BY <1>2, <2>2, NextToSend, StoredMoves DEF PostQueuedEvent
    <2> QED BY <1>2, <2>1, <2>2 DEF PostQueuedEvent
<1>3. CASE \/ PostValidatorEvent("first", "FIRST_BOOT", "finalizer", "", "validating")
           \/ PostValidatorEvent("validating", "VALIDATING", "validator", "", "log")
           \/ PostValidatorEvent("success", "SUCCESS", "validator", "", "remove")
           \/ PostValidatorEvent("failed", "FAILED", "validator", FirstBootFailure, "remove")
    <2>1. /\ "" \in Text /\ FirstBootFailure \in Text
          /\ "finalizer" \in Sources /\ "validator" \in Sources
        BY TextAssumption, InputAssumption DEF Sources
    <2> QED BY <1>3, <2>1, ValidatorReports
<1>4. CASE ServerSide
    <2>1. CASE DeleteInstallation(installation)
        <3>1. /\ events' = [events EXCEPT ![installation] = <<>>]
              /\ audit' = AuditedDeletion(installation)
            BY <2>1 DEF DeleteInstallation
        <3>2. <<>> \in Seq(EventType)
            OBVIOUS
        <3>3. events' \in [Installations -> Seq(EventType)] /\ Timeline' = <<>>
            BY <3>1, <3>2, ReporterAssumption DEF EventsOK, Timeline
        <3>4. Deleted(installation)'
            BY <3>1 DEF Deleted, AuditedDeletion
        <3> QED BY <3>3, <3>4 DEF StoreMoves
    <2>2. CASE ExpireCredential(installation)
        <3>1. events' = events /\ audit' = audit
            BY <2>2 DEF ExpireCredential
        <3> QED BY <3>1 DEF StoreMoves, EventsOK, Deleted, Timeline
    <2> QED BY <1>4, <2>1, <2>2 DEF ServerSide
<1>5. ASSUME NEW p \in Processes, Detect(p)
      PROVE  UNCHANGED storeVars
    BY <1>5, EvidenceWriterLeaves DEF Detect, WritesEvidence, ReadEvidenceState, QueueEvidence
<1>6. CASE \/ OpenTPMKey \/ WriteCiphertext \/ DaemonDetects \/ StartDrain \/ TruncateQueue
           \/ RewriteQueue \/ UploadInstallerLog \/ WriteOffset \/ WriteSequence \/ Kill
    <2>1. UNCHANGED storeVars
        BY <1>6 DEF OpenTPMKey, WriteCiphertext, DaemonDetects, StartDrain, TruncateQueue,
           RewriteQueue, UploadInstallerLog, WriteOffset, WriteSequence, Kill
    <2> QED BY <2>1, StoreStays
<1>7. CASE Installer
    <2>1. CASE Detect("hook")
        BY <1>5, <2>1, StoreStays DEF Processes
    <2>2. CASE ~Detect("hook")
        <3>1. UNCHANGED storeVars
            BY <1>7, <2>2 DEF Installer, EarlyHook, InstallerLogs, LateHook,
               WaitForCredentialCiphertext, WaitForQueue, CheckQueue, CopyCiphertext, CopySequence,
               Reboot
        <3> QED BY <3>1, StoreStays
    <2> QED BY <2>1, <2>2
<1>8. CASE StartFirstBoot \/ PostFirstBootLog \/ WriteFirstBootSequence \/ RemoveCiphertext \/ PowerLoss
    <2>1. UNCHANGED storeVars
        BY <1>8 DEF StartFirstBoot, PostFirstBootLog, WriteFirstBootSequence, RemoveCiphertext,
           PowerLoss
    <2> QED BY <2>1, StoreStays
<1>9. CASE UNCHANGED vars
    BY <1>9, StoreStays DEF vars
<1>10. CASE Detect("daemon")
    BY <1>5, <1>10, StoreStays DEF Processes
<1> QED BY <1>1, <1>2, <1>3, <1>4, <1>6, <1>7, <1>8, <1>9, <1>10 DEF ReporterNext, Daemon, Validator

-----------------------------------------------------------------------------
(***************************************************************************)
(* The queue.                                                              *)
(***************************************************************************)
\* Nothing is queued, and the drain neither starts nor moves.
QueueRests ==
    /\ UNCHANGED <<queue, rest, queued>>
    /\ \/ daemon' = daemon
       \/ daemon.pc # "rewrite" /\ daemon'.pc \notin {"post", "truncate", "rewrite"}
    /\ DaemonAt("dead") => DaemonAt("dead")'

\* An event is queued; HARDENING only by the late hook.
QueueGrows ==
    /\ rest' = rest
    /\ daemon' = daemon \/ DaemonAt("dead")'
    /\ DaemonAt("dead") => DaemonAt("dead")'
    /\ \E stage, key : QueuedAs(stage, key) /\ (stage = "HARDENING" => hook = "late")

\* The daemon ends, or the machine.
QueueEnds ==
    /\ DaemonAt("dead")'
    /\ queue' \in {queue, <<>>} /\ rest' = <<>>

\* Every step of the reporter is one of these at the queue.
LEMMA StepAtQueue ==
    ASSUME MemoryOK, [ReporterNext]_vars
    PROVE  \/ QueueRests \/ QueueGrows \/ QueueEnds
           \/ StartDrain \/ PostQueuedEvent \/ TruncateQueue \/ RewriteQueue
<1>0. daemon \in [pc : DaemonPoints, n : Nat] /\ "" \in Text /\ "" \notin EvidenceStages
    BY InputAssumption DEF MemoryOK, ReporterTypeOK, EvidenceStages
<1>1. CASE OpenTPMKey
    <2>1. CASE DaemonGoes("acquire") /\ UNCHANGED <<queue, queued>>
        BY <1>0, <1>1, <2>1 DEF OpenTPMKey, DaemonAt, DaemonGoes, QueueRests
    <2>2. CASE DaemonGoes("dead") /\ QueueEvent("FAILED", NoTPMFailure)
        <3>1. NoTPMFailure \in Text /\ NoTPMFailure \notin EvidenceStages
            BY TextAssumption DEF NoTPMFailure, EvidenceStages
        <3>2. QueuedAs("FAILED", EventKey("FAILED", NoTPMFailure))
            BY <2>2, <3>1, QueueEventAppends
        <3>3. DaemonAt("dead")' /\ rest' = rest
            BY <1>0, <1>1, <2>2 DEF OpenTPMKey, DaemonAt, DaemonGoes
        <3> QED BY <3>2, <3>3 DEF QueueGrows
    <2> QED BY <1>1, <2>1, <2>2 DEF OpenTPMKey
<1>2. CASE \/ AcquireCredential \/ WriteCiphertext \/ DaemonDetects
           \/ UploadInstallerLog \/ WriteOffset \/ WriteSequence
    <2>1. UNCHANGED <<queue, rest, queued>>
        BY <1>2 DEF AcquireCredential, WriteCiphertext, DaemonDetects, UploadInstallerLog,
           WriteOffset, WriteSequence, fileVars, historyVars
    <2>2. /\ daemon' = daemon \/ daemon'.pc \in {"cipher", "detect", "drain", "offset", "sequence"}
          /\ daemon.pc \in {"acquire", "cipher", "detect", "log", "offset", "sequence"}
        <3>1. CASE UploadInstallerLog
            <4> DEFINE content == SubSeq(syslog, offset + 1, ReadEnd)
            <4> HIDE DEF content
            <4>1. \/ daemon' = [daemon EXCEPT !.pc = "detect"]
                  \/ daemon' = [pc |-> "offset", n |-> Len(content)]
                BY <3>1 DEF UploadInstallerLog, DaemonGoes, content
            <4>2. daemon.pc = "log"
                BY <3>1 DEF UploadInstallerLog, DaemonAt
            <4>3. daemon'.pc \in {"detect", "offset"}
                <5>1. PICK l : l = Len(content)
                    OBVIOUS
                <5>2. CASE daemon' = [daemon EXCEPT !.pc = "detect"]
                    BY <1>0, <5>2
                <5>3. CASE daemon' = [pc |-> "offset", n |-> l]
                    BY <5>3
                <5> QED BY <4>1, <5>1, <5>2, <5>3
            <4> QED BY <4>2, <4>3
        <3>2. CASE WriteOffset
            BY <3>2 DEF WriteOffset, DaemonAt
        <3>3. CASE AcquireCredential \/ WriteCiphertext \/ DaemonDetects \/ WriteSequence
            BY <1>0, <3>3 DEF AcquireCredential, WriteCiphertext, DaemonDetects, WriteSequence,
               DaemonAt, DaemonGoes
        <3> QED BY <1>2, <3>1, <3>2, <3>3
    <2> QED BY <2>1, <2>2 DEF QueueRests, DaemonAt
<1>3. ASSUME NEW p \in Processes, Detect(p)
      PROVE  QueueRests \/ QueueGrows
    <2>1. daemon' = daemon /\ rest' = rest
        BY <1>3, EvidenceWriterLeaves DEF Detect, WritesEvidence, ReadEvidenceState, QueueEvidence
    <2>2. CASE UNCHANGED <<queue, queued>>
        BY <2>1, <2>2 DEF QueueRests, DaemonAt
    <2>3. CASE QueueEvidence(p) /\ Missing(p) # {}
        <3>1. PICK line \in Lines :
                QueuedAs(CheckStage(line), IF line \in Evidence THEN CheckStage(line) ELSE line)
            BY <2>3, EvidenceAppends
        <3>2. CheckStage(line) # "HARDENING"
            BY LineStages DEF EvidenceStages
        <3> QED BY <2>1, <3>1, <3>2 DEF QueueGrows, DaemonAt
    <2>4. CASE QueueEvidence(p) /\ Missing(p) = {}
        BY <2>2, <2>4 DEF QueueEvidence
    <2> QED BY <1>3, <2>2, <2>3, <2>4, EvidenceWriterLeaves DEF Detect, WritesEvidence,
               ReadEvidenceState, fileVars, historyVars
<1>4. CASE Kill
    BY <1>4 DEF Kill, QueueEnds, DaemonAt, fileVars
<1>5. ASSUME NEW from, NEW stage \in InstallerStages, NEW to, EarlyHook(from, stage, to),
             stage = "HARDENING" => from = "late"
      PROVE  QueueGrows
    <2>1. QueuedAs(stage, EventKey(stage, ""))
        BY <1>0, <1>5, QueueEventAppends DEF EarlyHook
    <2> QED BY <1>5, <2>1 DEF EarlyHook, HookGoes, QueueGrows, DaemonAt
<1>6. CASE Installer
    <2>1. CASE \/ EarlyHook("started", "INSTALLER_STARTED", "disk")
               \/ EarlyHook("disk", "DISK_PREPARATION", "install")
               \/ EarlyHook("late", "HARDENING", "wait")
        BY <1>5, <2>1 DEF InstallerStages
    <2>2. CASE \/ InstallerLogs \/ LateHook \/ WaitForCredentialCiphertext \/ WaitForQueue
               \/ CheckQueue \/ CopyCiphertext \/ CopySequence
        <3>1. UNCHANGED <<daemon, queue, rest, queued>>
            BY <2>2 DEF InstallerLogs, LateHook, WaitForCredentialCiphertext, WaitForQueue,
               CheckQueue, CopyCiphertext, CopySequence, fileVars, historyVars
        <3> QED BY <3>1 DEF QueueRests, DaemonAt
    <2>3. CASE Reboot
        BY <2>3 DEF Reboot, QueueEnds, DaemonAt
    <2> QED BY <1>3, <1>6, <2>1, <2>2, <2>3 DEF Installer, Processes
<1>7. CASE Validator \/ ServerSide \/ UNCHANGED vars
    <2>1. UNCHANGED <<daemon, queue, rest, queued>>
        BY <1>7 DEF Validator, StartFirstBoot, PostValidatorEvent, PostFirstBootLog,
           WriteFirstBootSequence, RemoveCiphertext, PowerLoss, ServerSide, vars, fileVars,
           historyVars
    <2> QED BY <2>1 DEF QueueRests, DaemonAt
<1> QED BY <1>1, <1>2, <1>3, <1>4, <1>6, <1>7 DEF ReporterNext, Daemon, Processes

\* One more report takes no key away.
LEMMA HasKeyAppended ==
    ASSUME NEW s \in Seq(EventType), NEW e \in EventType
    PROVE  /\ HasKey(Append(s, e), e.key)
           /\ \A key : HasKey(s, key) => HasKey(Append(s, e), key)
<1>1. /\ Len(s) \in Nat /\ Len(Append(s, e)) = Len(s) + 1
      /\ Append(s, e)[Len(s) + 1] = e
      /\ \A k \in 1 .. Len(s) : Append(s, e)[k] = s[k]
    OBVIOUS
<1>2. Len(s) + 1 \in 1 .. Len(s) + 1 /\ \A k \in 1 .. Len(s) : k \in 1 .. Len(s) + 1
    BY <1>1
<1> QED BY <1>1, <1>2 DEF HasKey

\* What is written back has every key but those of the events sent.
LEMMA HasKeyWrittenBack ==
    ASSUME NEW s \in Seq(EventType), NEW n \in Nat, n <= Len(s), NEW key, HasKey(s, key)
    PROVE  HasKey(SubSeq(s, n + 1, Len(s)), key) \/ \E k \in 1 .. n : s[k].key = key
<1>1. PICK k \in 1 .. Len(s) : s[k].key = key
    BY DEF HasKey
<1>2. CASE k <= n
    BY <1>1, <1>2
<1>3. CASE ~(k <= n)
    <2>1. /\ Len(SubSeq(s, n + 1, Len(s))) = Len(s) - n
          /\ k - n \in 1 .. Len(s) - n
          /\ SubSeq(s, n + 1, Len(s))[k - n] = s[k]
        BY <1>3
    <2> QED BY <1>1, <2>1 DEF HasKey
<1> QED BY <1>2, <1>3

\* Every step keeps the names of what waits.
LEMMA QueueNamesKept ==
    ASSUME MemoryOK, QueueOK, [ReporterNext]_vars
    PROVE  QueueNames'
<1>1. /\ queue \in Seq(EventType) /\ rest \in Seq(EventType) /\ daemon.n \in Nat
      /\ Len(queue) \in Nat /\ QueueNames
    BY DEF MemoryOK, ReporterTypeOK, QueueOK
<1>2. CASE QueueGrows
    <2>1. PICK e \in EventType : NamesStage(e) /\ queue' = Append(queue, e)
        BY <1>2 DEF QueueGrows, QueuedAs
    <2>2. ASSUME NEW k \in 1 .. Len(queue') PROVE NamesStage(queue'[k])
        <3>1. CASE k \in 1 .. Len(queue)
            BY <1>1, <2>1, <3>1 DEF QueueNames
        <3>2. CASE k \notin 1 .. Len(queue)
            BY <1>1, <2>1, <3>2
        <3> QED BY <3>1, <3>2
    <2>3. \A k \in 1 .. Len(rest') : NamesStage(rest'[k])
        BY <1>1, <1>2 DEF QueueGrows, QueueNames
    <2> QED BY <2>2, <2>3 DEF QueueNames, NamesStage
<1>3. CASE TruncateQueue
    <2> DEFINE n == daemon.n
    <2>1. rest' = SubSeq(queue, n + 1, Len(queue)) /\ n \in Nat /\ n <= Len(queue)
        BY <1>1, <1>3 DEF TruncateQueue, Unsent, DaemonAt, QueueOK, DrainOK
    <2> HIDE DEF n
    <2>2. ASSUME NEW k \in 1 .. Len(rest') PROVE NamesStage(rest'[k])
        <3>1. n + k \in 1 .. Len(queue) /\ rest'[k] = queue[n + k]
            BY <1>1, <2>1
        <3> QED BY <1>1, <3>1 DEF QueueNames
    <2>3. \A k \in 1 .. Len(queue') : FALSE
        BY <1>3 DEF TruncateQueue
    <2> QED BY <2>2, <2>3 DEF QueueNames, NamesStage
<1>4. CASE QueueRests \/ StartDrain \/ PostQueuedEvent
    <2>1. queue' = queue /\ rest' = rest
        BY <1>4 DEF QueueRests, StartDrain, PostQueuedEvent, fileVars
    <2> QED BY <1>1, <2>1 DEF QueueNames, NamesStage
<1>5. CASE QueueEnds \/ RewriteQueue
    <2>1. queue' \in {queue, rest, <<>>} /\ rest' = <<>>
        BY <1>5 DEF QueueEnds, RewriteQueue
    <2> QED BY <1>1, <2>1 DEF QueueNames, NamesStage
<1> QED BY <1>2, <1>3, <1>4, <1>5, StepAtQueue

\* Every step keeps the drain's count within what the server has.
LEMMA DrainKept ==
    ASSUME MemoryOK, EventsOK, QueueOK, [ReporterNext]_vars
    PROVE  DrainOK'
<1>1. /\ queue \in Seq(EventType) /\ daemon \in [pc : DaemonPoints, n : Nat]
      /\ daemon.n \in Nat /\ Len(queue) \in Nat /\ DrainOK /\ StoreMoves
    BY StepAtServer DEF MemoryOK, ReporterTypeOK, QueueOK
<1> DEFINE Sent(m) == Deleted(installation)' \/ \A k \in 1 .. m : HasKey(Timeline', queue[k].key)
<1>2. ASSUME daemon.pc \in {"post", "truncate"} PROVE Sent(daemon.n)
    <2>1. \/ Deleted(installation)'
          \/ \A k \in 1 .. daemon.n : HasKey(Timeline, queue[k].key)
        BY <1>1, <1>2 DEF DrainOK, StoreMoves
    <2> QED BY <1>1, <2>1, KeyStays
<1>3. ASSUME daemon'.pc \in {"post", "truncate"}, queue' = queue,
             daemon'.n <= Len(queue), Sent(daemon'.n)
      PROVE  DrainOK'
    BY <1>3 DEF DrainOK, DaemonAt
<1>4. ASSUME daemon'.pc \notin {"post", "truncate", "rewrite"}
      PROVE  DrainOK'
    BY <1>4 DEF DrainOK, DaemonAt
<1>5. CASE QueueRests
    <2>1. CASE daemon'.pc \in {"post", "truncate"}
        BY <1>1, <1>2, <1>3, <1>5, <2>1 DEF QueueRests, DrainOK
    <2>2. CASE daemon'.pc = "rewrite"
        BY <1>1, <1>5, <2>2 DEF QueueRests, DrainOK, DaemonAt
    <2> QED BY <1>4, <2>1, <2>2
<1>6. CASE QueueGrows
    <2>1. daemon'.pc \notin {"post", "truncate", "rewrite"}
        BY <1>6 DEF QueueGrows, QueuedAs, Locked, DaemonAt
    <2> QED BY <1>4, <2>1
<1>7. CASE StartDrain
    <2>1. daemon' = [pc |-> "post", n |-> 0] /\ queue' = queue
        BY <1>7 DEF StartDrain, fileVars
    <2>2. daemon'.n <= Len(queue) /\ Sent(daemon'.n)
        BY <1>1, <2>1
    <2> QED BY <1>3, <2>1, <2>2
<1>8. CASE PostQueuedEvent
    <2>1. queue' = queue /\ daemon.pc = "post"
        BY <1>8 DEF PostQueuedEvent, fileVars, DaemonAt
    <2>2. CASE DrainEnds
        <3>1. daemon'.n = daemon.n /\ daemon'.pc \in {"log", "truncate"}
            BY <1>1, <2>2 DEF DrainEnds, DaemonGoes
        <3>2. daemon.n <= Len(queue)
            BY <1>1, <2>1 DEF DrainOK
        <3> QED BY <1>2, <1>3, <1>4, <2>1, <3>1, <3>2
    <2>3. CASE /\ daemon.n # Len(queue) /\ Stored(queue[daemon.n + 1])
               /\ daemon' = [daemon EXCEPT !.n = @ + 1]
        <3>1. /\ daemon.n + 1 \in 1 .. Len(queue)
              /\ queue[daemon.n + 1] \in EventType /\ NamesStage(queue[daemon.n + 1])
            BY <1>8, <2>3, NextToSend DEF PostQueuedEvent
        <3>2. HasKey(Timeline', queue[daemon.n + 1].key)
            BY <2>3, <3>1, StoredMoves
        <3>3. daemon'.n = daemon.n + 1 /\ daemon'.pc = "post"
            BY <1>1, <2>1, <2>3
        <3>4. \A k \in 1 .. daemon.n + 1 : k \in 1 .. daemon.n \/ k = daemon.n + 1
            BY <1>1
        <3>5. Sent(daemon.n + 1)
            BY <1>2, <2>1, <3>2, <3>4
        <3>6. daemon.n + 1 <= Len(queue)
            BY <1>1, <3>1
        <3> QED BY <1>3, <2>1, <3>3, <3>5, <3>6
    <2> QED BY <1>8, <2>2, <2>3 DEF PostQueuedEvent
<1>9. CASE TruncateQueue
    <2>1. daemon'.pc = "rewrite" /\ queue' = <<>>
        BY <1>1, <1>9 DEF TruncateQueue, DaemonGoes
    <2> QED BY <2>1 DEF DrainOK, DaemonAt
<1>10. CASE RewriteQueue \/ QueueEnds
    BY <1>4, <1>10 DEF RewriteQueue, QueueEnds, DaemonAt
<1> QED BY <1>5, <1>6, <1>7, <1>8, <1>9, <1>10, StepAtQueue

\* What waits keeps waiting until the server has it.
LEMMA NothingLostKept ==
    ASSUME MemoryOK, EventsOK, QueueOK, [ReporterNext]_vars
    PROVE  NothingLost'
<1>1. /\ queue \in Seq(EventType) /\ daemon \in [pc : DaemonPoints, n : Nat]
      /\ daemon.n \in Nat /\ Len(queue) \in Nat /\ DrainOK /\ NothingLost /\ StoreMoves
    BY StepAtServer DEF MemoryOK, ReporterTypeOK, QueueOK
<1> SUFFICES ASSUME ~DaemonAt("dead")', ~Deleted(installation)'
             PROVE  \A key \in queued' : HasKey(Pending', key) \/ HasKey(Timeline', key)
    BY DEF NothingLost
<1>2. ~Deleted(installation)
    BY <1>1 DEF StoreMoves
<1>3. ASSUME NEW key, HasKey(Timeline, key) PROVE HasKey(Timeline', key)
    BY <1>1, <1>3, KeyStays
<1>4. ASSUME ~DaemonAt("dead")
      PROVE  \A key \in queued : HasKey(Pending, key) \/ HasKey(Timeline', key)
    BY <1>1, <1>2, <1>3, <1>4 DEF NothingLost
<1>5. CASE QueueRests
    <2>1. ~DaemonAt("dead") /\ Pending' = Pending /\ queued' = queued
        BY <1>5 DEF QueueRests, Pending, DaemonAt
    <2> QED BY <1>4, <2>1
<1>6. CASE QueueGrows
    <2>1. PICK e \in EventType : queue' = Append(queue, e) /\ queued' = queued \cup {e.key}
        BY <1>6 DEF QueueGrows, QueuedAs
    <2>2. ~DaemonAt("dead") /\ Pending = queue /\ Pending' = queue'
        BY <1>6 DEF QueueGrows, QueuedAs, Locked, Pending, DaemonAt
    <2>3. HasKey(queue', e.key) /\ \A key : HasKey(queue, key) => HasKey(queue', key)
        BY <1>1, <2>1, HasKeyAppended
    <2> QED BY <1>4, <2>1, <2>2, <2>3
<1>7. CASE StartDrain \/ PostQueuedEvent
    <2>1. UNCHANGED <<queue, rest, queued>>
        BY <1>7 DEF StartDrain, PostQueuedEvent, fileVars, historyVars
    <2>2. daemon.pc \in {"drain", "post"} /\ daemon'.pc \in {"post", "log", "truncate"}
        BY <1>1, <1>7 DEF StartDrain, PostQueuedEvent, DrainEnds, DaemonGoes, DaemonAt
    <2>3. ~DaemonAt("dead") /\ Pending' = Pending
        BY <2>1, <2>2 DEF Pending, DaemonAt
    <2> QED BY <1>4, <2>1, <2>3
<1>8. CASE TruncateQueue
    <2> DEFINE n == daemon.n
    <2>1. daemon.pc = "truncate" /\ daemon'.pc = "rewrite"
        BY <1>1, <1>8 DEF TruncateQueue, DaemonAt, DaemonGoes
    <2>2. /\ Pending = queue /\ Pending' = SubSeq(queue, n + 1, Len(queue))
          /\ queued' = queued /\ ~DaemonAt("dead")
        BY <1>8, <2>1 DEF Pending, DaemonAt, TruncateQueue, Unsent, historyVars
    <2>3. /\ n \in Nat /\ n <= Len(queue)
          /\ \A k \in 1 .. n : HasKey(Timeline, queue[k].key)
        BY <1>1, <1>2, <2>1 DEF DrainOK
    <2> HIDE DEF n
    <2>4. ASSUME NEW key, HasKey(queue, key)
          PROVE  HasKey(SubSeq(queue, n + 1, Len(queue)), key) \/ HasKey(Timeline', key)
        BY <1>1, <1>3, <2>3, <2>4, HasKeyWrittenBack
    <2> QED BY <1>4, <2>2, <2>4
<1>9. CASE RewriteQueue
    <2>1. daemon.pc = "rewrite" /\ daemon'.pc = "log"
        BY <1>9 DEF RewriteQueue, DaemonAt
    <2>2. Pending = rest /\ Pending' = rest /\ queued' = queued /\ ~DaemonAt("dead")
        BY <1>9, <2>1 DEF Pending, DaemonAt, RewriteQueue, historyVars
    <2> QED BY <1>4, <2>2
<1>10. CASE QueueEnds
    BY <1>10 DEF QueueEnds
<1> QED BY <1>5, <1>6, <1>7, <1>8, <1>9, <1>10, StepAtQueue

\* Every step keeps the queue's invariant.
LEMMA QueueKept ==
    ASSUME MemoryOK, EventsOK, QueueOK, [ReporterNext]_vars
    PROVE  QueueOK'
BY QueueNamesKept, DrainKept, NothingLostKept DEF QueueOK

-----------------------------------------------------------------------------
(***************************************************************************)
(* The evidence.                                                           *)
(***************************************************************************)
\* Steps that touch neither the evidence nor the hook's part in it.
EvidenceRests ==
    /\ queued \subseteq queued'
    /\ UNCHANGED <<evidence, evidenceTmp, det, syslog>>
    /\ hook' = hook \/ (hook # "hardening" /\ hook' \notin {"hardening", "late"})

\* A step that leaves evidence and queue alone keeps the invariant.
LEMMA EvidenceUntouched ==
    ASSUME EvidenceOK, EvidenceRests
    PROVE  EvidenceOK'
<1>1. ASSUME NEW line \in Evidence, Noted(line)' PROVE CheckStage(line) \in queued'
    <2>1. Noted(line)
        BY <1>1 DEF EvidenceRests, Noted
    <2> QED BY <2>1 DEF EvidenceOK, EvidenceRests
<1> QED BY <1>1 DEF EvidenceOK, EvidenceRests

\* A process that starts over, or ends, has seen nothing.
LEMMA EvidenceForgotten ==
    ASSUME MemoryOK, EvidenceOK, NEW p \in Processes, NEW d,
           det' = [det EXCEPT ![p] = d], d.seen = {},
           p = "hook" => (d.pc \in {"off", "state"}
                            /\ (d.pc = "state" => d.text = Range(syslog) \cap Lines /\ hook = "hardening")),
           p = "daemon" => hook' = hook,
           hook' = hook \/ (det'["hook"].pc = "off" /\ hook' # "hardening"),
           hook' = "late" => EvidenceStages \subseteq queued,
           UNCHANGED <<evidence, evidenceTmp, syslog, queued>>
    PROVE  EvidenceOK'
<1>1. det \in [Processes -> DetType] /\ "hook" \in Processes
    BY DEF MemoryOK, ReporterTypeOK, DetType, Processes
<1>2. det'[p] = d /\ \A q \in Processes : q # p => det'[q] = det[q]
    BY <1>1
<1>3. ASSUME NEW line \in Evidence, Noted(line)' PROVE CheckStage(line) \in queued'
    <2>1. Noted(line)
        BY <1>2, <1>3 DEF Noted
    <2> QED BY <2>1 DEF EvidenceOK
<1>4. CASE p = "hook"
    <2>1. Evidence \subseteq Lines
        BY DEF Evidence, Lines
    <2> QED BY <1>1, <1>2, <1>3, <1>4, <2>1 DEF EvidenceOK
<1>5. CASE p = "daemon"
    <2>1. det'["hook"] = det["hook"]
        BY <1>1, <1>2, <1>5
    <2> QED BY <1>3, <1>5, <2>1 DEF EvidenceOK
<1> QED BY <1>4, <1>5 DEF Processes

\* Either process's pass over the log.
LEMMA DetectEvidence ==
    ASSUME MemoryOK, EvidenceOK, NEW p \in Processes, Detect(p)
    PROVE  EvidenceOK'
<1>1. /\ det \in [Processes -> DetType] /\ det[p] \in DetType /\ "hook" \in Processes
    BY DEF MemoryOK, ReporterTypeOK, DetType, Processes
<1>2. hook' = hook /\ syslog' = syslog
    BY EvidenceWriterLeaves DEF Detect, WritesEvidence, ReadEvidenceState, QueueEvidence,
       installerVars
<1>3. CASE ReadEvidenceState(p)
    <2>1. /\ det'[p] = [det[p] EXCEPT !.pc = "queue", !.seen = evidence]
          /\ \A q \in Processes : q # p => det'[q] = det[q]
          /\ UNCHANGED <<evidence, evidenceTmp, queued>> /\ det[p].pc = "state"
        BY <1>1, <1>3 DEF ReadEvidenceState, fileVars, historyVars
    <2>2. det'[p].pc = "queue" /\ det'[p].seen = evidence /\ det'[p].text = det[p].text
        BY <1>1, <2>1 DEF DetType
    <2>3. ASSUME NEW line \in Evidence, Noted(line)' PROVE CheckStage(line) \in queued'
        <3>1. Noted(line)
            BY <2>1, <2>2, <2>3 DEF Noted
        <3> QED BY <2>1, <3>1 DEF EvidenceOK
    <2> QED BY <1>1, <1>2, <2>1, <2>2, <2>3 DEF EvidenceOK
<1>4. CASE QueueEvidence(p) /\ Missing(p) = {}
    <2>1. /\ det'[p] = [det[p] EXCEPT !.pc = IF det[p].changed THEN "tmp" ELSE "done"]
          /\ \A q \in Processes : q # p => det'[q] = det[q]
          /\ UNCHANGED <<evidence, evidenceTmp, queued>> /\ det[p].pc = "queue"
        BY <1>1, <1>4 DEF QueueEvidence
    <2>2. /\ det'[p].pc \in {"tmp", "done"} /\ det'[p].seen = det[p].seen
          /\ det'[p].text = det[p].text
        BY <1>1, <2>1 DEF DetType
    <2>3. ASSUME NEW line \in Evidence, Noted(line)' PROVE CheckStage(line) \in queued'
        <3>1. Noted(line)
            BY <2>1, <2>2, <2>3 DEF Noted
        <3> QED BY <2>1, <3>1 DEF EvidenceOK
    <2>4. det[p].text \subseteq det[p].seen
        <3>1. det[p].text \subseteq Lines
            BY <1>1 DEF DetType
        <3> QED BY <1>4, <3>1, ChecksAreLines DEF Missing
    <2> QED BY <1>1, <1>2, <2>1, <2>2, <2>3, <2>4 DEF EvidenceOK
<1>5. CASE QueueEvidence(p) /\ Missing(p) # {}
    <2>1. PICK line \in Lines :
            /\ det' = [det EXCEPT ![p].seen = @ \cup {line}, ![p].changed = TRUE]
            /\ QueuedAs(CheckStage(line), IF line \in Evidence THEN CheckStage(line) ELSE line)
        BY <1>5, EvidenceAppends
    <2>2. /\ det'[p] = [det[p] EXCEPT !.seen = @ \cup {line}, !.changed = TRUE]
          /\ \A q \in Processes : q # p => det'[q] = det[q]
          /\ UNCHANGED <<evidence, evidenceTmp>> /\ det[p].pc = "queue"
        BY <1>1, <1>5, <2>1 DEF QueueEvidence
    <2>3. /\ det'[p].pc = "queue" /\ det'[p].seen = det[p].seen \cup {line}
          /\ det'[p].text = det[p].text
        BY <1>1, <2>2 DEF DetType
    <2>4. queued \subseteq queued' /\ (line \in Evidence => CheckStage(line) \in queued')
        BY <2>1 DEF QueuedAs
    <2>5. ASSUME NEW l \in Evidence, Noted(l)' PROVE CheckStage(l) \in queued'
        <3>1. Noted(l) \/ l = line
            BY <2>2, <2>3, <2>5 DEF Noted
        <3> QED BY <2>4, <3>1 DEF EvidenceOK
    <2> QED BY <1>1, <1>2, <2>2, <2>3, <2>4, <2>5 DEF EvidenceOK
<1>6. CASE WritesEvidence(p)
    <2>1. queued' = queued
        BY <1>6, EvidenceWriterLeaves DEF historyVars
    <2>2. /\ \A q \in Processes : det'[q].seen = det[q].seen /\ det'[q].text = det[q].text
          /\ \A q \in Processes : q # p => det'[q].pc = det[q].pc
          /\ det[p].pc \in {"tmp", "write", "chmod", "remove", "rename"}
          /\ det'[p].pc # "off"
        BY <1>6, EvidenceWriterMoves
    <2>3. ASSUME NEW line \in Evidence, Noted(line)' PROVE CheckStage(line) \in queued'
        <3>1. Noted(line)
            BY <1>6, <2>2, <2>3, EvidenceWriterMoves DEF Noted
        <3> QED BY <2>1, <3>1 DEF EvidenceOK
    <2>4. CASE p = "hook"
        BY <1>2, <2>1, <2>2, <2>3, <2>4 DEF EvidenceOK
    <2>5. CASE p # "hook"
        BY <1>1, <1>2, <2>1, <2>2, <2>3, <2>5 DEF EvidenceOK
    <2> QED BY <2>4, <2>5
<1> QED BY <1>3, <1>4, <1>5, <1>6 DEF Detect, WritesEvidence

\* An installer that has come to its late command has logged the evidence.
LEMMA LateCommandHasEvidence ==
    ASSUME MemoryOK, InstallerLogs, hook' = "hardening"
    PROVE  Evidence \subseteq Range(syslog)
<1>1. /\ hook = "install" /\ ~(Len(syslog) < Len(script)) /\ Last(script) \notin FailedItems
    BY DEF InstallerLogs
<1>2. /\ script \in SyslogRuns /\ script \in Seq(LogLines) /\ syslog \in Seq(LogLines)
      /\ Len(syslog) <= Len(script)
      /\ \A k \in 1 .. Len(syslog) : syslog[k] = script[k]
    BY SyslogAssumption DEF MemoryOK, SyslogOK
<1>3. Evidence \subseteq Range(script)
    BY <1>1, <1>2, SyslogAssumption DEF Evidence
<1>4. Len(syslog) = Len(script)
    BY <1>1, <1>2
<1>5. Range(script) \subseteq Range(syslog)
    BY <1>2, <1>4 DEF Range
<1> QED BY <1>3, <1>5

\* Every step of either process keeps the invariant on evidence.
LEMMA EvidenceKept ==
    ASSUME MemoryOK, EvidenceOK, [ReporterNext]_vars
    PROVE  EvidenceOK'
<1>0. det \in [Processes -> DetType] /\ "hook" \in Processes /\ "daemon" \in Processes
    BY DEF MemoryOK, ReporterTypeOK, DetType, Processes
<1>1. NotDetecting.pc = "off" /\ NotDetecting.seen = {}
    BY DEF NotDetecting
<1>2. PICK fresh : /\ fresh = [NotDetecting EXCEPT !.pc = "state", !.text = Range(syslog) \cap Lines]
                   /\ fresh.pc = "state" /\ fresh.seen = {} /\ fresh.text = Range(syslog) \cap Lines
    <2>1. PICK nothing \in DetType : nothing = NotDetecting /\ nothing.seen = {}
        BY <1>1, NotDetectingTyped
    <2>2. PICK log : log = Range(syslog) \cap Lines
        OBVIOUS
    <2>3. PICK d : d = [nothing EXCEPT !.pc = "state", !.text = log]
        OBVIOUS
    <2>4. d.pc = "state" /\ d.seen = {} /\ d.text = log
        BY <2>1, <2>3 DEF DetType
    <2> QED BY <2>1, <2>2, <2>3, <2>4
<1>3. CASE \/ OpenTPMKey \/ AcquireCredential \/ WriteCiphertext \/ StartDrain \/ PostQueuedEvent
           \/ TruncateQueue \/ RewriteQueue \/ UploadInstallerLog \/ WriteOffset \/ WriteSequence
    <2>1. UNCHANGED <<evidence, evidenceTmp, det, syslog, hook>>
        BY <1>3 DEF OpenTPMKey, AcquireCredential, WriteCiphertext, StartDrain, PostQueuedEvent,
           TruncateQueue, RewriteQueue, UploadInstallerLog, WriteOffset, WriteSequence, fileVars,
           installerVars
    <2>2. queued \subseteq queued'
        BY <1>3 DEF OpenTPMKey, QueueEvent, AcquireCredential, WriteCiphertext, StartDrain,
           PostQueuedEvent, TruncateQueue, RewriteQueue, UploadInstallerLog, WriteOffset,
           WriteSequence, historyVars
    <2> QED BY <2>1, <2>2, EvidenceUntouched DEF EvidenceRests
<1>4. CASE DaemonDetects \/ Kill
    <2>1. UNCHANGED <<evidence, evidenceTmp, syslog, hook, queued>>
        BY <1>4 DEF DaemonDetects, Kill, fileVars, installerVars, historyVars
    <2>2. \/ det' = [det EXCEPT !["daemon"] = fresh]
          \/ det' = [det EXCEPT !["daemon"] = NotDetecting]
        BY <1>2, <1>4 DEF DaemonDetects, DetectStart, Kill
    <2>3. hook = "late" => EvidenceStages \subseteq queued
        BY DEF EvidenceOK
    <2> QED BY <1>0, <1>1, <1>2, <2>1, <2>2, <2>3, EvidenceForgotten
<1>5. CASE Detect("daemon") \/ Detect("hook")
    BY <1>0, <1>5, DetectEvidence
<1>6. CASE \/ EarlyHook("started", "INSTALLER_STARTED", "disk")
           \/ EarlyHook("disk", "DISK_PREPARATION", "install")
           \/ EarlyHook("late", "HARDENING", "wait")
    BY <1>6, EvidenceUntouched DEF EarlyHook, HookGoes, QueueEvent, EvidenceRests, installerVars
<1>7. CASE InstallerLogs
    <2>1. UNCHANGED <<evidence, evidenceTmp, det, queued>> /\ hook = "install"
        BY <1>7 DEF InstallerLogs, fileVars, historyVars
    <2>2. hook' \in {"install", "halted", "hardening"} /\ (hook' = "hardening" => syslog' = syslog)
        BY <1>7 DEF InstallerLogs
    <2>3. hook' = "hardening" => Evidence \subseteq Range(syslog')
        BY <1>7, <2>2, LateCommandHasEvidence
    <2>4. det["hook"].pc = "off"
        BY <2>1 DEF EvidenceOK
    <2>5. ASSUME NEW line \in Evidence, Noted(line)' PROVE CheckStage(line) \in queued'
        <3>1. Noted(line)
            BY <2>1, <2>5 DEF Noted
        <3> QED BY <2>1, <3>1 DEF EvidenceOK
    <2> QED BY <2>1, <2>2, <2>3, <2>4, <2>5 DEF EvidenceOK
<1>8. CASE LateHook
    <2>1. UNCHANGED <<evidence, evidenceTmp, syslog, queued>>
        BY <1>8 DEF LateHook, fileVars, installerVars, historyVars
    <2>2. CASE hook = "hardening" /\ det' = [det EXCEPT !["hook"] = fresh] /\ hook' = hook
        BY <1>0, <1>2, <2>1, <2>2, EvidenceForgotten
    <2>3. CASE /\ det["hook"].pc = "done" /\ hook = "hardening" /\ hook' = "late"
               /\ det' = [det EXCEPT !["hook"] = NotDetecting]
        <3>1. \A line \in Evidence : CheckStage(line) \in queued
            BY <1>0, <2>3 DEF EvidenceOK, Noted
        <3>2. EvidenceStages \subseteq queued
            BY <3>1, LineStages DEF Evidence, EvidenceStages
        <3>3. det'["hook"].pc = "off"
            BY <1>0, <1>1, <2>3
        <3> QED BY <1>0, <1>1, <2>1, <2>3, <3>2, <3>3, EvidenceForgotten
    <2>4. CASE /\ hook = "hardening" /\ hook' = "halted"
               /\ det' = [det EXCEPT !["hook"] = NotDetecting]
        <3>1. det'["hook"].pc = "off"
            BY <1>0, <1>1, <2>4
        <3> QED BY <1>0, <1>1, <2>1, <2>4, <3>1, EvidenceForgotten
    <2> QED BY <1>2, <1>8, <2>2, <2>3, <2>4 DEF LateHook, HookDetects, DetectStart, HookGoes
<1>9. CASE \/ WaitForCredentialCiphertext \/ WaitForQueue \/ CheckQueue \/ CopyCiphertext
           \/ CopySequence
    BY <1>9, EvidenceUntouched DEF WaitForCredentialCiphertext, WaitForQueue, CheckQueue,
       CopyCiphertext, CopySequence, HookGoes, EvidenceRests, fileVars, installerVars, historyVars
<1>10. CASE Reboot
    <2>1. /\ hook' = "off" /\ evidence' = {} /\ evidenceTmp' = None
          /\ \A p \in Processes : det'[p] = NotDetecting
        BY <1>10 DEF Reboot, HookGoes
    <2>2. \A line : ~Noted(line)'
        BY <1>1, <2>1 DEF Noted
    <2> QED BY <1>0, <1>1, <2>1, <2>2 DEF EvidenceOK
<1>11. CASE Validator \/ ServerSide \/ UNCHANGED vars
    <2>1. UNCHANGED <<evidence, evidenceTmp, det, syslog, queued>>
        BY <1>11 DEF Validator, StartFirstBoot, PostValidatorEvent, PostFirstBootLog,
           WriteFirstBootSequence, RemoveCiphertext, PowerLoss, ServerSide, vars, fileVars,
           installerVars, historyVars
    <2>2. hook' = hook \/ (hook # "hardening" /\ hook' \notin {"hardening", "late"})
        <3>1. ASSUME NEW from, NEW stage, NEW source, NEW code, NEW to,
                     PostValidatorEvent(from, stage, source, code, to)
              PROVE  hook = from /\ hook' \in {to, "off"}
            BY <3>1 DEF PostValidatorEvent, OnError
        <3>2. CASE \/ StartFirstBoot \/ PostFirstBootLog \/ WriteFirstBootSequence
                   \/ RemoveCiphertext \/ PowerLoss \/ ServerSide \/ UNCHANGED vars
            BY <3>2 DEF StartFirstBoot, PostFirstBootLog, WriteFirstBootSequence, RemoveCiphertext,
               PowerLoss, ServerSide, vars, HookGoes
        <3>3. CASE \/ PostValidatorEvent("first", "FIRST_BOOT", "finalizer", "", "validating")
                   \/ PostValidatorEvent("validating", "VALIDATING", "validator", "", "log")
                   \/ PostValidatorEvent("success", "SUCCESS", "validator", "", "remove")
                   \/ PostValidatorEvent("failed", "FAILED", "validator", FirstBootFailure, "remove")
            <4>1. /\ hook \in {"first", "validating", "success", "failed"}
                  /\ hook' \in {"validating", "log", "remove", "off"}
                BY <3>1, <3>3
            <4> QED BY <4>1
        <3> QED BY <1>11, <3>2, <3>3 DEF Validator
    <2> QED BY <2>1, <2>2, EvidenceUntouched DEF EvidenceRests
<1> QED BY <1>3, <1>4, <1>5, <1>6, <1>7, <1>8, <1>9, <1>10, <1>11 DEF ReporterNext, Daemon, Installer

-----------------------------------------------------------------------------
(***************************************************************************)
(* The credential.                                                         *)
(***************************************************************************)
LEMMA CredentialKept ==
    ASSUME MemoryOK, EventsOK, QueueOK, CredentialOK, [ReporterNext]_vars
    PROVE  CredentialOK'
<1>1. Final => Final'
    BY FinalStays, StepAtServer
<1>2. ASSUME boots' = boots, "target" \in ciphertext => "target" \in ciphertext',
             hook' = "remove" => hook = "remove" \/ Final'
      PROVE  CredentialOK'
    BY <1>1, <1>2 DEF CredentialOK
<1>3. CASE \/ OpenTPMKey \/ AcquireCredential \/ DaemonDetects \/ Detect("daemon") \/ StartDrain
           \/ PostQueuedEvent \/ TruncateQueue \/ RewriteQueue \/ UploadInstallerLog \/ WriteOffset
           \/ WriteSequence \/ Kill \/ Detect("hook") \/ ServerSide \/ UNCHANGED vars
    <2>1. UNCHANGED <<boots, ciphertext, hook>>
        <3>1. CASE Detect("daemon") \/ Detect("hook")
            BY <3>1, EvidenceWriterLeaves DEF Detect, WritesEvidence, ReadEvidenceState,
               QueueEvidence, Processes, fileVars, installerVars
        <3>2. CASE ~Detect("daemon") /\ ~Detect("hook")
            BY <1>3, <3>2 DEF OpenTPMKey, AcquireCredential, DaemonDetects, StartDrain,
               PostQueuedEvent, TruncateQueue, RewriteQueue, UploadInstallerLog, WriteOffset,
               WriteSequence, Kill, ServerSide, vars, fileVars, installerVars
        <3> QED BY <3>1, <3>2
    <2> QED BY <1>2, <2>1
<1>4. CASE WriteCiphertext
    BY <1>2, <1>4 DEF WriteCiphertext, installerVars
<1>5. CASE \/ EarlyHook("started", "INSTALLER_STARTED", "disk")
           \/ EarlyHook("disk", "DISK_PREPARATION", "install")
           \/ EarlyHook("late", "HARDENING", "wait")
           \/ InstallerLogs \/ LateHook \/ WaitForCredentialCiphertext \/ WaitForQueue
           \/ CheckQueue \/ CopyCiphertext \/ CopySequence \/ Reboot
    <2>1. boots' = boots /\ ("target" \in ciphertext => "target" \in ciphertext')
        BY <1>5 DEF EarlyHook, InstallerLogs, LateHook, WaitForCredentialCiphertext, WaitForQueue,
           CheckQueue, CopyCiphertext, CopySequence, Reboot, fileVars, installerVars
    <2>2. hook' = "remove" => hook = "remove"
        BY <1>5 DEF EarlyHook, InstallerLogs, LateHook, HookDetects, WaitForCredentialCiphertext,
           WaitForQueue, CheckQueue, CopyCiphertext, CopySequence, Reboot, HookGoes
    <2> QED BY <1>2, <2>1, <2>2
<1>6. CASE StartFirstBoot
    BY <1>6 DEF StartFirstBoot, HookGoes, CredentialOK, fileVars
<1>7. CASE \/ PostValidatorEvent("first", "FIRST_BOOT", "finalizer", "", "validating")
           \/ PostValidatorEvent("validating", "VALIDATING", "validator", "", "log")
    <2>1. hook' # "remove"
        BY <1>7 DEF PostValidatorEvent, OnError
    <2>2. UNCHANGED <<boots, ciphertext>>
        BY <1>7 DEF PostValidatorEvent, fileVars, installerVars
    <2> QED BY <1>2, <2>1, <2>2
<1>8. CASE \/ PostValidatorEvent("success", "SUCCESS", "validator", "", "remove")
           \/ PostValidatorEvent("failed", "FAILED", "validator", FirstBootFailure, "remove")
    <2>1. /\ "" \in Text /\ FirstBootFailure \in Text /\ "validator" \in Sources
          /\ Terminal("SUCCESS") /\ Terminal("FAILED")
        BY TextAssumption, InputAssumption DEF Sources, Terminal, TerminalStages
    <2>2. hook' = "off" \/ Final'
        BY <1>8, <2>1, ValidatorReports
    <2>3. UNCHANGED <<boots, ciphertext>>
        BY <1>8 DEF PostValidatorEvent, fileVars, installerVars
    <2> QED BY <1>2, <2>2, <2>3
<1>9. CASE PostFirstBootLog \/ WriteFirstBootSequence \/ PowerLoss
    <2>1. hook' # "remove" /\ boots' = boots /\ ciphertext \subseteq ciphertext'
        BY <1>9 DEF PostFirstBootLog, WriteFirstBootSequence, PowerLoss, fileVars, installerVars
    <2> QED BY <1>2, <2>1
<1>10. CASE RemoveCiphertext
    BY <1>1, <1>10 DEF RemoveCiphertext, HookGoes, CredentialOK
<1> QED BY <1>3, <1>4, <1>5, <1>6, <1>7, <1>8, <1>9, <1>10
    DEF ReporterNext, Daemon, Installer, Validator

-----------------------------------------------------------------------------
(***************************************************************************)
(* The log.                                                                *)
(***************************************************************************)
LEMMA CutOfLongerLog ==
    ASSUME NEW chunks \in Seq(ChunkType), NEW lines \in Seq(LogLines), NEW l \in LogLines,
           NEW cut \in [0 .. Len(chunks) -> 0 .. Len(lines)], CutInto(chunks, lines, cut)
    PROVE  CutInto(chunks, Append(lines, l), cut)
<1>1. Len(chunks) \in Nat /\ Len(lines) \in Nat
    OBVIOUS
<1>2. ASSUME NEW a \in 0 .. Len(lines), NEW b \in 0 .. Len(lines), a <= b
      PROVE  SubSeq(Append(lines, l), a + 1, b) = SubSeq(lines, a + 1, b)
    <2>1. /\ Append(lines, l) \in Seq(LogLines) /\ Len(Append(lines, l)) = Len(lines) + 1
          /\ \A i \in 1 .. Len(lines) : Append(lines, l)[i] = lines[i]
        OBVIOUS
    <2>2. PICK longer \in Seq(LogLines) : /\ longer = Append(lines, l) /\ Len(longer) = Len(lines) + 1
                                       /\ \A i \in 1 .. Len(lines) : longer[i] = lines[i]
        BY <2>1
    <2>3. \A i \in a + 1 .. b : i \in 1 .. Len(lines)
        BY <1>1
    <2>4. /\ \A i \in a + 1 .. b : lines[i] \in LogLines
          /\ \A i \in a + 1 .. b : longer[i] \in LogLines
        BY <2>2, <2>3
    <2>5. a + 1 \in Int /\ b \in Int
        BY <1>1
    <2>6. /\ SubSeq(lines, a + 1, b) \in Seq(LogLines) /\ SubSeq(longer, a + 1, b) \in Seq(LogLines)
          /\ Len(SubSeq(lines, a + 1, b)) = b - a /\ Len(SubSeq(longer, a + 1, b)) = b - a
          /\ \A i \in 1 .. b - a : SubSeq(lines, a + 1, b)[i] = lines[a + i]
          /\ \A i \in 1 .. b - a : SubSeq(longer, a + 1, b)[i] = longer[a + i]
        BY <1>1, <1>2, <2>2, <2>4, <2>5
    <2>7. \A i \in 1 .. b - a : a + i \in 1 .. Len(lines)
        BY <1>1, <1>2
    <2>8. \A i \in 1 .. b - a : SubSeq(lines, a + 1, b)[i] = SubSeq(longer, a + 1, b)[i]
        BY <2>2, <2>6, <2>7
    <2>9. PICK s \in Seq(LogLines) : s = SubSeq(lines, a + 1, b) /\ Len(s) = b - a
        BY <2>6
    <2>10. PICK t \in Seq(LogLines) : t = SubSeq(longer, a + 1, b) /\ Len(t) = b - a
        BY <2>6
    <2>11. \A i \in 1 .. Len(s) : s[i] = t[i]
        BY <2>8, <2>9, <2>10
    <2>12. s = t
        BY <2>9, <2>10, <2>11, SeqEqual
    <2> QED BY <2>2, <2>9, <2>10, <2>12
<1>3. \A n \in 1 .. Len(chunks) : cut[n - 1] \in 0 .. Len(lines) /\ cut[n] \in 0 .. Len(lines)
    BY <1>1
<1> QED BY <1>2, <1>3 DEF CutInto

\* A chunk that takes the server's log from line a to line b.
Continues(c, lines, a, b) ==
    IF c.kind = "installer" THEN a <= b /\ c.content = RedactLogContent(SubSeq(lines, a + 1, b)) ELSE b = a

\* One chunk more: of the installer's from where the log ends, or another's.
LEMMA CutWithChunk ==
    ASSUME NEW chunks \in Seq(ChunkType), NEW c \in ChunkType, NEW lines \in Seq(LogLines),
           NEW cut \in [0 .. Len(chunks) -> 0 .. Len(lines)], CutInto(chunks, lines, cut),
           NEW x \in 0 .. Len(lines), Continues(c, lines, cut[Len(chunks)], x)
    PROVE  \E new \in [0 .. Len(chunks) + 1 -> 0 .. Len(lines)] :
            CutInto(Append(chunks, c), lines, new) /\ new[Len(chunks) + 1] = x
<1>1. PICK k \in Nat : k = Len(chunks)
    OBVIOUS
<1>2. PICK new : new = [n \in 0 .. k + 1 |-> IF n = k + 1 THEN x ELSE cut[n]]
    OBVIOUS
<1>3. /\ \A n \in 0 .. k : n \in 0 .. k + 1 /\ n # k + 1
      /\ \A n \in 0 .. k + 1 : n # k + 1 => n \in 0 .. k
      /\ k + 1 \in 0 .. k + 1 /\ 0 \in 0 .. k
    OBVIOUS
<1>4. new \in [0 .. k + 1 -> 0 .. Len(lines)]
    BY <1>1, <1>2, <1>3
<1>5. new[k + 1] = x /\ \A n \in 0 .. k : new[n] = cut[n]
    BY <1>2, <1>3
<1>6. PICK more : /\ more = Append(chunks, c) /\ Len(more) = k + 1 /\ more[k + 1] = c
                  /\ \A n \in 1 .. k : more[n] = chunks[n]
    <2>1. /\ Len(Append(chunks, c)) = Len(chunks) + 1 /\ Append(chunks, c)[Len(chunks) + 1] = c
          /\ \A n \in 1 .. Len(chunks) : Append(chunks, c)[n] = chunks[n]
        OBVIOUS
    <2> QED BY <1>1, <2>1
<1>7. ASSUME NEW n \in 1 .. k + 1
      PROVE  IF more[n].kind = "installer"
             THEN /\ new[n - 1] <= new[n]
                  /\ more[n].content = RedactLogContent(SubSeq(lines, new[n - 1] + 1, new[n]))
             ELSE new[n] = new[n - 1]
    <2>1. CASE n = k + 1
        <3>1. new[n - 1] = cut[k] /\ new[n] = x /\ more[n] = c
            BY <1>5, <1>6, <2>1
        <3> QED BY <1>1, <3>1 DEF Continues
    <2>2. CASE n # k + 1
        <3>1. n \in 1 .. k /\ n \in 0 .. k /\ n - 1 \in 0 .. k
            BY <2>2
        <3>2. new[n - 1] = cut[n - 1] /\ new[n] = cut[n] /\ more[n] = chunks[n]
            BY <1>5, <1>6, <3>1
        <3>3. IF chunks[n].kind = "installer"
              THEN /\ cut[n - 1] <= cut[n]
                   /\ chunks[n].content = RedactLogContent(SubSeq(lines, cut[n - 1] + 1, cut[n]))
              ELSE cut[n] = cut[n - 1]
            BY <1>1, <3>1 DEF CutInto
        <3> QED BY <3>2, <3>3
    <2> QED BY <2>1, <2>2
<1>8. new[0] = 0
    BY <1>3, <1>5 DEF CutInto
<1>9. CutInto(more, lines, new)
    BY <1>6, <1>7, <1>8 DEF CutInto
<1> QED BY <1>1, <1>4, <1>5, <1>6, <1>9

\* A redacted chunk is a sequence of lines.
LEMMA RedactedTyped ==
    ASSUME NEW content \in Seq(LogLines \cup {"validation"})
    PROVE  RedactLogContent(content) \in Seq(LogLines \cup {"validation", "redacted"})
<1>1. Len(content) \in Nat /\ \A k \in 1 .. Len(content) : content[k] \in LogLines \cup {"validation"}
    OBVIOUS
<1> QED BY <1>1 DEF RedactLogContent

\* The parts of a chunk of log.
LEMMA ChunkTyped ==
    ASSUME NEW kind \in {"installer", "firstboot"}, NEW seq \in Nat,
           NEW content \in Seq(LogLines \cup {"validation"})
    PROVE  /\ LogChunk(kind, seq, content) \in ChunkType
           /\ LogChunk(kind, seq, content).kind = kind
           /\ LogChunk(kind, seq, content).seq = seq
           /\ LogChunk(kind, seq, content).content = RedactLogContent(content)
           /\ ~LogDuplicate(LogChunk(kind, seq, content))
<1> DEFINE stored == IF seq \in DOMAIN serverLog THEN {serverLog[seq].stamp} ELSE {}
           t == CHOOSE t \in Stamps : t \notin stored
           c == [kind |-> kind, seq |-> seq, content |-> RedactLogContent(content), stamp |-> t]
<1>1. \E s \in Stamps : s \notin stored
    BY StampAssumption
<1>2. t \in Stamps /\ t \notin stored
    BY <1>1
<1>3. LogChunk(kind, seq, content) = c
    BY DEF LogChunk
<1> HIDE DEF t
<1>4. /\ c \in ChunkType /\ c.kind = kind /\ c.seq = seq /\ c.stamp = t
      /\ c.content = RedactLogContent(content)
    <2>1. PICK redacted \in Seq(LogLines \cup {"validation", "redacted"}) :
            redacted = RedactLogContent(content)
        BY RedactedTyped
    <2> QED BY <1>2, <2>1 DEF ChunkType
<1> HIDE DEF c
<1>5. ~LogDuplicate(c)
    BY <1>2, <1>4 DEF LogDuplicate
<1> QED BY <1>3, <1>4, <1>5

\* A step that leaves the log where it is.
LEMMA LogUntouched ==
    ASSUME LogOK, UNCHANGED <<serverLog, syslog, offset, logSequence, specMachine>>,
           hook' \in InstalledSystem => hook \in InstalledSystem \/ DaemonAt("dead")',
           \/ daemon' = daemon
           \/ DaemonAt("dead")'
           \/ /\ daemon.pc \notin {"offset", "sequence", "dead"}
              /\ daemon'.pc \notin {"offset", "sequence"}
    PROVE  LogOK'
<1>1. /\ serverLog' \in Seq(ChunkType) /\ installation \in DOMAIN specMachine'
      /\ SpecExists(installation)' \/ serverLog' = <<>>
      /\ SpecExists(installation)' <=> SpecExists(installation)
    BY DEF LogOK, SpecExists
<1>2. hook' \in InstalledSystem => DaemonAt("dead")'
    BY DEF LogOK, DaemonAt
<1>3. PICK cut \in [0 .. Len(serverLog) -> 0 .. Len(syslog)] : LogCut(cut)
    BY DEF LogOK
<1>4. PICK m : m = cut[Len(serverLog)]
    OBVIOUS
<1>5. ~DaemonAt("dead")' /\ SpecExists(installation)' => Uploaded(m)'
    BY <1>1, <1>3, <1>4 DEF LogCut, Uploaded, DaemonAt
<1>6. LogCut(cut)'
    BY <1>3, <1>4, <1>5 DEF LogCut
<1> QED BY <1>1, <1>2, <1>3, <1>6 DEF LogOK

\* The upload of the daemon: what the server takes begins where its log ends.
LEMMA LogUploads ==
    ASSUME MemoryOK, LogOK, UploadInstallerLog
    PROVE  LogOK'
<1>1. /\ syslog \in Seq(LogLines) /\ Len(syslog) \in Nat /\ offset \in Nat /\ offset <= Len(syslog)
      /\ logSequence \in Nat /\ daemon \in [pc : DaemonPoints, n : Nat]
    BY DEF MemoryOK, ReporterTypeOK, SyslogOK
<1>2. /\ serverLog \in Seq(ChunkType) /\ Len(serverLog) \in Nat
      /\ daemon.pc = "log"
      /\ UNCHANGED <<syslog, offset, logSequence, specMachine, hook>>
    BY DEF LogOK, UploadInstallerLog, DaemonAt, fileVars, installerVars, storeVars
<1>3. hook' \notin InstalledSystem
    BY <1>2 DEF LogOK, DaemonAt
<1>4. PICK content : content = SubSeq(syslog, offset + 1, ReadEnd)
    OBVIOUS
<1>5. PICK end \in Nat : /\ end = ReadEnd /\ offset <= end /\ end <= Len(syslog)
                         /\ content \in Seq(LogLines) /\ Len(content) = end - offset
    <2>1. PICK end \in Nat : end = ReadEnd /\ offset <= end /\ end <= Len(syslog)
        BY ReadWithinLog DEF MemoryOK
    <2>2. content = SubSeq(syslog, offset + 1, end)
        BY <1>4, <2>1
    <2>3. content \in Seq(LogLines) /\ Len(content) = end - offset
        BY <1>1, <2>1, <2>2
    <2> QED BY <2>1, <2>3
<1>6. PICK chunk \in ChunkType :
            /\ chunk = LogChunk("installer", logSequence + 1, content)
            /\ chunk.kind = "installer" /\ chunk.seq = logSequence + 1
            /\ chunk.content = RedactLogContent(content)
            /\ ~LogDuplicate(chunk)
    <2>1. content \in Seq(LogLines \cup {"validation"}) /\ logSequence + 1 \in Nat
        BY <1>1, <1>5, SeqMonotonic
    <2> QED BY <2>1, ChunkTyped
<1>7. CASE serverLog' = serverLog /\ daemon' = [daemon EXCEPT !.pc = "detect"]
    <2>1. daemon'.pc = "detect"
        BY <1>1, <1>7
    <2> QED BY <1>2, <1>3, <1>7, <2>1, LogUntouched DEF DaemonAt
<1>8. CASE /\ LogTaken(chunk)
           /\ AppendInstallationLogChunk(chunk)
           /\ \/ daemon' = [pc |-> "offset", n |-> Len(content)]
              \/ daemon' = [daemon EXCEPT !.pc = "detect"]
    <2>1. /\ SpecExists(installation) /\ logSequence = Len(serverLog)
          /\ serverLog' = Append(serverLog, chunk)
        BY <1>1, <1>2, <1>6, <1>8 DEF LogTaken, LogAccepts, AppendInstallationLogChunk
    <2>2. PICK cut \in [0 .. Len(serverLog) -> 0 .. Len(syslog)] : LogCut(cut)
        BY DEF LogOK
    <2>3. CutInto(serverLog, syslog, cut) /\ cut[Len(serverLog)] = offset
        BY <1>1, <1>2, <2>1, <2>2 DEF LogCut, Uploaded, DaemonAt
    <2>5. end \in 0 .. Len(syslog) /\ cut[Len(serverLog)] <= end
        BY <1>1, <1>5, <2>3
    <2>6. chunk.content = RedactLogContent(SubSeq(syslog, cut[Len(serverLog)] + 1, end))
        BY <1>4, <1>5, <1>6, <2>3
    <2>7. PICK new \in [0 .. Len(serverLog) + 1 -> 0 .. Len(syslog)] :
            CutInto(Append(serverLog, chunk), syslog, new) /\ new[Len(serverLog) + 1] = end
        <3>1. Continues(chunk, syslog, cut[Len(serverLog)], end)
            BY <1>6, <2>5, <2>6 DEF Continues
        <3>2. /\ serverLog \in Seq(ChunkType) /\ chunk \in ChunkType /\ syslog \in Seq(LogLines)
              /\ cut \in [0 .. Len(serverLog) -> 0 .. Len(syslog)] /\ end \in 0 .. Len(syslog)
              /\ CutInto(serverLog, syslog, cut)
            BY <1>1, <1>2, <1>6, <2>2, <2>3, <2>5
        <3> QED BY <3>1, <3>2, CutWithChunk, SMTT(60)
    <2>8. serverLog' \in Seq(ChunkType) /\ Len(serverLog') = Len(serverLog) + 1
        BY <1>2, <2>1
    <2>9. \/ daemon'.pc = "offset" /\ offset + daemon'.n = end
          \/ daemon'.pc = "detect"
        <3>1. PICK l \in Int : l = Len(content) /\ offset + l = end
            <4>1. end - offset \in Int /\ offset + (end - offset) = end
                BY <1>1
            <4>2. end - offset = Len(content)
                BY <1>5
            <4> QED BY <4>1, <4>2
        <3>2. CASE daemon' = [pc |-> "offset", n |-> l]
            BY <3>1, <3>2
        <3>3. CASE daemon' = [daemon EXCEPT !.pc = "detect"]
            BY <1>1, <3>3
        <3> QED BY <1>8, <3>1, <3>2, <3>3
    <2>10. Uploaded(end)'
        BY <1>1, <1>2, <2>1, <2>8, <2>9 DEF Uploaded, DaemonAt
    <2>11. LogCut(new)'
        BY <1>2, <2>1, <2>7, <2>8, <2>10 DEF LogCut
    <2>12. SpecExists(installation)'
        BY <1>2, <2>1 DEF SpecExists
    <2> QED BY <1>2, <1>3, <2>7, <2>8, <2>11, <2>12 DEF LogOK
<1> QED BY <1>4, <1>6, <1>7, <1>8 DEF UploadInstallerLog, DaemonGoes

\* The offset and the sequence, once the answer has come.
LEMMA LogFilesWritten ==
    ASSUME MemoryOK, LogOK, WriteOffset \/ WriteSequence
    PROVE  LogOK'
<1>1. /\ offset \in Nat /\ logSequence \in Nat /\ daemon \in [pc : DaemonPoints, n : Nat]
      /\ UNCHANGED <<serverLog, syslog, hook, specMachine>>
      /\ daemon.pc # "dead" /\ hook \notin InstalledSystem
    BY DEF MemoryOK, ReporterTypeOK, WriteOffset, WriteSequence, DaemonAt, LogOK, installerVars,
       storeVars
<1>2. PICK cut \in [0 .. Len(serverLog) -> 0 .. Len(syslog)] : LogCut(cut)
    BY DEF LogOK
<1>3. PICK m : m = cut[Len(serverLog)]
    OBVIOUS
<1>4. SpecExists(installation) => Uploaded(m)'
    <2> SUFFICES ASSUME SpecExists(installation) PROVE Uploaded(m)'
        OBVIOUS
    <2>1. Uploaded(m)
        BY <1>1, <1>2, <1>3 DEF LogCut, DaemonAt
    <2>2. CASE WriteOffset
        <3>1. /\ daemon.pc = "offset" /\ daemon'.pc = "sequence" /\ offset' = offset + daemon.n
              /\ logSequence' = logSequence
            BY <2>2 DEF WriteOffset, NextOffset, DaemonAt
        <3> QED BY <1>1, <2>1, <3>1 DEF Uploaded, DaemonAt
    <2>3. CASE WriteSequence
        <3>1. /\ daemon.pc = "sequence" /\ daemon'.pc = "detect" /\ offset' = offset
              /\ logSequence' = logSequence + 1
            BY <1>1, <2>3 DEF WriteSequence, DaemonAt, DaemonGoes
        <3> QED BY <1>1, <2>1, <3>1 DEF Uploaded, DaemonAt
    <2> QED BY <2>2, <2>3
<1>5. SpecExists(installation)' <=> SpecExists(installation)
    BY <1>1 DEF SpecExists
<1>6. LogCut(cut)'
    BY <1>1, <1>2, <1>3, <1>4, <1>5 DEF LogCut
<1> QED BY <1>1, <1>2, <1>5, <1>6 DEF LogOK

\* The validator's chunk holds nothing of the installer's log.
LEMMA LogOfFirstBoot ==
    ASSUME MemoryOK, LogOK, PostFirstBootLog
    PROVE  LogOK'
<1>1. /\ syslog \in Seq(LogLines) /\ targetSequence \in Nat
      /\ serverLog \in Seq(ChunkType) /\ Len(serverLog) \in Nat
      /\ UNCHANGED <<daemon, syslog, offset, logSequence, specMachine>>
      /\ hook = "log"
    BY DEF MemoryOK, ReporterTypeOK, SyslogOK, LogOK, PostFirstBootLog, fileVars, installerVars,
       storeVars
<1>2. DaemonAt("dead") /\ DaemonAt("dead")'
    BY <1>1 DEF LogOK, InstalledSystem, DaemonAt
<1>3. SpecExists(installation)' <=> SpecExists(installation)
    BY <1>1 DEF SpecExists
<1>4. PICK chunk \in ChunkType : /\ chunk = LogChunk("firstboot", targetSequence + 1, <<"validation">>)
                                 /\ chunk.kind = "firstboot" /\ ~LogDuplicate(chunk)
    <2>1. <<"validation">> \in Seq(LogLines \cup {"validation"}) /\ targetSequence + 1 \in Nat
        BY <1>1
    <2> QED BY <2>1, ChunkTyped
<1>5. CASE serverLog' = serverLog
    BY <1>1, <1>2, <1>5, LogUntouched
<1>6. CASE LogTaken(chunk) /\ AppendInstallationLogChunk(chunk)
    <2>1. SpecExists(installation) /\ serverLog' = Append(serverLog, chunk)
        BY <1>4, <1>6 DEF LogTaken, AppendInstallationLogChunk
    <2>2. PICK cut \in [0 .. Len(serverLog) -> 0 .. Len(syslog)] : CutInto(serverLog, syslog, cut)
        BY DEF LogOK, LogCut
    <2>3. PICK end : end = cut[Len(serverLog)] /\ end \in 0 .. Len(syslog)
        BY <1>1, <2>2
    <2>4. Continues(chunk, syslog, cut[Len(serverLog)], end)
        BY <1>4, <2>3 DEF Continues
    <2>5. PICK new \in [0 .. Len(serverLog) + 1 -> 0 .. Len(syslog)] :
            CutInto(Append(serverLog, chunk), syslog, new)
        BY <1>1, <2>2, <2>3, <2>4, CutWithChunk
    <2>6. serverLog' \in Seq(ChunkType) /\ Len(serverLog') = Len(serverLog) + 1
        BY <1>1, <2>1
    <2>7. LogCut(new)'
        BY <1>1, <1>2, <2>1, <2>5 DEF LogCut
    <2> QED BY <1>1, <1>2, <1>3, <2>1, <2>5, <2>6, <2>7 DEF LogOK
<1> QED BY <1>4, <1>5, <1>6 DEF PostFirstBootLog

\* The installer's log grows.
LEMMA LogGrows ==
    ASSUME MemoryOK, LogOK, InstallerLogs
    PROVE  LogOK'
<1>1. /\ syslog \in Seq(LogLines) /\ script \in Seq(LogLines) /\ serverLog \in Seq(ChunkType)
      /\ UNCHANGED <<serverLog, daemon, offset, logSequence, specMachine>>
      /\ hook = "install" /\ hook' \in {"install", "halted", "hardening"}
    BY SyslogAssumption DEF MemoryOK, SyslogOK, LogOK, InstallerLogs, fileVars, storeVars
<1>2. hook' \notin InstalledSystem
    BY <1>1 DEF InstalledSystem
<1>3. SpecExists(installation)' <=> SpecExists(installation)
    BY <1>1 DEF SpecExists
<1>4. CASE syslog' = syslog
    BY <1>1, <1>2, <1>4, LogUntouched
<1>5. CASE Len(syslog) < Len(script) /\ syslog' = Append(syslog, script[Len(syslog) + 1])
    <2>1. script[Len(syslog) + 1] \in LogLines
        BY <1>1, <1>5
    <2>2. PICK cut \in [0 .. Len(serverLog) -> 0 .. Len(syslog)] : LogCut(cut)
        BY DEF LogOK
    <2>3. CutInto(serverLog, syslog', cut)
        BY <1>1, <1>5, <2>1, <2>2, CutOfLongerLog DEF LogCut
    <2>4. PICK m : m = cut[Len(serverLog)]
        OBVIOUS
    <2>5. ~DaemonAt("dead")' /\ SpecExists(installation)' => Uploaded(m)'
        BY <1>1, <1>3, <2>2, <2>4 DEF LogCut, Uploaded, DaemonAt
    <2>6. LogCut(cut)'
        BY <1>1, <2>3, <2>4, <2>5 DEF LogCut
    <2>7. cut \in [0 .. Len(serverLog') -> 0 .. Len(syslog')]
        <3>1. 0 .. Len(syslog) \subseteq 0 .. Len(syslog')
            BY <1>1, <1>5, <2>1
        <3> QED BY <1>1, <3>1
    <2> QED BY <1>1, <1>2, <1>3, <2>6, <2>7 DEF LogOK
<1> QED BY <1>4, <1>5 DEF InstallerLogs

\* Every step keeps the server's log a prefix, cut where the offset says.
LEMMA LogKept ==
    ASSUME MemoryOK, LogOK, [ReporterNext]_vars
    PROVE  LogOK'
<1>1. daemon \in [pc : DaemonPoints, n : Nat]
    BY DEF MemoryOK, ReporterTypeOK
<1>2. ASSUME UNCHANGED specMachine
      PROVE  SpecExists(installation)' <=> SpecExists(installation)
    BY <1>2 DEF SpecExists
<1>3. CASE \/ OpenTPMKey \/ AcquireCredential \/ WriteCiphertext \/ DaemonDetects \/ StartDrain
           \/ PostQueuedEvent \/ TruncateQueue \/ RewriteQueue
    <2>1. UNCHANGED <<serverLog, syslog, offset, logSequence, hook>>
        BY <1>3 DEF OpenTPMKey, AcquireCredential, WriteCiphertext, DaemonDetects, StartDrain,
           PostQueuedEvent, TruncateQueue, RewriteQueue, fileVars, installerVars
    <2>2. specMachine' = specMachine
        BY <1>3 DEF OpenTPMKey, AcquireCredential, ReleaseCredential, WriteCiphertext,
           DaemonDetects, StartDrain, PostQueuedEvent, Stored, AppendLifecycleEvent, TruncateQueue,
           RewriteQueue, storeVars
    <2>3. daemon.pc \in {"start", "acquire", "cipher", "detect", "drain", "post", "truncate", "rewrite"}
        BY <1>3 DEF OpenTPMKey, AcquireCredential, WriteCiphertext, DaemonDetects, StartDrain,
           PostQueuedEvent, TruncateQueue, RewriteQueue, DaemonAt
    <2>4. daemon' = daemon \/ daemon'.pc \notin {"offset", "sequence"}
        BY <1>1, <1>3, <2>3 DEF OpenTPMKey, AcquireCredential, WriteCiphertext, DaemonDetects,
           StartDrain, PostQueuedEvent, DrainEnds, TruncateQueue, RewriteQueue, DaemonGoes
    <2> QED BY <2>1, <2>2, <2>3, <2>4, LogUntouched
<1>4. CASE Detect("daemon") \/ Detect("hook")
    <2>1. UNCHANGED <<serverLog, syslog, offset, logSequence, hook, daemon, specMachine>>
        BY <1>4, EvidenceWriterLeaves DEF Detect, WritesEvidence, ReadEvidenceState, QueueEvidence,
           Processes, fileVars, installerVars, storeVars
    <2> QED BY <2>1, LogUntouched
<1>5. CASE UploadInstallerLog
    BY <1>5, LogUploads
<1>6. CASE WriteOffset \/ WriteSequence
    BY <1>6, LogFilesWritten
<1>7. CASE Kill
    <2>1. /\ UNCHANGED <<serverLog, syslog, offset, logSequence, hook, specMachine>>
          /\ DaemonAt("dead")'
        BY <1>7 DEF Kill, DaemonAt, fileVars, installerVars, storeVars
    <2> QED BY <2>1, LogUntouched
<1>8. CASE InstallerLogs
    BY <1>8, LogGrows
<1>9. CASE \/ EarlyHook("started", "INSTALLER_STARTED", "disk")
           \/ EarlyHook("disk", "DISK_PREPARATION", "install")
           \/ EarlyHook("late", "HARDENING", "wait")
           \/ LateHook \/ WaitForCredentialCiphertext \/ WaitForQueue
           \/ CheckQueue \/ CopyCiphertext \/ CopySequence
    <2>1. UNCHANGED <<serverLog, syslog, offset, logSequence, daemon, specMachine>>
        BY <1>9 DEF EarlyHook, LateHook, WaitForCredentialCiphertext, WaitForQueue, CheckQueue,
           CopyCiphertext, CopySequence, fileVars, installerVars, storeVars
    <2>2. hook' = hook \/ hook' \notin InstalledSystem
        BY <1>9 DEF EarlyHook, LateHook, HookDetects, WaitForCredentialCiphertext, WaitForQueue,
           CheckQueue, CopyCiphertext, CopySequence, HookGoes, InstalledSystem
    <2> QED BY <2>1, <2>2, LogUntouched
<1>10. CASE Reboot
    <2>1. /\ UNCHANGED <<serverLog, syslog, specMachine>> /\ DaemonAt("dead")'
        BY <1>10 DEF Reboot, DaemonAt, installerVars, storeVars
    <2>2. PICK cut \in [0 .. Len(serverLog) -> 0 .. Len(syslog)] : LogCut(cut)
        BY DEF LogOK
    <2>3. LogCut(cut)'
        BY <2>1, <2>2 DEF LogCut
    <2> QED BY <1>2, <2>1, <2>2, <2>3 DEF LogOK
<1>11. CASE PostFirstBootLog
    BY <1>11, LogOfFirstBoot
<1>12. CASE StartFirstBoot \/ WriteFirstBootSequence \/ RemoveCiphertext \/ PowerLoss
    <2>1. /\ UNCHANGED <<serverLog, syslog, offset, logSequence, daemon, specMachine>>
          /\ hook \in InstalledSystem
        BY <1>12 DEF StartFirstBoot, WriteFirstBootSequence, RemoveCiphertext, PowerLoss, HookGoes,
           InstalledSystem, fileVars, installerVars, storeVars
    <2> QED BY <2>1, LogUntouched
<1>13. ASSUME NEW from \in InstalledSystem, NEW stage, NEW source, NEW code, NEW to,
              PostValidatorEvent(from, stage, source, code, to)
       PROVE  LogOK'
    <2>1. UNCHANGED <<serverLog, syslog, offset, logSequence, daemon>> /\ hook \in InstalledSystem
        BY <1>13 DEF PostValidatorEvent, fileVars, installerVars
    <2>2. specMachine' = specMachine
        BY <1>13 DEF PostValidatorEvent, Stored, AppendLifecycleEvent, storeVars
    <2> QED BY <2>1, <2>2, LogUntouched
<1>14. CASE \/ PostValidatorEvent("first", "FIRST_BOOT", "finalizer", "", "validating")
            \/ PostValidatorEvent("validating", "VALIDATING", "validator", "", "log")
            \/ PostValidatorEvent("success", "SUCCESS", "validator", "", "remove")
            \/ PostValidatorEvent("failed", "FAILED", "validator", FirstBootFailure, "remove")
    BY <1>13, <1>14 DEF InstalledSystem
<1>15. CASE ServerSide
    <2>1. UNCHANGED <<syslog, offset, logSequence, daemon, hook>>
        BY <1>15 DEF ServerSide, fileVars, installerVars
    <2>2. CASE DeleteInstallation(installation) /\ serverLog' = <<>>
        <3>1. ~SpecExists(installation)'
            BY <2>2 DEF DeleteInstallation, SpecExists, LogOK
        <3>2. PICK cut : cut = [n \in 0 .. 0 |-> 0]
            OBVIOUS
        <3>3. cut \in [0 .. Len(serverLog') -> 0 .. Len(syslog')]
            <4>1. Len(serverLog') = 0
                BY <2>2
            <4>2. Len(syslog') \in Nat
                BY <2>1 DEF MemoryOK, SyslogOK
            <4> QED BY <3>2, <4>1, <4>2
        <3>4. CutInto(serverLog', syslog', cut)
            BY <2>2, <3>2 DEF CutInto
        <3>5. LogCut(cut)'
            BY <3>1, <3>4 DEF LogCut
        <3>6. serverLog' \in Seq(ChunkType)
            BY <2>2
        <3>7. hook' \in InstalledSystem => DaemonAt("dead")'
            BY <2>1 DEF LogOK, DaemonAt
        <3>8. installation \in DOMAIN specMachine'
            BY <2>2 DEF LogOK, DeleteInstallation
        <3> QED BY <2>2, <3>3, <3>5, <3>6, <3>7, <3>8 DEF LogOK
    <2>3. CASE ExpireCredential(installation) /\ UNCHANGED serverLog
        <3>1. specMachine' = specMachine
            BY <2>3 DEF ExpireCredential
        <3> QED BY <2>1, <2>3, <3>1, LogUntouched
    <2> QED BY <1>15, <2>2, <2>3 DEF ServerSide
<1>16. CASE UNCHANGED vars
    <2>1. UNCHANGED <<serverLog, syslog, offset, logSequence, hook, daemon, specMachine>>
        BY <1>16 DEF vars, fileVars, installerVars, storeVars
    <2> QED BY <2>1, LogUntouched
<1> QED BY <1>3, <1>4, <1>5, <1>6, <1>7, <1>8, <1>9, <1>10, <1>11, <1>12, <1>14, <1>15, <1>16
    DEF ReporterNext, Daemon, Installer, Validator

-----------------------------------------------------------------------------
(***************************************************************************)
(* HARDENING is not overtaken.                                             *)
(***************************************************************************)
\* A stage before the k-th event of s.
Before(s, k, stage) == \E j \in 1 .. k - 1 : s[j].stage = stage

InOrder(s) ==
    \A k \in 1 .. Len(s) : s[k].stage = "HARDENING" =>
        \A stage \in EvidenceStages : Reported(stage) \/ Before(s, k, stage)

\* The property as a statement about the sequence that waits.
LEMMA NotOvertakenInOrder ==
    ASSUME MemoryOK
    PROVE  EvidenceIsNotOvertaken <=> (DaemonAt("dead") \/ Deleted(installation) \/ InOrder(Pending))
<1>1. Pending \in Seq(EventType)
    BY DEF MemoryOK, ReporterTypeOK, Pending
<1>2. DOMAIN Pending = 1 .. Len(Pending)
    BY <1>1
<1> QED BY <1>2 DEF EvidenceIsNotOvertaken, InOrder, Before, EvidenceStages

\* A stage the server has it keeps, until the installation is deleted.
LEMMA ReportedStays ==
    ASSUME EventsOK, StoreMoves, ~Deleted(installation)', NEW stage, Reported(stage)
    PROVE  Reported(stage)'
<1>1. Timeline \in Seq(EventType)
    BY ReporterAssumption DEF EventsOK, Timeline
<1>2. PICK k \in 1 .. Len(Timeline) : Timeline[k].stage = stage
    BY <1>1 DEF Reported, Timeline, Range
<1>3. CASE Timeline' = Timeline
    BY <1>3 DEF Reported, Timeline
<1>4. ASSUME NEW r \in EventType, Timeline' = Append(Timeline, r)
      PROVE  Reported(stage)'
    <2>1. k \in DOMAIN Timeline' /\ Timeline'[k] = Timeline[k]
        BY <1>1, <1>4
    <2> QED BY <1>2, <2>1 DEF Reported, Timeline, Range
<1> QED BY <1>3, <1>4 DEF StoreMoves

\* A key of evidence at the server is its stage reported.
LEMMA KeyReports ==
    ASSUME EventsOK, NEW stage \in EvidenceStages, HasKey(Timeline, stage)
    PROVE  Reported(stage)
<1>1. PICK k \in 1 .. Len(Timeline) : Timeline[k].key = stage
    BY DEF HasKey
<1>2. Timeline[k].stage = stage
    BY <1>1 DEF EventsOK, NamesStage
<1> QED BY <1>2, ReportsStored

\* No step lets HARDENING overtake the evidence: neither what is queued, nor what
\* a drain takes out or writes back.
LEMMA OvertakenKept ==
    ASSUME MemoryOK, MemoryOK', EventsOK, EventsOK', QueueOK, EvidenceOK, EvidenceIsNotOvertaken,
           [ReporterNext]_vars
    PROVE  EvidenceIsNotOvertaken'
<1>1. /\ queue \in Seq(EventType) /\ rest \in Seq(EventType)
      /\ daemon \in [pc : DaemonPoints, n : Nat]
      /\ daemon.n \in Nat /\ Len(queue) \in Nat /\ QueueNames /\ DrainOK /\ NothingLost
      /\ StoreMoves
    BY StepAtServer DEF MemoryOK, ReporterTypeOK, QueueOK
<1>2. EvidenceIsNotOvertaken' <=> (DaemonAt("dead")' \/ Deleted(installation)' \/ InOrder(Pending)')
    <2>1. DOMAIN Pending' = 1 .. Len(Pending')
        <3>1. Pending' \in Seq(EventType)
            BY DEF MemoryOK, ReporterTypeOK, Pending
        <3> QED BY <3>1
    <2> QED BY <2>1 DEF EvidenceIsNotOvertaken, InOrder, Before, EvidenceStages
<1> SUFFICES ASSUME ~DaemonAt("dead")', ~Deleted(installation)'
             PROVE  InOrder(Pending)'
    BY <1>2
<1>3. ~Deleted(installation)
    BY <1>1 DEF StoreMoves
<1>4. \A stage : Reported(stage) => Reported(stage)'
    BY <1>1, ReportedStays
<1>5. ~DaemonAt("dead") => InOrder(Pending)
    BY <1>3, NotOvertakenInOrder
<1>6. ASSUME ~DaemonAt("dead"), Pending' = Pending
      PROVE  InOrder(Pending)'
    <2>1. ASSUME NEW k \in 1 .. Len(Pending), Pending[k].stage = "HARDENING",
                 NEW stage \in EvidenceStages
          PROVE  Reported(stage)' \/ Before(Pending, k, stage)
        BY <1>4, <1>5, <1>6, <2>1 DEF InOrder
    <2> QED BY <1>6, <2>1 DEF InOrder, Before
<1>7. CASE QueueRests
    <2>1. ~DaemonAt("dead") /\ Pending' = Pending
        BY <1>7 DEF QueueRests, Pending, DaemonAt
    <2> QED BY <1>6, <2>1
<1>8. CASE QueueGrows
    <2>1. PICK e \in EventType : /\ queue' = Append(queue, e)
                                 /\ e.stage = "HARDENING" => hook = "late"
        BY <1>8 DEF QueueGrows, QueuedAs
    <2>2. ~DaemonAt("dead") /\ Pending = queue /\ Pending' = queue'
        BY <1>8 DEF QueueGrows, QueuedAs, Locked, Pending, DaemonAt
    <2>3. /\ Len(queue') = Len(queue) + 1 /\ queue'[Len(queue) + 1] = e
          /\ \A j \in 1 .. Len(queue) : queue'[j] = queue[j]
        BY <1>1, <2>1
    <2>4. ASSUME NEW k \in 1 .. Len(queue'), queue'[k].stage = "HARDENING",
                 NEW stage \in EvidenceStages
          PROVE  Reported(stage)' \/ Before(queue', k, stage)
        <3>1. CASE k \in 1 .. Len(queue)
            <4>1. Reported(stage) \/ Before(queue, k, stage)
                BY <1>5, <2>2, <2>3, <2>4, <3>1 DEF InOrder
            <4>2. \A j \in 1 .. k - 1 : j \in 1 .. Len(queue)
                BY <1>1, <3>1
            <4> QED BY <1>4, <2>3, <4>1, <4>2 DEF Before
        <3>2. CASE k \notin 1 .. Len(queue)
            <4>1. k = Len(queue) + 1
                BY <1>1, <2>3, <3>2
            <4>2. stage \in queued
                BY <2>1, <2>3, <2>4, <4>1 DEF EvidenceOK
            <4>3. HasKey(queue, stage) \/ HasKey(Timeline, stage)
                BY <1>1, <1>3, <2>2, <4>2 DEF NothingLost
            <4>4. CASE HasKey(Timeline, stage)
                BY <1>4, <4>4, KeyReports
            <4>5. CASE HasKey(queue, stage)
                <5>1. PICK j \in 1 .. Len(queue) : queue[j].key = stage
                    BY <4>5 DEF HasKey
                <5>2. queue'[j].stage = stage
                    BY <1>1, <2>3, <5>1 DEF QueueNames, NamesStage
                <5>3. j \in 1 .. k - 1
                    BY <1>1, <4>1
                <5> QED BY <5>2, <5>3 DEF Before
            <4> QED BY <4>3, <4>4, <4>5
        <3> QED BY <3>1, <3>2
    <2> QED BY <2>2, <2>4 DEF InOrder, Before
<1>9. CASE StartDrain \/ PostQueuedEvent
    <2>1. UNCHANGED <<queue, rest>>
        BY <1>9 DEF StartDrain, PostQueuedEvent, fileVars
    <2>2. daemon.pc \in {"drain", "post"} /\ daemon'.pc \in {"post", "log", "truncate"}
        BY <1>1, <1>9 DEF StartDrain, PostQueuedEvent, DrainEnds, DaemonGoes, DaemonAt
    <2>3. ~DaemonAt("dead") /\ Pending' = Pending
        BY <2>1, <2>2 DEF Pending, DaemonAt
    <2> QED BY <1>6, <2>3
<1>10. CASE TruncateQueue
    <2>0. PICK n \in Nat : n = daemon.n
        BY <1>1
    <2>1. daemon.pc = "truncate" /\ daemon'.pc = "rewrite"
        BY <1>1, <1>10 DEF TruncateQueue, DaemonAt, DaemonGoes
    <2>2. PICK back : back = SubSeq(queue, n + 1, Len(queue))
        OBVIOUS
    <2>3. Pending = queue /\ Pending' = back /\ ~DaemonAt("dead")
        BY <1>10, <2>0, <2>1, <2>2 DEF Pending, DaemonAt, TruncateQueue, Unsent
    <2>4. n <= Len(queue) /\ \A j \in 1 .. n : HasKey(Timeline, queue[j].key)
        BY <1>1, <1>3, <2>0, <2>1 DEF DrainOK
    <2>5. Len(back) = Len(queue) - n /\ \A k \in 1 .. Len(queue) - n : back[k] = queue[n + k]
        BY <1>1, <2>2, <2>4
    <2>6. ASSUME NEW k \in 1 .. Len(back), back[k].stage = "HARDENING",
                 NEW stage \in EvidenceStages
          PROVE  Reported(stage)' \/ Before(back, k, stage)
        <3>1. n + k \in 1 .. Len(queue) /\ queue[n + k].stage = "HARDENING"
            BY <1>1, <2>4, <2>5, <2>6
        <3>2. CASE Reported(stage)
            BY <1>4, <3>2
        <3>3. CASE ~Reported(stage)
            <4>1. PICK j \in 1 .. (n + k) - 1 : queue[j].stage = stage
                BY <1>5, <2>3, <3>1, <3>3 DEF InOrder, Before
            <4>2. CASE j <= n
                <5>1. j \in 1 .. n /\ j \in 1 .. Len(queue)
                    BY <1>1, <2>4, <4>2
                <5>2. queue[j].key = stage
                    BY <1>1, <4>1, <5>1 DEF QueueNames, NamesStage
                <5>3. HasKey(Timeline, stage)
                    BY <2>4, <5>1, <5>2
                <5> QED BY <1>4, <5>3, KeyReports
            <4>3. CASE ~(j <= n)
                <5>1. j - n \in 1 .. k - 1 /\ back[j - n] = queue[j]
                    BY <1>1, <2>4, <2>5, <4>3
                <5> QED BY <4>1, <5>1 DEF Before
            <4> QED BY <4>2, <4>3
        <3> QED BY <3>2, <3>3
    <2> QED BY <2>3, <2>6 DEF InOrder, Before
<1>11. CASE RewriteQueue
    <2>1. daemon.pc = "rewrite" /\ daemon'.pc = "log"
        BY <1>11 DEF RewriteQueue, DaemonAt
    <2>2. Pending' = Pending /\ ~DaemonAt("dead")
        BY <1>11, <2>1 DEF Pending, DaemonAt, RewriteQueue
    <2> QED BY <1>6, <2>2
<1>12. CASE QueueEnds
    BY <1>12 DEF QueueEnds
<1> QED BY <1>7, <1>8, <1>9, <1>10, <1>11, <1>12, StepAtQueue

-----------------------------------------------------------------------------
(***************************************************************************)
(* The invariant.                                                          *)
(***************************************************************************)
LEMMA ReporterStarts ==
    ASSUME ReporterInit
    PROVE  ReporterInv
<1>1. /\ daemon = [pc |-> "start", n |-> 0] /\ rest = <<>> /\ queue = <<>> /\ hook = "started"
      /\ det = [p \in Processes |-> NotDetecting] /\ evidence = {} /\ evidenceTmp = None
      /\ ciphertext = {} /\ offset = 0 /\ logSequence = 0 /\ targetSequence = 0
      /\ syslog = <<>> /\ script \in SyslogRuns /\ boots = 0 /\ unsynced = {} /\ queued = {}
    BY DEF ReporterInit
<1>2. MemoryOK
    <2>1. daemon \in [pc : DaemonPoints, n : Nat] /\ ~DaemonAt("offset")
        BY <1>1 DEF DaemonPoints, DaemonAt
    <2>2. det \in [Processes -> DetType] /\ \A p \in Processes : det[p].file = "none"
        BY <1>1, NotDetectingTyped DEF NotDetecting
    <2>3. queue \in Seq(EventType) /\ rest \in Seq(EventType)
        BY <1>1
    <2>4. SyslogOK
        <3>1. script \in Seq(LogLines) /\ Len(script) \in Nat
            BY <1>1, SyslogAssumption
        <3>2. syslog \in Seq(LogLines) /\ Len(syslog) = 0
            BY <1>1
        <3> QED BY <1>1, <3>1, <3>2 DEF SyslogOK
    <2>5. offset <= Len(syslog)
        BY <1>1
    <2> QED BY <1>1, <2>1, <2>2, <2>3, <2>4, <2>5 DEF MemoryOK, ReporterTypeOK, DetType, HookPoints
<1>3. EventsOK
    <2> DEFINE first == <<ServerEvent("CREATED"), ServerEvent("QUEUED"), ServerEvent("PXE_BOOTED")>>
    <2>1. events = [i \in Installations |-> IF i = installation THEN first ELSE <<>>]
        BY DEF ReporterInit
    <2>2. ASSUME NEW stage \in {"CREATED", "QUEUED", "PXE_BOOTED"}
          PROVE  /\ ServerEvent(stage) \in EventType
                 /\ NamesStage(ServerEvent(stage)) /\ ~Terminal(ServerEvent(stage).stage)
        <3>1. PICK key : key = ServerKey(stage)
            OBVIOUS
        <3>2. key \in Text /\ key \notin EvidenceStages
            BY <3>1, InputAssumption DEF ServerKey, EvidenceStages
        <3>3. PICK e : e = ServerEvent(stage) /\ e.stage = stage /\ e.key = key
            <4>1. PICK e : e = [stage |-> stage, source |-> "server", key |-> key, code |-> "",
                                body |-> "server"]
                OBVIOUS
            <4>2. e = ServerEvent(stage)
                BY <3>1, <4>1 DEF ServerEvent
            <4>3. e.stage = stage /\ e.key = key
                BY <4>1
            <4> QED BY <4>2, <4>3
        <3>4. stage \in Stages /\ "server" \in Sources /\ "" \in Text /\ "server" \in Text
            BY InputAssumption DEF Stages, ServerStages, Sources
        <3>5. e = [stage |-> stage, source |-> "server", key |-> key, code |-> "", body |-> "server"]
            BY <3>1, <3>3 DEF ServerEvent
        <3>6. e \in EventType
            BY <3>2, <3>4, <3>5 DEF EventType
        <3>7. NamesStage(e) /\ ~Terminal(e.stage)
            BY <3>2, <3>3 DEF NamesStage, EvidenceStages, Terminal, TerminalStages
        <3> QED BY <3>3, <3>6, <3>7
    <2>3. first \in Seq(EventType) /\ <<>> \in Seq(EventType)
        BY <2>2
    <2>4. \A k \in 1 .. Len(first) : NamesStage(first[k]) /\ ~Terminal(first[k].stage)
        <3>1. PICK e1 : e1 = ServerEvent("CREATED")
            OBVIOUS
        <3>2. PICK e2 : e2 = ServerEvent("QUEUED")
            OBVIOUS
        <3>3. PICK e3 : e3 = ServerEvent("PXE_BOOTED")
            OBVIOUS
        <3>4. first = <<e1, e2, e3>>
            BY <3>1, <3>2, <3>3
        <3>5. \A k \in 1 .. Len(first) : first[k] \in {e1, e2, e3}
            BY <3>4
        <3> HIDE DEF first
        <3> QED BY <2>2, <3>1, <3>2, <3>3, <3>5
    <2> HIDE DEF first
    <2>5. events \in [Installations -> Seq(EventType)] /\ Timeline = first
        BY <2>1, <2>3, ReporterAssumption DEF Timeline
    <2> QED BY <2>4, <2>5 DEF EventsOK
<1>4. QueueOK
    BY <1>1 DEF QueueOK, QueueNames, DrainOK, NothingLost, DaemonAt
<1>5. EvidenceOK
    <2>1. "hook" \in Processes /\ \A p \in Processes : det[p].pc = "off" /\ det[p].seen = {}
        BY <1>1 DEF NotDetecting, Processes
    <2>2. \A line : ~Noted(line)
        BY <1>1, <2>1 DEF Noted
    <2> QED BY <1>1, <2>1, <2>2 DEF EvidenceOK
<1>6. CredentialOK
    BY <1>1 DEF CredentialOK
<1>7. EvidenceIsNotOvertaken
    BY <1>1 DEF EvidenceIsNotOvertaken, Pending, DaemonAt
<1>8. LogOK
    <2>1. /\ serverLog = <<>> /\ serverLog \in Seq(ChunkType) /\ Len(serverLog) = 0
          /\ hook \notin InstalledSystem /\ installation \in DOMAIN specMachine
        BY <1>1, ReporterAssumption DEF ReporterInit, InstalledSystem
    <2>2. PICK cut : cut = [n \in 0 .. 0 |-> 0]
        OBVIOUS
    <2>3. cut \in [0 .. Len(serverLog) -> 0 .. Len(syslog)] /\ cut[Len(serverLog)] = 0
        BY <1>1, <2>1, <2>2
    <2>4. CutInto(serverLog, syslog, cut)
        BY <2>1, <2>2 DEF CutInto
    <2>5. Uploaded(0)
        BY <1>1, <2>1 DEF Uploaded, DaemonAt
    <2>6. LogCut(cut)
        BY <2>3, <2>4, <2>5 DEF LogCut
    <2> QED BY <2>1, <2>3, <2>6 DEF LogOK
<1> QED BY <1>2, <1>3, <1>4, <1>5, <1>6, <1>7, <1>8 DEF ReporterInv

\* Every step keeps the invariant.
LEMMA ReporterStep ==
    ASSUME ReporterInv, [ReporterNext]_vars
    PROVE  ReporterInv'
<1>1. /\ MemoryOK /\ EventsOK /\ QueueOK /\ EvidenceOK /\ CredentialOK /\ LogOK
      /\ EvidenceIsNotOvertaken
    BY DEF ReporterInv
<1>2. MemoryOK'
    <2>1. CASE UNCHANGED vars
        <3>1. UNCHANGED <<daemon, rest, det, hook, queue, evidence, evidenceTmp, ciphertext, offset,
                          logSequence, targetSequence, syslog, script, boots, unsynced>>
            BY <2>1 DEF vars, fileVars, installerVars
        <3>2. hook \in HookPoints /\ ciphertext \subseteq {"run", "target"}
              /\ targetSequence \in Nat /\ boots \in Nat /\ unsynced \subseteq Nat
            BY <1>1 DEF MemoryOK, ReporterTypeOK
        <3> QED BY <1>1, <3>1, <3>2, HookMemory
    <2> QED BY <1>1, <2>1, DaemonMemory, InstallerMemory, ValidatorMemory DEF ReporterNext
<1>3. EventsOK'
    BY <1>1, StepAtServer, EventsKept
<1>4. QueueOK'
    BY <1>1, QueueKept
<1>5. EvidenceOK'
    BY <1>1, EvidenceKept
<1>6. CredentialOK'
    BY <1>1, CredentialKept
<1>7. EvidenceIsNotOvertaken'
    BY <1>1, <1>2, <1>3, OvertakenKept
<1>8. LogOK'
    BY <1>1, LogKept
<1> QED BY <1>2, <1>3, <1>4, <1>5, <1>6, <1>7, <1>8 DEF ReporterInv

\* The invariant of the reporter against the store, over every step of the
\* daemon, the hooks, the validator and the server: memory and files in their
\* types, a queue whose sent events are stored, evidence queued once noted.
THEOREM ReporterInvariant == ReporterSpec => []ReporterInv
BY ReporterStarts, ReporterStep, PTL DEF ReporterSpec

\* The reporter's memory and its files under /run/aegispxe keep their types;
\* syslog.offset never passes the end of the installer's log.
THEOREM ReporterTyped == ReporterSpec => []ReporterTypeOK
<1>1. ReporterInv => ReporterTypeOK
    BY DEF ReporterInv, MemoryOK
<1> QED BY <1>1, ReporterInvariant, PTL

\* drainEvents: an event leaves the queue only when the server has it,
\* whatever requests and answers are lost.
THEOREM ReporterNoEventIsLost == ReporterSpec => []NoEventIsLost
<1>1. ASSUME ReporterInv PROVE NoEventIsLost
    <2>1. Timeline \in Seq(EventType) /\ Pending \in Seq(EventType)
        BY <1>1, ReporterAssumption DEF ReporterInv, EventsOK, Timeline, MemoryOK, ReporterTypeOK,
           Pending
    <2>2. ASSUME NEW s \in Seq(EventType), NEW key, HasKey(s, key)
          PROVE  \E e \in Range(s) : e.key = key
        <3>1. PICK k \in 1 .. Len(s) : s[k].key = key
            BY <2>2 DEF HasKey
        <3>2. k \in DOMAIN s
            OBVIOUS
        <3> QED BY <3>1, <3>2 DEF Range
    <2>3. \/ DaemonAt("dead") \/ Deleted(installation)
          \/ \A key \in queued : HasKey(Pending, key) \/ HasKey(Timeline, key)
        BY <1>1 DEF ReporterInv, QueueOK, NothingLost
    <2> QED BY <2>1, <2>2, <2>3 DEF NoEventIsLost, Timeline
<1> QED BY <1>1, ReporterInvariant, PTL

\* QueueHookEvent: although daemon and hook look for the evidence at the same
\* time and without a lock, HARDENING never overtakes it.
THEOREM ReporterEvidenceNotOvertaken == ReporterSpec => []EvidenceIsNotOvertaken
<1>1. ReporterInv => EvidenceIsNotOvertaken
    BY DEF ReporterInv
<1> QED BY <1>1, ReporterInvariant, PTL

\* The chunks at the server are the installer's log from its beginning, without
\* gap or repetition: whatever answers are lost, however the log grows between
\* two attempts, and wherever the daemon is killed between its files.
THEOREM ReporterLogIsPrefix == ReporterSpec => []LogIsPrefix
<1>1. ReporterInv => LogIsPrefix
    BY DEF ReporterInv, LogOK, LogCut, LogIsPrefix
<1> QED BY <1>1, ReporterInvariant, PTL

\* RunFirstBoot removes its ciphertext only after a terminal stage is stored,
\* over any number of boots, losses of power and lost answers.
THEOREM ReporterCredentialKept == ReporterSpec => []CredentialKeptUntilFinal
<1>1. ReporterInv => CredentialKeptUntilFinal
    BY DEF ReporterInv, CredentialOK, Final, CredentialKeptUntilFinal
<1> QED BY <1>1, ReporterInvariant, PTL

=============================================================================
