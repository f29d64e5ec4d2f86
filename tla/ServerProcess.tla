--------------------------- MODULE ServerProcess ---------------------------
(***************************************************************************)
(* The server as a process, cmd/aegispxe-server/main.go: it starts through *)
(* a row of checks (Secure Boot assets, database schema, recovery key,     *)
(* console configuration), serves the boot network and the console on two  *)
(* listeners, and stops on a signal or when a listener fails.  Around it   *)
(* run the handlers and store transactions of Provisioning, each behind    *)
(* the listener that reaches it.                                           *)
(*                                                                         *)
(* The process may be killed and the host may lose power at any time.  The *)
(* database survives both; a file survives a kill, and a power loss only   *)
(* once it is synced.                                                      *)
(***************************************************************************)
EXTENDS Provisioning

CONSTANTS
    RecoveryKeys,    \* keys GenerateKey may return (bound: its size)
    SchemaVersions,  \* versions of the database a first start may find; 0: no database
    CurrentSchema

ASSUME ProcessAssumption ==
    /\ CurrentSchema \in Nat
    /\ SchemaVersions \subseteq Nat
    /\ RecoveryKeys \cap {None, "absent", "unusable"} = {}

VARIABLES
    proc,       \* the process: where main is and what it holds
    listener,   \* the two HTTP servers
    keyFile,    \* AEGISPXE_OPERATOR_KEY: contents and whether they are synced
    schema,     \* schema_meta.version
    announced   \* history: keys reported as created

processVars == <<proc, listener, keyFile, schema, announced>>
serverVars == <<vars, processVars>>

Listeners == {"pxe", "studio"}

Down == [pc |-> "down", key |-> None, signal |-> FALSE, late |-> FALSE]

ProcessType ==
    [pc : {"down", "assets", "store", "key", "write", "sync", "config", "serve", "drain_pxe",
           "drain_studio"},
     key : RecoveryKeys \cup {None}, signal : BOOLEAN, late : BOOLEAN]

Absent == [content |-> "absent", synced |-> TRUE]
Unusable == [content |-> "unusable", synced |-> FALSE]

\* The shape of the process, its listeners and the files it finds: main holds a
\* key from the moment it goes on to the console's configuration, and nothing
\* listens before that or when the process is down.
ProcessTypeOK ==
    /\ proc \in ProcessType
    /\ listener \in [Listeners -> {"closed", "open", "failed"}]
    /\ keyFile \in [content : RecoveryKeys \cup {"absent", "unusable"}, synced : BOOLEAN]
    /\ schema \in Nat
    /\ announced \subseteq RecoveryKeys
    /\ proc.pc \in {"config", "serve", "drain_pxe", "drain_studio"} <=> proc.key # None
    /\ (\E l \in Listeners : listener[l] # "closed") => proc.pc \in {"serve", "drain_pxe"}

ProcessInit ==
    /\ ProvisioningInit
    /\ proc = Down
    /\ listener = [l \in Listeners |-> "closed"]
    /\ keyFile = Absent
    /\ schema \in SchemaVersions
    /\ announced = {}

(***************************************************************************)
(* Moving main along.  Only the end of the process touches requests.       *)
(***************************************************************************)
Goes(pc) == proc' = [proc EXCEPT !.pc = pc]

\* Handlers and listeners end with the process; what it stored does not.
Exit ==
    /\ proc' = Down
    /\ listener' = [l \in Listeners |-> "closed"]
    /\ req' = [r \in Requests |-> Idle]
    /\ UNCHANGED <<storeVars, handoffs>>

(***************************************************************************)
(* Start-up.                                                               *)
(***************************************************************************)
Launch ==
    /\ proc.pc = "down"
    /\ Goes("assets")
    /\ UNCHANGED <<vars, listener, keyFile, schema, announced>>

\* Where Secure Boot is required, invalid assets end the start; under another
\* policy the server goes on without them.
ValidateAssets ==
    /\ proc.pc = "assets"
    /\ \E assetsValid \in BOOLEAN :
        IF assetsValid \/ SecureBootPolicy # "required"
        THEN Goes("store") /\ UNCHANGED <<vars, listener>>
        ELSE Exit
    /\ UNCHANGED <<keyFile, schema, announced>>

\* One transaction creates or migrates the tables and sets the version, or
\* refuses a database of a newer release and leaves it alone.
Supported(version) == version <= CurrentSchema

OpenStore ==
    /\ proc.pc = "store"
    /\ \/ /\ Supported(schema)
          /\ schema' = CurrentSchema
          /\ Goes("key")
          /\ UNCHANGED <<vars, listener>>
       \/ Exit /\ UNCHANGED schema
    /\ UNCHANGED <<keyFile, announced>>

\* A file that holds no key, as an interrupted creation leaves it, is refused.
LoadKey ==
    /\ proc.pc = "key"
    /\ keyFile # Absent
    /\ \/ /\ keyFile.content \in RecoveryKeys
          /\ proc' = [proc EXCEPT !.pc = "config", !.key = keyFile.content]
          /\ UNCHANGED <<vars, listener>>
       \/ Exit
    /\ UNCHANGED <<keyFile, schema, announced>>

\* O_EXCL: the file exists, and is empty, from here on.
CreateKey ==
    /\ proc.pc = "key"
    /\ keyFile = Absent
    /\ \/ /\ keyFile' = Unusable
          /\ Goes("write")
          /\ UNCHANGED <<vars, listener>>
       \/ Exit /\ UNCHANGED keyFile
    /\ UNCHANGED <<schema, announced>>

\* An error after the creation removes the file again.
RemoveKey == keyFile' = Absent /\ Exit /\ UNCHANGED announced

WriteKey ==
    /\ proc.pc = "write"
    /\ \/ /\ \E k \in RecoveryKeys \ announced : keyFile' = [content |-> k, synced |-> FALSE]
          /\ Goes("sync")
          /\ UNCHANGED <<vars, listener, announced>>
       \/ RemoveKey
    /\ UNCHANGED schema

\* Faulty variant: the new file is not synced.
Synced_Later == keyFile

Synced == [keyFile EXCEPT !.synced = TRUE]

SyncKey ==
    /\ proc.pc = "sync"
    /\ \/ /\ keyFile' = Synced
          /\ announced' = announced \cup {keyFile.content}
          /\ proc' = [proc EXCEPT !.pc = "config", !.key = keyFile.content]
          /\ UNCHANGED <<vars, listener>>
       \/ RemoveKey
    /\ UNCHANGED schema

ValidateStudioListen(address, proxy) ==
    address = "loopback" \/ (address = "routable" /\ proxy)

\* Passkey and proxy settings may be refused, the console may be disabled.
Configure ==
    /\ proc.pc = "config"
    /\ \/ \E address \in {"loopback", "routable", "malformed", "disabled"}, proxy \in BOOLEAN :
            /\ address # "disabled" => ValidateStudioListen(address, proxy)
            /\ listener' = [l \in Listeners |->
                               IF l = "studio" /\ address = "disabled" THEN "closed" ELSE "open"]
            /\ Goes("serve")
            /\ UNCHANGED vars
       \/ Exit
    /\ UNCHANGED <<keyFile, schema, announced>>

(***************************************************************************)
(* Serving and stopping.                                                   *)
(***************************************************************************)
\* ListenAndServe returns at once, the address being taken, or at any time later.
Fail(l) ==
    /\ listener[l] = "open"
    /\ listener' = [listener EXCEPT ![l] = "failed"]
    /\ UNCHANGED <<vars, proc, keyFile, schema, announced>>

\* A second signal, while main shuts down, is not looked at.
Signal ==
    /\ proc.pc \notin {"down", "drain_pxe", "drain_studio"}
    /\ proc' = [proc EXCEPT !.signal = TRUE]
    /\ UNCHANGED <<vars, listener, keyFile, schema, announced>>

\* Faulty variant: only a signal ends the wait.
Woken_BySignal == proc.signal

Woken == proc.signal \/ \E l \in Listeners : listener[l] = "failed"

\* Shutdown closes the listener at once and then waits for its requests; the
\* console is shut down after the boot network, under the same deadline.
BeginShutdown ==
    /\ proc.pc = "serve"
    /\ Woken
    /\ listener' = [listener EXCEPT !["pxe"] = "closed"]
    /\ proc' = [proc EXCEPT !.pc = "drain_pxe", !.signal = FALSE]
    /\ UNCHANGED <<vars, keyFile, schema, announced>>

Pending(l) == {r \in Requests : ~At(r, "idle") /\ (l = "studio" <=> req[r].op = "create")}

\* Faulty variant: the console goes on accepting while it is drained.
DrainPXE_KeepsConsole ==
    /\ proc.pc = "drain_pxe"
    /\ Pending("pxe") = {} \/ proc.late
    /\ Goes("drain_studio")
    /\ UNCHANGED <<vars, listener, keyFile, schema, announced>>

\* Faulty variant: nobody waits for the requests.
DrainPXE_AtOnce ==
    /\ proc.pc = "drain_pxe"
    /\ listener' = [listener EXCEPT !["studio"] = "closed"]
    /\ Goes("drain_studio")
    /\ UNCHANGED <<vars, keyFile, schema, announced>>

DrainPXE ==
    /\ proc.pc = "drain_pxe"
    /\ Pending("pxe") = {} \/ proc.late
    /\ listener' = [listener EXCEPT !["studio"] = "closed"]
    /\ Goes("drain_studio")
    /\ UNCHANGED <<vars, keyFile, schema, announced>>

DrainStudio ==
    /\ proc.pc = "drain_studio"
    /\ Pending("studio") = {} \/ proc.late
    /\ Exit
    /\ UNCHANGED <<keyFile, schema, announced>>

\* The ten seconds are over.
Deadline ==
    /\ proc.pc \in {"drain_pxe", "drain_studio"}
    /\ proc' = [proc EXCEPT !.late = TRUE]
    /\ UNCHANGED <<vars, listener, keyFile, schema, announced>>

Kill ==
    /\ proc.pc # "down"
    /\ Exit
    /\ UNCHANGED <<keyFile, schema, announced>>

\* What was not synced may be there afterwards, in part, or not at all.
PowerLoss ==
    /\ keyFile' \in IF keyFile.synced THEN {keyFile}
                    ELSE {[keyFile EXCEPT !.synced = TRUE], [Unusable EXCEPT !.synced = TRUE], Absent}
    /\ Exit
    /\ UNCHANGED <<schema, announced>>

(***************************************************************************)
(* Requests reach handlers through a listener, each of which answers 404   *)
(* outside its own surface.  Nothing serves /api/v1/installations/.        *)
(***************************************************************************)
\* Faulty variant: the boot network serves all of the API.
Surface_WholeAPI(l) == IF l = "pxe" THEN {"boot", "discovery", "installations"} ELSE {"ui"}

Surface(l) == IF l = "pxe" THEN {"boot", "discovery"} ELSE {"ui"}

Exposed == UNION {Surface(l) : l \in {x \in Listeners : listener[x] = "open"}}

Work ==
    /\ (\E r \in Requests : Arrive(r, Exposed)) \/ StoreStep(Exposed)
    /\ UNCHANGED processVars

Serve(r) == Handle(r) /\ UNCHANGED processVars

StartUp == ValidateAssets \/ OpenStore \/ LoadKey \/ CreateKey \/ WriteKey \/ SyncKey \/ Configure
Stop == BeginShutdown \/ DrainPXE \/ DrainStudio

ProcessNext ==
    \/ Launch \/ StartUp \/ Stop
    \/ \E l \in Listeners : Fail(l)
    \/ Signal \/ Deadline \/ Kill \/ PowerLoss
    \/ Work
    \/ \E r \in Requests : Serve(r)

\* The process runs: main goes on, each request has a goroutine of its own, and
\* the timer fires.  Nothing is owed by clients, operators or service manager.
ProcessSpec ==
    /\ ProcessInit
    /\ [][ProcessNext]_serverVars
    /\ WF_serverVars(StartUp) /\ WF_serverVars(Stop) /\ WF_serverVars(Deadline)
    /\ \A r \in Requests : WF_serverVars(Serve(r))

(***************************************************************************)
(* Properties.                                                             *)
(***************************************************************************)
\* TESTING.md: "PXE/Studio listener allowlists do not expose the dormant reporter
\* runtime as a completed production feature".  Whatever the boot network asks
\* for and the operators do, across shutdowns, kills and restarts, no credential
\* is handed out and no installation goes past PXE_BOOTED (pxeSurface,
\* studioSurface).
ReporterIsDormant ==
    \A i \in Installations :
        /\ credential[i] = "none"
        /\ events[i] # <<>> => CurrentStage(i) \in ServerStages

\* A stop that is not cut short drops no boot request: when main turns to the
\* console within the ten seconds, what the boot network had asked for has been
\* answered and nothing more comes in.
BootRequestsDrained ==
    proc.pc = "drain_studio" /\ ~proc.late => Pending("pxe") = {}

\* A recovery key that was reported as created is the recovery key from then on:
\* it is on disk and synced, and no later start, whatever was killed or lost
\* power before, creates another or serves the console with another.
CreatedKeyIsKept ==
    announced # {} =>
        /\ keyFile.synced /\ announced = {keyFile.content}
        /\ proc.key # None => proc.key = keyFile.content

\* The server stops as a whole: when it is told to or one of its listeners is
\* gone it comes to its end, requests or no requests, and never goes on with
\* half of its surfaces.
StopsWhole ==
    (proc.signal \/ \E l \in Listeners : listener[l] = "failed") ~> proc.pc = "down"

=============================================================================
