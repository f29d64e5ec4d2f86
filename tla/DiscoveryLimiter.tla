-------------------------- MODULE DiscoveryLimiter --------------------------
(***************************************************************************)
(* The rate limiter in front of discovery, allowDiscovery of               *)
(* internal/httpapi/server.go: a counter per remote address that starts    *)
(* over a window after its first request, and a table of counters that is  *)
(* swept once it is large and takes no new address once it is full.  The   *)
(* table is in memory: it is empty again after a restart of the server.    *)
(***************************************************************************)
EXTENDS Naturals, Sequences, FiniteSets

CONSTANTS
    Clients,                \* remote hosts
    Window,                 \* discoveryWindow, in ticks
    MaxDiscoveryPerWindow,
    SweepAt,                \* table size from which stale counters are dropped
    MaxClients,             \* table size at which a new host is turned away
    MaxTime,                \* bound on the clock
    None

Counters == [started : Nat, count : Nat]

ASSUME LimiterAssumption ==
    /\ None \notin Counters
    /\ Window \in Nat \ {0}
    /\ MaxDiscoveryPerWindow \in Nat \ {0}
    /\ SweepAt \in Nat /\ MaxClients \in Nat \ {0}

VARIABLES
    now,
    clients,   \* the counter of each host, None where the table has no entry
    admitted   \* history: the times at which each host was admitted

vars == <<now, clients, admitted>>

Known(table) == {c \in Clients : table[c] # None}

LimiterInit ==
    /\ now = 0
    /\ clients = [c \in Clients |-> None]
    /\ admitted = [c \in Clients |-> <<>>]

\* Faulty variant: a counter is dropped whatever its age.
Stale_AnyAge(counter) == TRUE

Stale(counter) == now - counter.started >= 2 * Window

\* The table as the sweep leaves it.
Swept ==
    IF Cardinality(Known(clients)) >= SweepAt
    THEN [c \in Clients |-> IF clients[c] # None /\ Stale(clients[c]) THEN None ELSE clients[c]]
    ELSE clients

Full(table) == Cardinality(Known(table)) >= MaxClients

\* The counter of the window the request falls into.
Counter(entry) ==
    IF entry = None \/ now - entry.started >= Window THEN [started |-> now, count |-> 0] ELSE entry

\* A host the full table does not know is turned away; its entry is not made.
TurnAway(c) ==
    /\ Swept[c] = None
    /\ Full(Swept)
    /\ clients' = Swept
    /\ UNCHANGED <<now, admitted>>

Refuse(c) ==
    /\ Swept[c] # None \/ ~Full(Swept)
    /\ Counter(Swept[c]).count >= MaxDiscoveryPerWindow
    /\ clients' = [Swept EXCEPT ![c] = Counter(Swept[c])]
    /\ UNCHANGED <<now, admitted>>

Admit(c) ==
    /\ Swept[c] # None \/ ~Full(Swept)
    /\ Counter(Swept[c]).count < MaxDiscoveryPerWindow
    /\ clients' = [Swept EXCEPT ![c] = [Counter(Swept[c]) EXCEPT !.count = @ + 1]]
    /\ admitted' = [admitted EXCEPT ![c] = Append(@, now)]
    /\ UNCHANGED now

Tick ==
    /\ now < MaxTime
    /\ now' = now + 1
    /\ UNCHANGED <<clients, admitted>>

LimiterNext ==
    \/ \E c \in Clients : TurnAway(c) \/ Refuse(c) \/ Admit(c)
    \/ Tick

LimiterSpec == LimiterInit /\ [][LimiterNext]_vars

(***************************************************************************)
(* The property.                                                           *)
(***************************************************************************)
\* However requests of many hosts, sweeps and window boundaries fall together,
\* the table stays within its limit and no host is admitted more than
\* 2 * MaxDiscoveryPerWindow - 1 times in any stretch of one window's length: of
\* 2 * MaxDiscoveryPerWindow admissions in a row the last comes a window or more
\* after the first.  A counter restarts with a host's request, so a stretch that
\* reaches into two windows misses the first request of the earlier one.
LimiterHolds ==
    /\ Cardinality(Known(clients)) <= MaxClients
    /\ \A c \in Clients : \A k \in DOMAIN admitted[c] :
          LET last == k + 2 * MaxDiscoveryPerWindow - 1
          IN  last <= Len(admitted[c]) => admitted[c][last] - admitted[c][k] >= Window

=============================================================================
