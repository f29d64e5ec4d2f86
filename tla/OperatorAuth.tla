---------------------------- MODULE OperatorAuth ----------------------------
(***************************************************************************)
(* Who may use the operator console: the accounts of                       *)
(* internal/store/operator_users.go, the passkey ceremonies and recovery   *)
(* tickets of internal/operatorpasskey, the sessions and the recovery key  *)
(* of internal/operator, and the handlers of internal/operatorui that tie  *)
(* them together.  Accounts and passkeys are in the database; everything   *)
(* else is in memory, behind a mutex per table.  A handler takes several   *)
(* of these steps, and other requests run between any two of them.         *)
(*                                                                         *)
(* WebAuthn itself is external: an answer to a ceremony verifies or not.   *)
(***************************************************************************)
EXTENDS Naturals, FiniteSets

CONSTANTS
    Users,             \* identities the trusted proxy vouches for
    Requests,          \* requests in flight (bound: its size)
    Flows,             \* tokens of passkey ceremonies (bound: its size)
    Tickets,           \* recovery tickets (bound: its size)
    Sessions,          \* session tokens (bound: its size)
    MaxLoginAttempts,  \* recovery keys tried per window, from one address
    MaxActiveSessions,
    MaxActiveFlows,    \* passkey ceremonies under way at once
    None

ASSUME AuthAssumption ==
    /\ Flows \cap Tickets = {}
    /\ None \notin Users \cup Flows \cup Tickets \cup Sessions
    /\ MaxLoginAttempts \in Nat
    /\ MaxActiveSessions \in Nat
    /\ MaxActiveFlows \in Nat

Statuses == {"none", "pending_review", "enrollment_required", "active", "blocked"}
Roles == {"", "operator", "admin"}
Modes == {"login", "enrollment", "recovery"}

\* A token is handed out once and ends for good: used, expired or forgotten.
TokenStates == {"unused", "live", "ended"}

VARIABLES
    status, role,  \* operator_users
    passkey,       \* the users with a row in operator_credentials
    flow,          \* Service.flows
    ticket,        \* recoveryTickets
    session,       \* Manager.sessions
    attempts,      \* Manager.attempts of one remote address
    req,           \* the handler of each request: where it is, what it has read
    claims         \* history: initial-administrator claims

accountVars == <<status, role, passkey>>
tokenVars == <<flow, ticket, session>>
vars == <<accountVars, tokenVars, attempts, req, claims>>

\* "by" is the token that opened a session or earned a ticket.
FlowType == [state : TokenStates, user : Users \cup {None}, mode : Modes \cup {None}]
TicketType == [state : TokenStates, user : Users \cup {None}, by : Flows \cup {None}]
SessionType == [state : TokenStates, user : Users \cup {None}, role : Roles,
                by : Flows \cup Tickets \cup {None}]

Points == {"idle", "key", "claim", "take", "save", "reload", "issue", "earn", "redeem",
           "revalidate", "act"}

Idle == [pc |-> "idle", op |-> "none", user |-> None, status |-> "none", role |-> "",
         token |-> None, session |-> None]

RequestType ==
    [pc : Points, op : Modes \cup {"none", "bootstrap", "emergency", "action"},
     user : Users \cup {None}, status : Statuses, role : Roles,
     token : Flows \cup Tickets \cup {None}, session : Sessions \cup {None}]

LiveSessions == {s \in Sessions : session[s].state = "live"}
LiveFlows == {f \in Flows : flow[f].state = "live"}

\* The shape of accounts, tokens and handlers; no address tries more recovery
\* keys in a window than VerifyRecoveryKey allows, and ceremonies and sessions
\* stay within the limits of saveFlow and issueSession however many requests
\* begin or finish a login at the same time.
AuthTypeOK ==
    /\ status \in [Users -> Statuses]
    /\ role \in [Users -> Roles]
    /\ passkey \subseteq Users
    /\ flow \in [Flows -> FlowType]
    /\ ticket \in [Tickets -> TicketType]
    /\ session \in [Sessions -> SessionType]
    /\ attempts \in 0 .. MaxLoginAttempts
    /\ Cardinality(LiveFlows) <= MaxActiveFlows
    /\ Cardinality(LiveSessions) <= MaxActiveSessions
    /\ req \in [Requests -> RequestType]
    /\ claims \in Nat

AuthInit ==
    /\ status = [u \in Users |-> "none"]
    /\ role = [u \in Users |-> ""]
    /\ passkey = {}
    /\ flow = [f \in Flows |-> [state |-> "unused", user |-> None, mode |-> None]]
    /\ ticket = [t \in Tickets |-> [state |-> "unused", user |-> None, by |-> None]]
    /\ session = [s \in Sessions |-> [state |-> "unused", user |-> None, role |-> "", by |-> None]]
    /\ attempts = 0
    /\ req = [r \in Requests |-> Idle]
    /\ claims = 0

At(r, pc) == req[r].pc = pc
Goes(r, pc) == req' = [req EXCEPT ![r].pc = pc]
Done(r) == req' = [req EXCEPT ![r] = Idle]
Reject(r) == Done(r) /\ UNCHANGED <<accountVars, tokenVars, attempts, claims>>

(***************************************************************************)
(* Accounts: each operator is one transaction.                             *)
(***************************************************************************)
Admins == {u \in Users : role[u] = "admin" /\ status[u] # "blocked"}

\* An unknown identity is recorded, whatever the request was for.
Resolved(u) == [status EXCEPT ![u] = IF @ = "none" THEN "pending_review" ELSE @]

Visit(u) ==
    /\ status[u] = "none"
    /\ status' = Resolved(u)
    /\ UNCHANGED <<role, passkey, tokenVars, attempts, req, claims>>

\* Faulty variant: the claim relies on the administrators seen on entry.
MayClaim_Unchecked(u) == status[u] = "pending_review"

MayClaim(u) == Admins = {} /\ status[u] = "pending_review"

ClaimInitialAdmin(u) ==
    /\ MayClaim(u)
    /\ role' = [role EXCEPT ![u] = "admin"]
    /\ status' = [status EXCEPT ![u] = "enrollment_required"]
    /\ claims' = claims + 1
    /\ UNCHANGED passkey

ApproveOperatorUser(u, as) ==
    /\ status[u] = "pending_review"
    /\ role' = [role EXCEPT ![u] = as]
    /\ status' = [status EXCEPT ![u] = "enrollment_required"]
    /\ UNCHANGED passkey

\* Faulty variant: off by one.
MayBlock_Last(u) == u \in Admins => Cardinality(Admins) > 0

MayBlock(u) == u \in Admins => Cardinality(Admins) > 1

BlockOperatorUser(u) ==
    /\ status[u] # "none"
    /\ MayBlock(u)
    /\ status' = [status EXCEPT ![u] = "blocked"]
    /\ UNCHANGED <<role, passkey>>

\* Faulty variant: the status the handler has read is good enough.
MayEnrol_Stale(u) == TRUE

MayEnrol(u) == status[u] = "enrollment_required"

SaveOperatorCredential(u, enrollment) ==
    /\ enrollment => MayEnrol(u)
    /\ passkey' = passkey \cup {u}
    /\ status' = IF enrollment THEN [status EXCEPT ![u] = "active"] ELSE status
    /\ UNCHANGED role

(***************************************************************************)
(* The recovery key, for the first administrator and for emergencies.      *)
(***************************************************************************)
StartBootstrap(r, u) ==
    /\ At(r, "idle")
    /\ status' = Resolved(u)
    /\ status'[u] = "pending_review"
    /\ req' = [req EXCEPT ![r] = [Idle EXCEPT !.pc = "key", !.op = "bootstrap", !.user = u]]
    /\ UNCHANGED <<role, passkey, tokenVars, attempts, claims>>

MayTry == attempts < MaxLoginAttempts

VerifyRecoveryKey(r) ==
    /\ At(r, "key")
    /\ \/ /\ MayTry
          /\ \/ /\ attempts' = 0
                /\ Goes(r, IF req[r].op = "bootstrap" THEN "claim" ELSE "redeem")
             \/ /\ attempts' = attempts + 1
                /\ Done(r)
          /\ UNCHANGED <<accountVars, tokenVars, claims>>
       \/ ~MayTry /\ Reject(r)

\* The login window of the address ends.
WindowEnds ==
    /\ attempts > 0
    /\ attempts' = 0
    /\ UNCHANGED <<accountVars, tokenVars, req, claims>>

Claim(r) ==
    /\ At(r, "claim")
    /\ \/ /\ ClaimInitialAdmin(req[r].user)
          /\ Done(r)
          /\ UNCHANGED <<tokenVars, attempts>>
       \/ ~MayClaim(req[r].user) /\ Reject(r)

(***************************************************************************)
(* Passkey ceremonies.  Beginning one only reads before it saves the flow. *)
(***************************************************************************)
Required(mode) == IF mode = "enrollment" THEN "enrollment_required" ELSE "active"

\* Expired ceremonies are dropped before they are counted.
MayBegin == Cardinality(LiveFlows) < MaxActiveFlows

Begin(u, mode, f) ==
    /\ MayBegin
    /\ status[u] = Required(mode)
    /\ mode # "enrollment" => u \in passkey
    /\ flow[f].state = "unused"
    /\ flow' = [flow EXCEPT ![f] = [state |-> "live", user |-> u, mode |-> mode]]
    /\ UNCHANGED <<accountVars, ticket, session, attempts, req, claims>>

\* The handler keeps the account it has read until it issues the session.
StartFinish(r, u, mode, f) ==
    /\ At(r, "idle")
    /\ flow[f].state # "unused"
    /\ status[u] = Required(mode)
    /\ mode # "enrollment" => u \in passkey
    /\ req' = [req EXCEPT ![r] = [Idle EXCEPT !.pc = "take", !.op = mode, !.user = u,
                                    !.status = status[u], !.role = role[u], !.token = f]]
    /\ UNCHANGED <<accountVars, tokenVars, attempts, claims>>

\* Faulty variants: the flow stays; the mode is not compared.
Spent_Kept(f) == flow
FlowFits_AnyMode(r) ==
    LET f == flow[req[r].token] IN f.state = "live" /\ f.user = req[r].user

\* delete(s.flows, digest) comes before every check.
Spent(f) == [flow EXCEPT ![f].state = "ended"]

FlowFits(r) ==
    LET f == flow[req[r].token] IN
    f.state = "live" /\ f.user = req[r].user /\ f.mode = req[r].op

\* An answer that does not verify ends the ceremony like a wrong token.
TakeFlow(r) ==
    /\ At(r, "take")
    /\ flow' = Spent(req[r].token)
    /\ (FlowFits(r) /\ Goes(r, "save")) \/ Done(r)
    /\ UNCHANGED <<accountVars, ticket, session, attempts, claims>>

SaveCredential(r) ==
    /\ At(r, "save")
    /\ LET enrollment == req[r].op = "enrollment" IN
       \/ /\ SaveOperatorCredential(req[r].user, enrollment)
          /\ Goes(r, IF enrollment THEN "reload"
                     ELSE IF req[r].op = "login" THEN "issue" ELSE "earn")
          /\ UNCHANGED <<tokenVars, attempts, claims>>
       \/ enrollment /\ ~MayEnrol(req[r].user) /\ Reject(r)

Reload(r) ==
    /\ At(r, "reload")
    /\ req' = [req EXCEPT ![r].pc = "issue", ![r].status = status[req[r].user],
                          ![r].role = role[req[r].user]]
    /\ UNCHANGED <<accountVars, tokenVars, attempts, claims>>

(***************************************************************************)
(* Emergency access: a recovery ceremony earns a ticket, ticket and key    *)
(* together a session.                                                     *)
(***************************************************************************)
IssueRecoveryTicket(r) ==
    /\ At(r, "earn")
    /\ \/ \E t \in Tickets :
            /\ ticket[t].state = "unused"
            /\ ticket' = [ticket EXCEPT ![t] =
                    [state |-> "live", user |-> req[r].user, by |-> req[r].token]]
            /\ Done(r)
            /\ UNCHANGED <<accountVars, flow, session, attempts, claims>>
       \/ Reject(r)

StartRecoveryLogin(r, u, t) ==
    /\ At(r, "idle")
    /\ ticket[t].state # "unused"
    /\ status[u] = "active"
    /\ req' = [req EXCEPT ![r] = [Idle EXCEPT !.pc = "key", !.op = "emergency", !.user = u,
                                    !.status = status[u], !.role = role[u], !.token = t]]
    /\ UNCHANGED <<accountVars, tokenVars, attempts, claims>>

ConsumeRecoveryTicket(r) ==
    /\ At(r, "redeem")
    /\ LET t == req[r].token IN
        /\ ticket' = [ticket EXCEPT ![t].state = "ended"]
        /\ IF ticket[t].state = "live" /\ ticket[t].user = req[r].user
           THEN Goes(r, "issue") ELSE Done(r)
    /\ UNCHANGED <<accountVars, flow, session, attempts, claims>>

(***************************************************************************)
(* Sessions.                                                               *)
(***************************************************************************)
\* Faulty variant: off by one.
MayIssue_Late == Cardinality(LiveSessions) <= MaxActiveSessions

\* Expired sessions are dropped before they are counted.
MayIssue == Cardinality(LiveSessions) < MaxActiveSessions

\* Refused at the limit, or when the account as read is not active: the ceremony
\* that led here is spent all the same.
IssueUserSession(r) ==
    /\ At(r, "issue")
    /\ \/ \E s \in Sessions :
            /\ session[s].state = "unused"
            /\ req[r].status = "active" /\ req[r].role # ""
            /\ MayIssue
            /\ session' = [session EXCEPT ![s] =
                    [state |-> "live", user |-> req[r].user, role |-> req[r].role,
                     by |-> req[r].token]]
            /\ Done(r)
            /\ UNCHANGED <<accountVars, flow, ticket, attempts, claims>>
       \/ Reject(r)

Ended(s) == [session EXCEPT ![s].state = "ended"]

\* Logout, or the end of its lifetime.
EndSession(s) ==
    /\ session[s].state = "live"
    /\ session' = Ended(s)
    /\ UNCHANGED <<accountVars, flow, ticket, attempts, req, claims>>

StartAction(r, s) ==
    /\ At(r, "idle")
    /\ session[s].state = "live"
    /\ req' = [req EXCEPT ![r] = [Idle EXCEPT !.pc = "revalidate", !.op = "action",
                                    !.user = session[s].user, !.role = session[s].role,
                                    !.session = s]]
    /\ UNCHANGED <<accountVars, tokenVars, attempts, claims>>

\* Faulty variant: the status is not read again.
StillValid_Role(r) == role[req[r].user] = req[r].role

StillValid(r) == status[req[r].user] = "active" /\ role[req[r].user] = req[r].role

Revalidate(r) ==
    /\ At(r, "revalidate")
    /\ IF StillValid(r)
       THEN /\ IF req[r].role = "admin" THEN Goes(r, "act") ELSE Done(r)
            /\ UNCHANGED session
       ELSE /\ session' = Ended(req[r].session)
            /\ Done(r)
    /\ UNCHANGED <<accountVars, flow, ticket, attempts, claims>>

\* The administrator's operations on accounts; a refused one changes nothing.
Act(r) ==
    /\ At(r, "act")
    /\ \/ /\ \E u \in Users :
                \/ \E as \in Roles \ {""} : ApproveOperatorUser(u, as)
                \/ BlockOperatorUser(u)
          /\ Done(r)
          /\ UNCHANGED <<tokenVars, attempts, claims>>
       \/ Reject(r)

ExpireToken ==
    /\ \/ \E f \in Flows : /\ flow[f].state = "live"
                           /\ flow' = [flow EXCEPT ![f].state = "ended"]
                           /\ UNCHANGED ticket
       \/ \E t \in Tickets : /\ ticket[t].state = "live"
                             /\ ticket' = [ticket EXCEPT ![t].state = "ended"]
                             /\ UNCHANGED flow
    /\ UNCHANGED <<accountVars, session, attempts, req, claims>>

\* The server restarts: only the database is left.
End(tokens) ==
    [x \in DOMAIN tokens |-> IF tokens[x].state = "live"
                             THEN [tokens[x] EXCEPT !.state = "ended"] ELSE tokens[x]]

Restart ==
    /\ flow' = End(flow) /\ ticket' = End(ticket) /\ session' = End(session)
    /\ attempts' = 0
    /\ req' = [r \in Requests |-> Idle]
    /\ UNCHANGED <<accountVars, claims>>

Arrive(r) ==
    \/ \E u \in Users :
          \/ StartBootstrap(r, u)
          \/ \E f \in Flows, mode \in Modes : StartFinish(r, u, mode, f)
          \/ \E t \in Tickets : StartRecoveryLogin(r, u, t)
    \/ \E s \in Sessions : StartAction(r, s)

Handle(r) ==
    \/ VerifyRecoveryKey(r) \/ Claim(r) \/ TakeFlow(r) \/ SaveCredential(r) \/ Reload(r)
    \/ IssueRecoveryTicket(r) \/ ConsumeRecoveryTicket(r) \/ IssueUserSession(r)
    \/ Revalidate(r) \/ Act(r)

AuthNext ==
    \/ \E r \in Requests : Arrive(r) \/ Handle(r)
    \/ \E u \in Users : Visit(u) \/ \E mode \in Modes, f \in Flows : Begin(u, mode, f)
    \/ \E s \in Sessions : EndSession(s)
    \/ ExpireToken \/ WindowEnds \/ Restart

AuthSpec == AuthInit /\ [][AuthNext]_vars

(***************************************************************************)
(* Properties.                                                             *)
(***************************************************************************)
\* The console never loses its last administrator, not even when two block
\* each other at once, each of them already let in (BlockOperatorUser).
AdminRemains == [][Admins # {} => Admins' # {}]_vars

\* The recovery key makes one administrator, however many pending identities
\* prove it at the same time (ClaimInitialAdmin counts in its transaction).
OneInitialClaim == claims <= 1

\* Blocking is final, also for an enrolment or a login already under way.
BlockedStaysBlocked ==
    [][\A u \in Users : status[u] = "blocked" => status'[u] = "blocked"]_vars

\* Blocking takes effect with the next request: the sessions, ceremonies and
\* tickets that outlive it, or are issued after it on an account read before it,
\* let a blocked user in nowhere.
BlockedIsLetInNowhere ==
    [][\A r \in Requests :
          req[r].pc \in {"idle", "revalidate"} /\ req'[r].pc \notin {"idle", "revalidate"} =>
              status'[req'[r].user] # "blocked"]_vars

\* One ceremony, one session: whatever requests present the same token at the
\* same time, it opens at most one session or earns at most one ticket.
OneSessionPerToken ==
    /\ \A s, t \in Sessions : session[s].by = session[t].by /\ session[s].by # None => s = t
    /\ \A s, t \in Tickets : ticket[s].by = ticket[t].by /\ ticket[s].by # None => s = t

\* A session was earned by its own user: with a ceremony begun for a login or
\* an enrolment, or with a ticket from a recovery ceremony, never across modes;
\* the user has a passkey and the role the session says.
SessionsAreEarned ==
    \A s \in Sessions : session[s].state # "unused" =>
        LET u == session[s].user
            by == session[s].by
        IN  /\ u \in passkey /\ role[u] = session[s].role
            /\ \/ by \in Flows /\ flow[by].user = u /\ flow[by].mode \in {"login", "enrollment"}
               \/ /\ by \in Tickets /\ ticket[by].user = u
                  /\ flow[ticket[by].by].user = u /\ flow[ticket[by].by].mode = "recovery"

=============================================================================
