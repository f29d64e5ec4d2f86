------------------------- MODULE OperatorAuthProofs -------------------------
(***************************************************************************)
(* Who may use the console, for any number of identities, requests and     *)
(* tokens.  The runs' properties are about accounts and sessions; what     *)
(* makes them inductive is what a handler holds between two of its steps:  *)
(* an account it has read, and a token that nobody else can present again. *)
(***************************************************************************)
EXTENDS OperatorAuth, FiniteSetTheorems, TLAPS

(***************************************************************************)
(* The invariant.                                                          *)
(***************************************************************************)
\* Approval is behind the account: its role does not change any more.
Settled(u) == status[u] \in {"enrollment_required", "active", "blocked"}

\* No role before approval, and a claim has left an administrator.
AccountsOK ==
    /\ \A u \in Users : ~Settled(u) => role[u] = ""
    /\ claims <= 1
    /\ claims > 0 => Admins # {}

TokenEnded(x) == IF x \in Flows THEN flow[x].state = "ended" ELSE ticket[x].state = "ended"

\* A ticket names the recovery ceremony that earned it.
TicketOK(t) ==
    IF ticket[t].state = "unused" THEN ticket[t].by = None
    ELSE /\ ticket[t].user \in passkey
         /\ ticket[t].by \in Flows
         /\ flow[ticket[t].by] = [state |-> "ended", user |-> ticket[t].user, mode |-> "recovery"]

\* What entitles user u to a session.
Entitles(x, u) ==
    \/ x \in Flows /\ flow[x].user = u /\ flow[x].mode \in {"login", "enrollment"}
    \/ x \in Tickets /\ ticket[x].user = u

SessionOK(s) ==
    IF session[s].state = "unused" THEN session[s].by = None
    ELSE /\ session[s].user \in passkey
         /\ Settled(session[s].user)
         /\ role[session[s].user] = session[s].role
         /\ TokenEnded(session[s].by)
         /\ Entitles(session[s].by, session[s].user)

\* The account as the handler has read it.
Known(q) == q.user \in Users /\ Settled(q.user) /\ role[q.user] = q.role

\* A handler past the flow it has taken, or the ticket it has redeemed.
Holding == {"save", "reload", "issue", "earn"}

HoldsFlow(q) ==
    /\ q.token \in Flows
    /\ flow[q.token] = [state |-> "ended", user |-> q.user, mode |-> q.op]

RequestOK(r) ==
    LET q == req[r] IN
    /\ q.pc = "claim" => q.user \in Users
    /\ q.pc = "key" => \/ q.op = "bootstrap" /\ q.user \in Users
                       \/ /\ q.op = "emergency" /\ Known(q)
                          /\ q.token \in Tickets /\ ticket[q.token].state # "unused"
    /\ q.pc = "redeem" => Known(q) /\ q.token \in Tickets /\ ticket[q.token].state # "unused"
    /\ q.pc = "take" => Known(q) /\ q.op \in Modes /\ q.token \in Flows
                        /\ flow[q.token].state # "unused"
    /\ q.pc \in Holding => Known(q)
    /\ q.pc = "save" => HoldsFlow(q) /\ q.op \in Modes
    /\ q.pc = "reload" => HoldsFlow(q) /\ q.op = "enrollment" /\ q.user \in passkey
    /\ q.pc = "earn" => HoldsFlow(q) /\ q.op = "recovery" /\ q.user \in passkey
    /\ q.pc = "issue" => TokenEnded(q.token) /\ Entitles(q.token, q.user) /\ q.user \in passkey
    /\ q.pc = "revalidate" => q.session \in Sessions /\ session[q.session].state # "unused"

\* A token that has ended has one heir at most: a handler, a session or a ticket.
OneHeir ==
    /\ \A r, q \in Requests :
          /\ req[r].pc \in Holding /\ req[q].pc \in Holding
          /\ req[r].token = req[q].token
          => r = q
    /\ \A r \in Requests : req[r].pc \in Holding =>
          /\ \A s \in Sessions : session[s].by # req[r].token
          /\ \A t \in Tickets : ticket[t].by # req[r].token
    /\ OneSessionPerToken

TokensOK ==
    /\ \A t \in Tickets : TicketOK(t)
    /\ \A s \in Sessions : SessionOK(s)
    /\ \A r \in Requests : RequestOK(r)

AuthInv ==
    /\ AuthTypeOK /\ IsFiniteSet(LiveFlows) /\ IsFiniteSet(LiveSessions)
    /\ AccountsOK /\ TokensOK /\ OneHeir

(***************************************************************************)
(* Types.                                                                  *)
(***************************************************************************)
Shape ==
    /\ status \in [Users -> Statuses]
    /\ role \in [Users -> Roles]
    /\ passkey \subseteq Users
    /\ flow \in [Flows -> FlowType]
    /\ ticket \in [Tickets -> TicketType]
    /\ session \in [Sessions -> SessionType]
    /\ attempts \in 0 .. MaxLoginAttempts
    /\ req \in [Requests -> RequestType]
    /\ claims \in Nat

\* An idle request holds no token.
LEMMA IdleTyped ==
    /\ Idle \in RequestType
    /\ Idle.pc = "idle" /\ Idle.pc \notin Holding
  BY DEF Idle, RequestType, Points, Statuses, Roles, Holding

\* The only request a handler's step touches is its own.
LEMMA OwnRequest ==
    ASSUME Shape, NEW r \in Requests, Arrive(r) \/ Handle(r)
    PROVE  \A q \in Requests : q # r => req'[q] = req[q]
  BY DEF Shape, Arrive, Handle, StartBootstrap, StartFinish, StartRecoveryLogin, StartAction,
     VerifyRecoveryKey, Claim, TakeFlow, SaveCredential, Reload, IssueRecoveryTicket,
     ConsumeRecoveryTicket, IssueUserSession, Revalidate, Act, Reject, Done, Goes

\* A handler that goes to another point keeps what it has read.
LEMMA GoesOn ==
    ASSUME Shape, NEW r \in Requests, NEW pc \in Points, Goes(r, pc)
    PROVE  /\ req' \in [Requests -> RequestType]
           /\ req'[r].pc = pc /\ req'[r].op = req[r].op /\ req'[r].user = req[r].user
           /\ req'[r].role = req[r].role /\ req'[r].token = req[r].token
           /\ \A q \in Requests : q # r => req'[q] = req[q]
  <1>1. req[r] \in RequestType
    BY DEF Shape
  <1>2. [req[r] EXCEPT !.pc = pc] \in RequestType
    BY <1>1 DEF RequestType
  <1>3. req'[r] = [req[r] EXCEPT !.pc = pc]
    BY DEF Shape, Goes
  <1>4. QED
    BY <1>1, <1>2, <1>3 DEF Shape, Goes, RequestType

\* A handler that is done leaves nothing behind.
LEMMA Ends ==
    ASSUME Shape, NEW r \in Requests, Done(r)
    PROVE  /\ req' \in [Requests -> RequestType]
           /\ req'[r] = Idle
           /\ \A q \in Requests : q # r => req'[q] = req[q]
  BY IdleTyped DEF Shape, Done

\* A refusal changes no account and no token.
LEMMA RejectShape ==
    ASSUME Shape, NEW r \in Requests, Reject(r)
    PROVE  Shape'
  BY Ends DEF Reject, Shape, accountVars, tokenVars

\* A request that arrives keeps the types.
LEMMA ArriveShape ==
    ASSUME Shape, NEW r \in Requests, Arrive(r)
    PROVE  Shape'
  <1>1. ASSUME NEW new \in RequestType, req' = [req EXCEPT ![r] = new],
               UNCHANGED <<role, passkey, tokenVars, attempts, claims>>,
               status' \in [Users -> Statuses]
        PROVE  Shape'
    BY <1>1 DEF Shape, tokenVars
  <1>2. ASSUME NEW u \in Users, StartBootstrap(r, u)
        PROVE  Shape'
    <2> DEFINE new == [Idle EXCEPT !.pc = "key", !.op = "bootstrap", !.user = u]
    <2>1. new \in RequestType
      BY DEF Idle, RequestType, Points, Statuses, Roles
    <2>2. status' \in [Users -> Statuses]
      BY <1>2 DEF StartBootstrap, Resolved, Shape, Statuses
    <2>3. req' = [req EXCEPT ![r] = new]
      BY <1>2 DEF StartBootstrap
    <2> HIDE DEF new
    <2>4. QED
      BY <1>1, <1>2, <2>1, <2>2, <2>3 DEF StartBootstrap
  <1>3. ASSUME NEW u \in Users, NEW f \in Flows, NEW mode \in Modes, StartFinish(r, u, mode, f)
        PROVE  Shape'
    <2> DEFINE new == [Idle EXCEPT !.pc = "take", !.op = mode, !.user = u,
                                    !.status = status[u], !.role = role[u], !.token = f]
    <2>1. new \in RequestType
      BY DEF Idle, RequestType, Points, Shape
    <2>2. req' = [req EXCEPT ![r] = new] /\ UNCHANGED <<accountVars, tokenVars, attempts, claims>>
      BY <1>3 DEF StartFinish
    <2> HIDE DEF new
    <2>3. QED
      BY <1>1, <2>1, <2>2 DEF accountVars, Shape
  <1>4. ASSUME NEW u \in Users, NEW t \in Tickets, StartRecoveryLogin(r, u, t)
        PROVE  Shape'
    <2> DEFINE new == [Idle EXCEPT !.pc = "key", !.op = "emergency", !.user = u,
                                    !.status = status[u], !.role = role[u], !.token = t]
    <2>1. new \in RequestType
      BY DEF Idle, RequestType, Points, Shape
    <2>2. req' = [req EXCEPT ![r] = new] /\ UNCHANGED <<accountVars, tokenVars, attempts, claims>>
      BY <1>4 DEF StartRecoveryLogin
    <2> HIDE DEF new
    <2>3. QED
      BY <1>1, <2>1, <2>2 DEF accountVars, Shape
  <1>5. ASSUME NEW s \in Sessions, StartAction(r, s)
        PROVE  Shape'
    <2> DEFINE new == [Idle EXCEPT !.pc = "revalidate", !.op = "action",
                                    !.user = session[s].user, !.role = session[s].role,
                                    !.session = s]
    <2>1. new \in RequestType
      BY DEF Idle, RequestType, SessionType, Points, Shape, Statuses
    <2>2. req' = [req EXCEPT ![r] = new] /\ UNCHANGED <<accountVars, tokenVars, attempts, claims>>
      BY <1>5 DEF StartAction
    <2> HIDE DEF new
    <2>3. QED
      BY <1>1, <2>1, <2>2 DEF accountVars, Shape
  <1>6. QED
    BY <1>2, <1>3, <1>4, <1>5 DEF Arrive

\* Every step of a handler keeps the types.
LEMMA HandleShape ==
    ASSUME Shape, \A r \in Requests : RequestOK(r), NEW r \in Requests, Handle(r)
    PROVE  Shape'
  <1>0. req[r] \in RequestType
    BY DEF Shape
  <1>1. CASE Reject(r)
    BY <1>1, RejectShape
  <1>2. CASE VerifyRecoveryKey(r)
    <2>1. CASE ~Reject(r)
      <3>1. req' \in [Requests -> RequestType]
        BY <1>2, <2>1, GoesOn, Ends DEF VerifyRecoveryKey, Points
      <3>2. attempts' \in 0 .. MaxLoginAttempts
        BY <1>2, <2>1, AuthAssumption DEF VerifyRecoveryKey, MayTry, Shape
      <3>3. QED
        BY <1>2, <2>1, <3>1, <3>2 DEF VerifyRecoveryKey, Shape, accountVars, tokenVars
    <2>2. QED
      BY <1>1, <2>1
  <1>3. CASE Claim(r)
    <2>1. req[r].user \in Users
      BY <1>3 DEF Claim, At, RequestOK
    <2>2. CASE ~Reject(r)
      <3>1. ClaimInitialAdmin(req[r].user) /\ Done(r) /\ UNCHANGED <<tokenVars, attempts>>
        BY <1>3, <2>2 DEF Claim
      <3>2. status' \in [Users -> Statuses] /\ role' \in [Users -> Roles]
        BY <2>1, <3>1 DEF ClaimInitialAdmin, Shape, Statuses, Roles
      <3>3. claims' \in Nat /\ passkey' = passkey
        BY <3>1 DEF ClaimInitialAdmin, Shape
      <3>4. QED
        BY <3>1, <3>2, <3>3, Ends DEF Shape, tokenVars
    <2>3. QED
      BY <1>1, <2>2
  <1>4. CASE TakeFlow(r)
    <2>1. flow' \in [Flows -> FlowType]
      BY <1>4 DEF TakeFlow, Spent, Shape, FlowType, TokenStates
    <2>2. req' \in [Requests -> RequestType]
      BY <1>4, GoesOn, Ends DEF TakeFlow, Points
    <2>3. QED
      BY <1>4, <2>1, <2>2 DEF TakeFlow, Shape, accountVars
  <1>5. CASE SaveCredential(r)
    <2>1. req[r].user \in Users
      BY <1>5 DEF SaveCredential, At, RequestOK, Known, Holding
    <2>2. CASE ~Reject(r)
      <3>1. req' \in [Requests -> RequestType]
        BY <1>5, <2>2, GoesOn DEF SaveCredential, Points
      <3>2. status' \in [Users -> Statuses] /\ passkey' \subseteq Users /\ role' = role
        BY <1>5, <2>1, <2>2 DEF SaveCredential, SaveOperatorCredential, Shape, Statuses
      <3>3. QED
        BY <1>5, <2>2, <3>1, <3>2 DEF SaveCredential, Shape, tokenVars
    <2>3. QED
      BY <1>1, <2>2
  <1>6. CASE Reload(r)
    <2> DEFINE new == [req[r] EXCEPT !.pc = "issue", !.status = status[req[r].user],
                                     !.role = role[req[r].user]]
    <2>1. req[r].user \in Users
      BY <1>6 DEF Reload, At, RequestOK, Known, Holding
    <2>2. new \in RequestType
      BY <1>0, <2>1 DEF RequestType, Points, Shape
    <2>3. req' = [req EXCEPT ![r] = new]
      BY <1>6, <1>0 DEF Reload, Shape, RequestType
    <2> HIDE DEF new
    <2>4. QED
      BY <1>6, <2>2, <2>3 DEF Reload, Shape, accountVars, tokenVars
  <1>7. CASE IssueRecoveryTicket(r)
    <2>1. req[r].user \in Users /\ req[r].token \in Flows
      BY <1>7 DEF IssueRecoveryTicket, At, RequestOK, Known, Holding, HoldsFlow
    <2>2. CASE ~Reject(r)
      <3>1. ticket' \in [Tickets -> TicketType]
        BY <1>7, <2>1, <2>2 DEF IssueRecoveryTicket, Shape, TicketType, TokenStates
      <3>2. QED
        BY <1>7, <2>2, <3>1, Ends DEF IssueRecoveryTicket, Shape, accountVars
    <2>3. QED
      BY <1>1, <2>2
  <1>8. CASE ConsumeRecoveryTicket(r)
    <2>1. ticket' \in [Tickets -> TicketType]
      BY <1>8 DEF ConsumeRecoveryTicket, Shape, TicketType, TokenStates
    <2>2. req' \in [Requests -> RequestType]
      BY <1>8, GoesOn, Ends DEF ConsumeRecoveryTicket, Points
    <2>3. QED
      BY <1>8, <2>1, <2>2 DEF ConsumeRecoveryTicket, Shape, accountVars
  <1>9. CASE IssueUserSession(r)
    <2>1. CASE ~Reject(r)
      <3>1. session' \in [Sessions -> SessionType]
        <4> DEFINE new == [state |-> "live", user |-> req[r].user, role |-> req[r].role,
                           by |-> req[r].token]
        <4>1. new \in SessionType
          BY <1>0 DEF SessionType, TokenStates, RequestType
        <4>2. \E s \in Sessions : session' = [session EXCEPT ![s] = new]
          BY <1>9, <2>1 DEF IssueUserSession
        <4> HIDE DEF new
        <4>3. QED
          BY <4>1, <4>2 DEF Shape
      <3>2. QED
        BY <1>9, <2>1, <3>1, Ends DEF IssueUserSession, Shape, accountVars
    <2>2. QED
      BY <1>1, <2>1
  <1>10. CASE Revalidate(r)
    <2>1. session' \in [Sessions -> SessionType]
      BY <1>10 DEF Revalidate, Ended, Shape, SessionType, TokenStates
    <2>2. req' \in [Requests -> RequestType]
      BY <1>10, GoesOn, Ends DEF Revalidate, Points
    <2>3. QED
      BY <1>10, <2>1, <2>2 DEF Revalidate, Shape, accountVars
  <1>11. CASE Act(r)
    BY <1>1, <1>11, Ends
    DEF Act, ApproveOperatorUser, BlockOperatorUser, Shape, Statuses, Roles, tokenVars
  <1>12. QED
    BY <1>2, <1>3, <1>4, <1>5, <1>6, <1>7, <1>8, <1>9, <1>10, <1>11 DEF Handle

\* Every step of the console keeps the types.
LEMMA ShapeStep ==
    ASSUME Shape, \A r \in Requests : RequestOK(r), [AuthNext]_vars
    PROVE  Shape'
  <1>1. ASSUME NEW r \in Requests, Arrive(r) \/ Handle(r)
        PROVE  Shape'
    BY <1>1, ArriveShape, HandleShape
  <1>2. ASSUME NEW u \in Users, Visit(u)
        PROVE  Shape'
    BY <1>2 DEF Visit, Resolved, Shape, Statuses, tokenVars
  <1>3. ASSUME NEW u \in Users, NEW mode \in Modes, NEW f \in Flows, Begin(u, mode, f)
        PROVE  Shape'
    <2>1. flow' \in [Flows -> FlowType]
      BY <1>3 DEF Begin, Shape, FlowType, TokenStates
    <2>2. QED
      BY <1>3, <2>1 DEF Begin, Shape, accountVars
  <1>4. ASSUME NEW s \in Sessions, EndSession(s)
        PROVE  Shape'
    <2>1. session' \in [Sessions -> SessionType]
      BY <1>4 DEF EndSession, Ended, Shape, SessionType, TokenStates
    <2>2. QED
      BY <1>4, <2>1 DEF EndSession, Shape, accountVars
  <1>5. CASE ExpireToken
    <2>1. flow' \in [Flows -> FlowType]
      BY <1>5 DEF ExpireToken, Shape, FlowType, TokenStates
    <2>2. ticket' \in [Tickets -> TicketType]
      BY <1>5 DEF ExpireToken, Shape, TicketType, TokenStates
    <2>3. QED
      BY <1>5, <2>1, <2>2 DEF ExpireToken, Shape, accountVars
  <1>6. CASE WindowEnds
    BY <1>6, AuthAssumption DEF WindowEnds, Shape, accountVars, tokenVars
  <1>7. CASE Restart
    <2>1. flow' \in [Flows -> FlowType]
      BY <1>7 DEF Restart, End, Shape, FlowType, TokenStates
    <2>2. ticket' \in [Tickets -> TicketType]
      BY <1>7 DEF Restart, End, Shape, TicketType, TokenStates
    <2>3. session' \in [Sessions -> SessionType]
      BY <1>7 DEF Restart, End, Shape, SessionType, TokenStates
    <2>4. QED
      BY <1>7, <2>1, <2>2, <2>3, IdleTyped, AuthAssumption DEF Restart, Shape, accountVars
  <1>8. CASE UNCHANGED vars
    BY <1>8 DEF vars, Shape, accountVars, tokenVars
  <1>9. QED
    BY <1>1, <1>2, <1>3, <1>4, <1>5, <1>6, <1>7, <1>8 DEF AuthNext

(***************************************************************************)
(* What no step undoes.                                                    *)
(***************************************************************************)
\* An approved account keeps its role, a passkey stays, and a token keeps its
\* user and purpose; once ended it never changes again.
Kept ==
    /\ passkey \subseteq passkey'
    /\ \A u \in Users : Settled(u) => Settled(u)' /\ role'[u] = role[u]
    /\ \A f \in Flows : flow[f].state # "unused" =>
          /\ flow'[f].state # "unused"
          /\ flow[f].state = "ended" => flow'[f] = flow[f]
    /\ \A t \in Tickets : ticket[t].state # "unused" =>
          /\ ticket'[t].state # "unused"
          /\ ticket'[t].user = ticket[t].user /\ ticket'[t].by = ticket[t].by
          /\ ticket[t].state = "ended" => ticket'[t] = ticket[t]
    /\ \A s \in Sessions : session[s].state # "unused" => session'[s].state # "unused"

\* Accounts through every step.
LEMMA AccountsKept ==
    ASSUME Shape, \A r \in Requests : RequestOK(r), [AuthNext]_vars
    PROVE  /\ passkey \subseteq passkey'
           /\ \A u \in Users : Settled(u) => Settled(u)' /\ role'[u] = role[u]
           /\ \A u \in Users : status[u] = "blocked" => status'[u] = "blocked"
  <1> DEFINE Goal == /\ passkey \subseteq passkey'
                     /\ \A u \in Users : Settled(u) => Settled(u)' /\ role'[u] = role[u]
                     /\ \A u \in Users : status[u] = "blocked" => status'[u] = "blocked"
  <1>1. CASE UNCHANGED accountVars
    BY <1>1 DEF accountVars, Settled
  <1>2. ASSUME NEW u \in Users, status' = Resolved(u), UNCHANGED <<role, passkey>>
        PROVE  Goal
    BY <1>2 DEF Resolved, Shape, Settled
  <1>3. ASSUME NEW r \in Requests, Claim(r), ~Reject(r)
        PROVE  Goal
    BY <1>3 DEF Claim, ClaimInitialAdmin, MayClaim, Shape, Settled
  <1>4. ASSUME NEW r \in Requests, SaveCredential(r), ~Reject(r)
        PROVE  Goal
    BY <1>4 DEF SaveCredential, SaveOperatorCredential, MayEnrol, Shape, Settled
  <1>5. ASSUME NEW r \in Requests, Act(r), ~Reject(r)
        PROVE  Goal
    BY <1>5 DEF Act, ApproveOperatorUser, BlockOperatorUser, Shape, Settled
  <1>6. QED
    BY <1>1, <1>2, <1>3, <1>4, <1>5
    DEF AuthNext, vars, Arrive, Handle, StartBootstrap, StartFinish, StartRecoveryLogin,
        StartAction, VerifyRecoveryKey, Claim, TakeFlow, SaveCredential, Reload,
        IssueRecoveryTicket, ConsumeRecoveryTicket, IssueUserSession, Revalidate, Act, Reject,
        Visit, Begin, EndSession, ExpireToken, WindowEnds, Restart

\* Tokens through every step.
LEMMA TokensKept ==
    ASSUME Shape, \A r \in Requests : RequestOK(r), [AuthNext]_vars
    PROVE  Kept
  <1> DEFINE FlowsKept == \A f \in Flows : flow[f].state # "unused" =>
                /\ flow'[f].state # "unused"
                /\ flow[f].state = "ended" => flow'[f] = flow[f]
             TicketsKept == \A t \in Tickets : ticket[t].state # "unused" =>
                /\ ticket'[t].state # "unused"
                /\ ticket'[t].user = ticket[t].user /\ ticket'[t].by = ticket[t].by
                /\ ticket[t].state = "ended" => ticket'[t] = ticket[t]
  <1>1. FlowsKept
    <2>1. CASE flow' = flow
      BY <2>1
    <2>2. ASSUME NEW u \in Users, NEW mode \in Modes, NEW f \in Flows, Begin(u, mode, f)
          PROVE  FlowsKept
      BY <2>2 DEF Begin, Shape
    <2>3. ASSUME NEW f \in Flows, flow' = [flow EXCEPT ![f].state = "ended"]
          PROVE  FlowsKept
      BY <2>3 DEF Shape, FlowType
    <2>4. ASSUME NEW r \in Requests, TakeFlow(r)
          PROVE  FlowsKept
      <3>1. req[r].token \in Flows
        BY <2>4 DEF TakeFlow, At, RequestOK
      <3>2. QED
        BY <2>3, <2>4, <3>1 DEF TakeFlow, Spent
    <2>5. CASE Restart
      BY <2>5 DEF Restart, End, Shape, FlowType
    <2>6. QED
      BY <2>1, <2>2, <2>3, <2>4, <2>5
      DEF AuthNext, vars, tokenVars, Arrive, Handle, StartBootstrap, StartFinish,
          StartRecoveryLogin, StartAction, VerifyRecoveryKey, Claim, SaveCredential, Reload,
          IssueRecoveryTicket, ConsumeRecoveryTicket, IssueUserSession, Revalidate, Act, Reject,
          Visit, EndSession, ExpireToken, WindowEnds
  <1>2. TicketsKept
    <2>1. CASE ticket' = ticket
      BY <2>1
    <2>2. ASSUME NEW t \in Tickets, ticket' = [ticket EXCEPT ![t].state = "ended"]
          PROVE  TicketsKept
      BY <2>2 DEF Shape, TicketType
    <2>3. ASSUME NEW r \in Requests, IssueRecoveryTicket(r)
          PROVE  TicketsKept
      BY <2>1, <2>3 DEF IssueRecoveryTicket, Reject, tokenVars, Shape
    <2>4. ASSUME NEW r \in Requests, ConsumeRecoveryTicket(r)
          PROVE  TicketsKept
      <3>1. req[r].token \in Tickets
        BY <2>4 DEF ConsumeRecoveryTicket, At, RequestOK
      <3>2. QED
        BY <2>2, <2>4, <3>1 DEF ConsumeRecoveryTicket
    <2>5. CASE Restart
      BY <2>5 DEF Restart, End, Shape, TicketType
    <2>6. QED
      BY <2>1, <2>2, <2>3, <2>4, <2>5
      DEF AuthNext, vars, tokenVars, Arrive, Handle, StartBootstrap, StartFinish,
          StartRecoveryLogin, StartAction, VerifyRecoveryKey, Claim, TakeFlow, SaveCredential,
          Reload, IssueUserSession, Revalidate, Act, Reject, Visit, Begin, EndSession,
          ExpireToken, WindowEnds
  <1>3. \A s \in Sessions : session[s].state # "unused" => session'[s].state # "unused"
    <2>1. CASE session' = session
      BY <2>1
    <2>2. ASSUME NEW s, session' = Ended(s)
          PROVE  \A x \in Sessions : session[x].state # "unused" => session'[x].state # "unused"
      BY <2>2 DEF Ended, Shape, SessionType
    <2>3. ASSUME NEW r \in Requests, IssueUserSession(r)
          PROVE  \A x \in Sessions : session[x].state # "unused" => session'[x].state # "unused"
      BY <2>1, <2>3 DEF IssueUserSession, Reject, tokenVars, Shape
    <2>4. CASE Restart
      BY <2>4 DEF Restart, End, Shape, SessionType
    <2>5. QED
      BY <2>1, <2>2, <2>3, <2>4
      DEF AuthNext, vars, tokenVars, Arrive, Handle, StartBootstrap, StartFinish,
          StartRecoveryLogin, StartAction, VerifyRecoveryKey, Claim, TakeFlow, SaveCredential,
          Reload, IssueRecoveryTicket, ConsumeRecoveryTicket, Revalidate, Act, Reject, Visit,
          Begin, EndSession, ExpireToken, WindowEnds
  <1>4. QED
    BY <1>1, <1>2, <1>3, AccountsKept DEF Kept

(***************************************************************************)
(* So what entitles to something goes on entitling to it.                  *)
(***************************************************************************)
LEMMA TicketStays ==
    ASSUME Kept, NEW t \in Tickets, TicketOK(t), ticket[t].state # "unused"
    PROVE  TicketOK(t)'
  BY DEF Kept, TicketOK

\* A session keeps what earned it, also when it ends.
LEMMA SessionStays ==
    ASSUME Kept, Shape, NEW s \in Sessions, SessionOK(s), session[s].state # "unused",
           session'[s].state # "unused", session'[s].user = session[s].user,
           session'[s].role = session[s].role, session'[s].by = session[s].by
    PROVE  SessionOK(s)'
  <1> DEFINE x == session[s].by
             u == session[s].user
  <1>1. TokenEnded(x) /\ Entitles(x, u) /\ u \in passkey /\ Settled(u) /\ u \in Users
        /\ role[u] = session[s].role
    BY DEF SessionOK, Shape
  <1>2. /\ IF x \in Flows THEN flow'[x].state = "ended" ELSE ticket'[x].state = "ended"
        /\ \/ x \in Flows /\ flow'[x].user = u /\ flow'[x].mode \in {"login", "enrollment"}
           \/ x \in Tickets /\ ticket'[x].user = u
    BY <1>1, AuthAssumption DEF Kept, TokenEnded, Entitles
  <1>3. u \in passkey' /\ role'[u] = role[u]
        /\ status'[u] \in {"enrollment_required", "active", "blocked"}
    BY <1>1 DEF Kept, Settled
  <1>4. QED
    BY <1>1, <1>2, <1>3 DEF SessionOK, TokenEnded, Entitles, Settled

\* What a handler relies on survives the steps of the others.
LEMMA RequestStays ==
    ASSUME Kept, NEW r \in Requests, RequestOK(r), req'[r] = req[r]
    PROVE  RequestOK(r)'
  <1> DEFINE q == req[r]
  <1>1. Known(q) => /\ status'[q.user] \in {"enrollment_required", "active", "blocked"}
                    /\ role'[q.user] = q.role
    BY DEF Kept, Known, Settled
  <1>2. HoldsFlow(q) => flow'[q.token] = flow[q.token]
    BY DEF Kept, HoldsFlow
  <1>3. TokenEnded(q.token) /\ Entitles(q.token, q.user) =>
        /\ IF q.token \in Flows THEN flow'[q.token].state = "ended"
                                ELSE ticket'[q.token].state = "ended"
        /\ \/ /\ q.token \in Flows /\ flow'[q.token].user = q.user
              /\ flow'[q.token].mode \in {"login", "enrollment"}
           \/ q.token \in Tickets /\ ticket'[q.token].user = q.user
    BY AuthAssumption DEF Kept, TokenEnded, Entitles
  <1>4. /\ \A f \in Flows : flow[f].state # "unused" => flow'[f].state # "unused"
        /\ \A t \in Tickets : ticket[t].state # "unused" => ticket'[t].state # "unused"
        /\ \A s \in Sessions : session[s].state # "unused" => session'[s].state # "unused"
        /\ passkey \subseteq passkey'
    BY DEF Kept
  <1>5. QED
    BY <1>1, <1>2, <1>3, <1>4
    DEF RequestOK, Known, Settled, HoldsFlow, TokenEnded, Entitles, Holding

\* A step that puts one request somewhere new.
LEMMA OneRequest ==
    ASSUME Shape, Kept, \A q \in Requests : RequestOK(q),
           NEW r \in Requests, RequestOK(r)', \A q \in Requests : q # r => req'[q] = req[q]
    PROVE  \A q \in Requests : RequestOK(q)'
  BY RequestStays

\* Every ticket, new or old, names the recovery that earned it.
LEMMA TicketsStep ==
    ASSUME Shape, Kept, TokensOK, [AuthNext]_vars
    PROVE  \A t \in Tickets : TicketOK(t)'
  <1>1. ASSUME \A t \in Tickets : ticket[t].state = "unused" => ticket'[t] = ticket[t]
        PROVE  \A t \in Tickets : TicketOK(t)'
    BY <1>1, TicketStays DEF TokensOK, TicketOK
  <1>2. ASSUME NEW r \in Requests, IssueRecoveryTicket(r), ~Reject(r)
        PROVE  \A t \in Tickets : TicketOK(t)'
    <2>1. PICK t \in Tickets : ticket' = [ticket EXCEPT ![t] =
                  [state |-> "live", user |-> req[r].user, by |-> req[r].token]]
      BY <1>2 DEF IssueRecoveryTicket
    <2>2. /\ req[r].user \in passkey /\ req[r].token \in Flows /\ UNCHANGED <<flow, passkey>>
          /\ flow[req[r].token] = [state |-> "ended", user |-> req[r].user, mode |-> "recovery"]
      BY <1>2 DEF IssueRecoveryTicket, accountVars, At, TokensOK, RequestOK, HoldsFlow
    <2>3. TicketOK(t)'
      BY <2>1, <2>2 DEF TicketOK, Shape
    <2>4. \A x \in Tickets : x # t => ticket'[x] = ticket[x]
      BY <2>1 DEF Shape
    <2>5. QED
      BY <2>3, <2>4, TicketStays DEF TokensOK, TicketOK
  <1>3. ASSUME NEW r \in Requests, ConsumeRecoveryTicket(r)
        PROVE  \A t \in Tickets : TicketOK(t)'
    <2>1. req[r].token \in Tickets /\ ticket[req[r].token].state # "unused"
      BY <1>3 DEF ConsumeRecoveryTicket, At, TokensOK, RequestOK
    <2>2. QED
      BY <1>1, <1>3, <2>1 DEF ConsumeRecoveryTicket, Shape
  <1>4. CASE ticket' = ticket
    BY <1>1, <1>4
  <1>5. CASE ExpireToken \/ Restart
    BY <1>1, <1>5 DEF ExpireToken, Restart, End, Shape
  <1>6. QED
    BY <1>2, <1>3, <1>4, <1>5
    DEF AuthNext, vars, tokenVars, Arrive, Handle, StartBootstrap, StartFinish,
        StartRecoveryLogin, StartAction, VerifyRecoveryKey, Claim, TakeFlow, SaveCredential,
        Reload, IssueUserSession, Revalidate, Act, Reject, Visit, Begin, EndSession, WindowEnds

\* Every session, new or old, was earned by its user.
LEMMA SessionsStep ==
    ASSUME Shape, Kept, TokensOK, [AuthNext]_vars
    PROVE  \A s \in Sessions : SessionOK(s)'
  <1>1. ASSUME NEW s \in Sessions,
               \/ session'[s] = session[s]
               \/ /\ session[s].state = "live"
                  /\ session'[s] = [session[s] EXCEPT !.state = "ended"]
        PROVE  SessionOK(s)'
    <2>1. session[s] \in SessionType
      BY DEF Shape
    <2>2. CASE session[s].state = "unused"
      BY <1>1, <2>2 DEF TokensOK, SessionOK
    <2>3. CASE session[s].state # "unused"
      <3>1. session'[s].state # "unused" /\ session'[s].user = session[s].user
            /\ session'[s].role = session[s].role /\ session'[s].by = session[s].by
        BY <1>1, <2>1, <2>3 DEF SessionType
      <3>2. QED
        BY <2>3, <3>1, SessionStays DEF TokensOK
    <2>4. QED
      BY <2>2, <2>3
  <1>2. ASSUME NEW r \in Requests, IssueUserSession(r), ~Reject(r)
        PROVE  \A s \in Sessions : SessionOK(s)'
    <2>1. PICK s \in Sessions : session' = [session EXCEPT ![s] =
                  [state |-> "live", user |-> req[r].user, role |-> req[r].role,
                   by |-> req[r].token]]
      BY <1>2 DEF IssueUserSession
    <2>2. /\ req[r].user \in passkey /\ Known(req[r])
          /\ TokenEnded(req[r].token) /\ Entitles(req[r].token, req[r].user)
          /\ UNCHANGED <<flow, ticket, status, role, passkey>>
      BY <1>2 DEF IssueUserSession, accountVars, At, TokensOK, RequestOK, Holding
    <2>3. SessionOK(s)'
      BY <2>1, <2>2 DEF SessionOK, Shape, Known, Settled, TokenEnded, Entitles
    <2>4. \A x \in Sessions : x # s => session'[x] = session[x]
      BY <2>1 DEF Shape
    <2>5. QED
      BY <1>1, <2>3, <2>4
  <1>3. CASE session' = session
    BY <1>1, <1>3
  <1>4. ASSUME NEW s \in Sessions, session' = Ended(s), session[s].state # "unused"
        PROVE  \A x \in Sessions : SessionOK(x)'
    <2>1. \A x \in Sessions : session[x] \in SessionType
      BY DEF Shape
    <2>2. \A x \in Sessions : session'[x] = IF x = s THEN [session[x] EXCEPT !.state = "ended"]
                                             ELSE session[x]
      BY <1>4 DEF Ended, Shape
    <2>3. CASE session[s].state = "live"
      BY <1>1, <2>2, <2>3
    <2>4. CASE session[s].state = "ended"
      <3>1. session'[s] = session[s]
        BY <2>1, <2>2, <2>4 DEF SessionType
      <3>2. QED
        BY <1>1, <2>2, <3>1
    <2>5. QED
      BY <1>4, <2>1, <2>3, <2>4 DEF SessionType, TokenStates
  <1>5. ASSUME NEW r \in Requests, Revalidate(r)
        PROVE  \A s \in Sessions : SessionOK(s)'
    <2>1. req[r].session \in Sessions /\ session[req[r].session].state # "unused"
      BY <1>5 DEF Revalidate, At, TokensOK, RequestOK
    <2>2. QED
      BY <1>3, <1>4, <1>5, <2>1 DEF Revalidate
  <1>6. ASSUME NEW s \in Sessions, EndSession(s)
        PROVE  \A x \in Sessions : SessionOK(x)'
    BY <1>4, <1>6 DEF EndSession
  <1>7. CASE Restart
    BY <1>1, <1>7 DEF Restart, End, Shape
  <1>8. QED
    BY <1>2, <1>3, <1>5, <1>6, <1>7
    DEF AuthNext, vars, tokenVars, Arrive, Handle, StartBootstrap, StartFinish,
        StartRecoveryLogin, StartAction, VerifyRecoveryKey, Claim, TakeFlow, SaveCredential,
        Reload, IssueRecoveryTicket, ConsumeRecoveryTicket, IssueUserSession, Act, Reject, Visit,
        Begin, ExpireToken, WindowEnds

\* What a request is let in with.
LEMMA ArriveOK ==
    ASSUME Shape, NEW r \in Requests, Arrive(r)
    PROVE  RequestOK(r)'
  <1>1. ASSUME NEW u \in Users, StartBootstrap(r, u)
        PROVE  RequestOK(r)'
    <2>1. req'[r] = [Idle EXCEPT !.pc = "key", !.op = "bootstrap", !.user = u]
      BY <1>1 DEF StartBootstrap, Shape
    <2>2. req'[r].pc = "key" /\ req'[r].op = "bootstrap" /\ req'[r].user = u
      BY <2>1 DEF Idle
    <2>3. QED
      BY <2>2 DEF RequestOK, Holding
  <1>2. ASSUME NEW u \in Users, NEW f \in Flows, NEW mode \in Modes, StartFinish(r, u, mode, f)
        PROVE  RequestOK(r)'
    <2>1. req'[r] = [Idle EXCEPT !.pc = "take", !.op = mode, !.user = u,
                                 !.status = status[u], !.role = role[u], !.token = f]
      BY <1>2 DEF StartFinish, Shape
    <2>2. /\ req'[r].pc = "take" /\ req'[r].op = mode /\ req'[r].user = u
          /\ req'[r].role = role[u] /\ req'[r].token = f
      BY <2>1 DEF Idle
    <2>3. /\ UNCHANGED <<status, role, flow>> /\ flow[f].state # "unused"
          /\ status[u] \in {"enrollment_required", "active"}
      BY <1>2 DEF StartFinish, Required, accountVars, tokenVars
    <2>4. QED
      BY <2>2, <2>3 DEF RequestOK, Holding, Known, Settled
  <1>3. ASSUME NEW u \in Users, NEW t \in Tickets, StartRecoveryLogin(r, u, t)
        PROVE  RequestOK(r)'
    <2>1. req'[r] = [Idle EXCEPT !.pc = "key", !.op = "emergency", !.user = u,
                                 !.status = status[u], !.role = role[u], !.token = t]
      BY <1>3 DEF StartRecoveryLogin, Shape
    <2>2. /\ req'[r].pc = "key" /\ req'[r].op = "emergency" /\ req'[r].user = u
          /\ req'[r].role = role[u] /\ req'[r].token = t
      BY <2>1 DEF Idle
    <2>3. /\ UNCHANGED <<status, role, ticket>> /\ ticket[t].state # "unused"
          /\ status[u] = "active"
      BY <1>3 DEF StartRecoveryLogin, accountVars, tokenVars
    <2>4. QED
      BY <2>2, <2>3 DEF RequestOK, Holding, Known, Settled
  <1>4. ASSUME NEW s \in Sessions, StartAction(r, s)
        PROVE  RequestOK(r)'
    <2>1. req'[r] = [Idle EXCEPT !.pc = "revalidate", !.op = "action",
                                 !.user = session[s].user, !.role = session[s].role,
                                 !.session = s]
      BY <1>4 DEF StartAction, Shape
    <2>2. req'[r].pc = "revalidate" /\ req'[r].session = s
      BY <2>1 DEF Idle
    <2>3. session'[s].state # "unused"
      BY <1>4 DEF StartAction, tokenVars
    <2>4. QED
      BY <2>2, <2>3 DEF RequestOK, Holding
  <1>5. QED
    BY <1>1, <1>2, <1>3, <1>4 DEF Arrive

\* What its handler holds after its next step.
LEMMA HandleOK ==
    ASSUME Shape, Kept, TokensOK, NEW r \in Requests, Handle(r)
    PROVE  RequestOK(r)'
  <1>0. req[r] \in RequestType /\ RequestOK(r)
    BY DEF Shape, TokensOK
  <1>1. CASE req'[r] = Idle
    BY <1>1, IdleTyped DEF RequestOK
  <1>2. CASE Done(r)
    BY <1>1, <1>2, Ends
  <1>3. CASE Reject(r)
    BY <1>2, <1>3 DEF Reject
  <1>4. CASE VerifyRecoveryKey(r) /\ ~Done(r) /\ ~Reject(r)
    <2>1. /\ At(r, "key") /\ UNCHANGED <<status, role, ticket>>
          /\ Goes(r, IF req[r].op = "bootstrap" THEN "claim" ELSE "redeem")
      BY <1>4 DEF VerifyRecoveryKey, accountVars, tokenVars
    <2>2. /\ req'[r].pc = IF req[r].op = "bootstrap" THEN "claim" ELSE "redeem"
          /\ req'[r].user = req[r].user /\ req'[r].role = req[r].role
          /\ req'[r].token = req[r].token
      <3>1. CASE req[r].op = "bootstrap"
        BY <2>1, <3>1, GoesOn DEF Points
      <3>2. CASE req[r].op # "bootstrap"
        BY <2>1, <3>2, GoesOn DEF Points
      <3>3. QED
        BY <3>1, <3>2
    <2>3. QED
      BY <1>0, <2>1, <2>2 DEF RequestOK, At, Holding, Known, Settled
  <1>5. CASE TakeFlow(r) /\ ~Done(r)
    <2>1. /\ At(r, "take") /\ FlowFits(r) /\ Goes(r, "save") /\ UNCHANGED <<status, role>>
          /\ flow' = [flow EXCEPT ![req[r].token].state = "ended"]
      BY <1>5 DEF TakeFlow, Spent, accountVars
    <2>2. /\ req'[r].pc = "save" /\ req'[r].user = req[r].user /\ req'[r].role = req[r].role
          /\ req'[r].token = req[r].token /\ req'[r].op = req[r].op
      BY <2>1, GoesOn DEF Points
    <2>3. Known(req[r]) /\ req[r].op \in Modes /\ req[r].token \in Flows
      BY <1>0, <2>1 DEF At, RequestOK
    <2>4. flow'[req[r].token] = [state |-> "ended", user |-> req[r].user, mode |-> req[r].op]
      BY <2>1, <2>3 DEF Shape, FlowFits, FlowType
    <2>5. QED
      BY <2>1, <2>2, <2>3, <2>4 DEF RequestOK, Holding, HoldsFlow, Known, Settled
  <1>6. CASE SaveCredential(r) /\ ~Reject(r)
    <2>1. /\ At(r, "save") /\ SaveOperatorCredential(req[r].user, req[r].op = "enrollment")
          /\ Goes(r, IF req[r].op = "enrollment" THEN "reload"
                     ELSE IF req[r].op = "login" THEN "issue" ELSE "earn")
          /\ flow' = flow
      BY <1>6 DEF SaveCredential, tokenVars
    <2>2. /\ req'[r].pc = IF req[r].op = "enrollment" THEN "reload"
                          ELSE IF req[r].op = "login" THEN "issue" ELSE "earn"
          /\ req'[r].user = req[r].user /\ req'[r].role = req[r].role
          /\ req'[r].token = req[r].token /\ req'[r].op = req[r].op
      <3>1. CASE req[r].op = "enrollment"
        BY <2>1, <3>1, GoesOn DEF Points
      <3>2. CASE req[r].op = "login"
        BY <2>1, <3>2, GoesOn DEF Points
      <3>3. CASE req[r].op \notin {"enrollment", "login"}
        BY <2>1, <3>3, GoesOn DEF Points
      <3>4. QED
        BY <3>1, <3>2, <3>3
    <2>3. Known(req[r]) /\ HoldsFlow(req[r]) /\ req[r].op \in Modes
      BY <1>0, <2>1 DEF At, RequestOK, Holding
    <2>4. /\ status'[req[r].user] \in {"enrollment_required", "active", "blocked"}
          /\ role'[req[r].user] = req[r].role
      BY <2>3 DEF Kept, Known, Settled
    <2>5. req[r].user \in passkey'
      BY <2>1 DEF SaveOperatorCredential
    <2>6. QED
      BY <2>1, <2>2, <2>3, <2>4, <2>5
      DEF RequestOK, Known, Settled, HoldsFlow, TokenEnded, Entitles, Modes, Holding
  <1>7. CASE Reload(r)
    <2>1. /\ At(r, "reload") /\ UNCHANGED <<status, role, passkey, flow>>
          /\ req'[r].pc = "issue" /\ req'[r].user = req[r].user
          /\ req'[r].role = role[req[r].user] /\ req'[r].token = req[r].token
      BY <1>0, <1>7 DEF Reload, Shape, RequestType, accountVars, tokenVars
    <2>2. /\ Known(req[r]) /\ HoldsFlow(req[r]) /\ req[r].op = "enrollment"
          /\ req[r].user \in passkey
      BY <1>0, <2>1 DEF At, RequestOK, Holding
    <2>3. QED
      BY <2>1, <2>2
      DEF RequestOK, Known, Settled, HoldsFlow, TokenEnded, Entitles, Holding
  <1>8. CASE ConsumeRecoveryTicket(r) /\ ~Done(r)
    <2> DEFINE t == req[r].token
    <2>1. /\ At(r, "redeem") /\ Goes(r, "issue") /\ UNCHANGED <<status, role, passkey>>
          /\ ticket[t].state = "live" /\ ticket[t].user = req[r].user
          /\ ticket' = [ticket EXCEPT ![t].state = "ended"]
      BY <1>8 DEF ConsumeRecoveryTicket, accountVars
    <2>2. /\ req'[r].pc = "issue" /\ req'[r].user = req[r].user /\ req'[r].role = req[r].role
          /\ req'[r].token = t
      BY <2>1, GoesOn DEF Points
    <2>3. Known(req[r]) /\ t \in Tickets
      BY <1>0, <2>1 DEF At, RequestOK
    <2>4. ticket'[t].state = "ended" /\ ticket'[t].user = req[r].user
      BY <2>1, <2>3 DEF Shape, TicketType
    <2>5. req[r].user \in passkey
      BY <2>1, <2>3 DEF TokensOK, TicketOK
    <2>6. QED
      BY <2>1, <2>2, <2>3, <2>4, <2>5, AuthAssumption
      DEF RequestOK, Known, Settled, TokenEnded, Entitles, Holding
  <1>9. CASE Revalidate(r) /\ ~Done(r)
    <2>1. req'[r].pc = "act"
      BY <1>0, <1>9, GoesOn DEF Revalidate, Points, RequestType
    <2>2. QED
      BY <2>1 DEF RequestOK, Holding
  <1>10. QED
    BY <1>2, <1>3, <1>4, <1>5, <1>6, <1>7, <1>8, <1>9
    DEF Handle, Claim, IssueRecoveryTicket, IssueUserSession, Act

\* Tickets, sessions and handlers together.
LEMMA TokensStep ==
    ASSUME Shape, TokensOK, [AuthNext]_vars
    PROVE  TokensOK'
  <1>1. Kept
    BY TokensKept DEF TokensOK
  <1>2. (\A t \in Tickets : TicketOK(t)') /\ \A s \in Sessions : SessionOK(s)'
    BY <1>1, TicketsStep, SessionsStep
  <1>3. \A r \in Requests : RequestOK(r)'
    <2>1. ASSUME NEW r \in Requests, Arrive(r) \/ Handle(r)
          PROVE  \A q \in Requests : RequestOK(q)'
      BY <1>1, <2>1, OwnRequest, OneRequest, ArriveOK, HandleOK DEF TokensOK
    <2>2. CASE req' = req
      BY <1>1, <2>2, RequestStays DEF TokensOK
    <2>3. CASE Restart
      BY <2>3, IdleTyped DEF Restart, RequestOK
    <2>4. QED
      BY <2>1, <2>2, <2>3 DEF AuthNext, vars, Visit, Begin, EndSession, ExpireToken, WindowEnds
  <1>4. QED
    BY <1>2, <1>3 DEF TokensOK

(***************************************************************************)
(* One heir per token.                                                     *)
(***************************************************************************)
\* A token that has not ended has no heir yet.
LEMMA LiveHasNoHeir ==
    ASSUME Shape, TokensOK, NEW x,
           \/ x \in Flows /\ flow[x].state # "ended"
           \/ x \in Tickets /\ ticket[x].state # "ended"
    PROVE  /\ \A r \in Requests : req[r].pc \in Holding => req[r].token # x
           /\ \A s \in Sessions : session[s].by # x
           /\ \A t \in Tickets : ticket[t].by # x
  <1>1. ASSUME NEW r \in Requests, req[r].pc \in Holding
        PROVE  TokenEnded(req[r].token)
    <2>1. HoldsFlow(req[r]) \/ TokenEnded(req[r].token)
      BY <1>1 DEF TokensOK, RequestOK, Holding
    <2>2. HoldsFlow(req[r]) => req[r].token \in Flows /\ flow[req[r].token].state = "ended"
      BY DEF HoldsFlow
    <2>3. QED
      BY <2>1, <2>2 DEF TokenEnded
  <1>2. \A s \in Sessions : session[s].by = None \/ TokenEnded(session[s].by)
    BY DEF TokensOK, SessionOK
  <1>3. ASSUME NEW t \in Tickets
        PROVE  ticket[t].by = None \/ TokenEnded(ticket[t].by)
    <2>1. \/ ticket[t].by = None
          \/ /\ ticket[t].by \in Flows
             /\ flow[ticket[t].by] =
                   [state |-> "ended", user |-> ticket[t].user, mode |-> "recovery"]
      BY DEF TokensOK, TicketOK
    <2>2. ticket[t].by = None \/ (ticket[t].by \in Flows /\ flow[ticket[t].by].state = "ended")
      BY <2>1
    <2>3. QED
      BY <2>2 DEF TokenEnded
  <1>4. x # None /\ ~TokenEnded(x)
    BY AuthAssumption DEF TokenEnded
  <1>5. QED
    BY <1>1, <1>2, <1>3, <1>4

\* Steps by which nobody inherits.
LEMMA NoNewHeir ==
    ASSUME OneHeir,
           \A r \in Requests : req'[r].pc \in Holding =>
              req[r].pc \in Holding /\ req'[r].token = req[r].token,
           \A s \in Sessions : session'[s].by = session[s].by,
           \A t \in Tickets : ticket'[t].by = ticket[t].by
    PROVE  OneHeir'
  BY DEF OneHeir, OneSessionPerToken

\* Ending sessions, tickets and flows leaves the names of their heirs alone.
LEMMA EndingKeepsBy ==
    ASSUME Shape
    PROVE  /\ \A s \in Sessions : session' = Ended(s) =>
                 \A x \in Sessions : session'[x].by = session[x].by
           /\ session' = End(session) => \A x \in Sessions : session'[x].by = session[x].by
           /\ ticket' = End(ticket) => \A x \in Tickets : ticket'[x].by = ticket[x].by
           /\ \A t \in Tickets : ticket' = [ticket EXCEPT ![t].state = "ended"] =>
                 \A x \in Tickets : ticket'[x].by = ticket[x].by
  BY DEF Shape, Ended, End, SessionType, TicketType

\* A handler takes over a token that was live until then.
LEMMA TakingOver ==
    ASSUME Shape, TokensOK, OneHeir, NEW r \in Requests, NEW x,
           \/ x \in Flows /\ flow[x].state # "ended"
           \/ x \in Tickets /\ ticket[x].state # "ended",
           req'[r].token = x, \A q \in Requests : q # r => req'[q] = req[q],
           \A s \in Sessions : session'[s].by = session[s].by,
           \A t \in Tickets : ticket'[t].by = ticket[t].by
    PROVE  OneHeir'
  <1>1. /\ \A q \in Requests : req[q].pc \in Holding => req[q].token # x
        /\ \A s \in Sessions : session[s].by # x
        /\ \A t \in Tickets : ticket[t].by # x
    BY LiveHasNoHeir
  <1>2. QED
    BY <1>1 DEF OneHeir, OneSessionPerToken

\* A handler passes its token on to a session or a ticket, and ends.
LEMMA PassingOn ==
    ASSUME OneHeir, NEW r \in Requests, req[r].pc \in Holding, req'[r].pc \notin Holding,
           \A q \in Requests : q # r => req'[q] = req[q],
           \/ /\ \E s \in Sessions : /\ session'[s].by = req[r].token
                                     /\ \A x \in Sessions : x # s => session'[x] = session[x]
              /\ ticket' = ticket
           \/ /\ \E t \in Tickets : /\ ticket'[t].by = req[r].token
                                    /\ \A x \in Tickets : x # t => ticket'[x] = ticket[x]
              /\ session' = session
    PROVE  OneHeir'
  <1>1. /\ \A q \in Requests : q # r /\ req[q].pc \in Holding => req[q].token # req[r].token
        /\ \A s \in Sessions : session[s].by # req[r].token
        /\ \A t \in Tickets : ticket[t].by # req[r].token
    BY DEF OneHeir
  <1>2. QED
    BY <1>1 DEF OneHeir, OneSessionPerToken

\* A token is taken over by one handler and passed on to one session or ticket.
LEMMA HeirStep ==
    ASSUME Shape, TokensOK, OneHeir, [AuthNext]_vars
    PROVE  OneHeir'
  <1>1. ASSUME NEW r \in Requests, TakeFlow(r), ~Done(r)
        PROVE  OneHeir'
    <2>1. PICK f \in Flows : f = req[r].token
      BY <1>1 DEF TakeFlow, At, TokensOK, RequestOK
    <2>2. flow[f].state = "live" /\ Goes(r, "save") /\ UNCHANGED <<ticket, session>>
      BY <1>1, <2>1 DEF TakeFlow, FlowFits
    <2>3. req'[r].token = f /\ \A q \in Requests : q # r => req'[q] = req[q]
      BY <2>1, <2>2, GoesOn DEF Points
    <2>4. QED
      BY <2>2, <2>3, TakingOver
  <1>2. ASSUME NEW r \in Requests, ConsumeRecoveryTicket(r), ~Done(r)
        PROVE  OneHeir'
    <2>1. PICK t \in Tickets : t = req[r].token
      BY <1>2 DEF ConsumeRecoveryTicket, At, TokensOK, RequestOK
    <2>2. /\ ticket[t].state = "live" /\ Goes(r, "issue") /\ UNCHANGED session
          /\ ticket' = [ticket EXCEPT ![t].state = "ended"]
      BY <1>2, <2>1 DEF ConsumeRecoveryTicket
    <2>3. req'[r].token = t /\ \A q \in Requests : q # r => req'[q] = req[q]
      BY <2>1, <2>2, GoesOn DEF Points
    <2>4. QED
      BY <2>2, <2>3, TakingOver, EndingKeepsBy
  <1>3. ASSUME NEW r \in Requests, IssueUserSession(r) \/ IssueRecoveryTicket(r), ~Reject(r)
        PROVE  OneHeir'
    <2>1. req[r].pc \in Holding /\ Done(r)
      BY <1>3 DEF IssueUserSession, IssueRecoveryTicket, At, Holding
    <2>2. req'[r].pc \notin Holding /\ \A q \in Requests : q # r => req'[q] = req[q]
      BY <2>1, Ends, IdleTyped
    <2>3. \/ /\ \E s \in Sessions : /\ session'[s].by = req[r].token
                                    /\ \A x \in Sessions : x # s => session'[x] = session[x]
             /\ ticket' = ticket
          \/ /\ \E t \in Tickets : /\ ticket'[t].by = req[r].token
                                   /\ \A x \in Tickets : x # t => ticket'[x] = ticket[x]
             /\ session' = session
      <3>1. CASE IssueUserSession(r)
        <4>1. PICK s \in Sessions : session' = [session EXCEPT ![s] =
                      [state |-> "live", user |-> req[r].user, role |-> req[r].role,
                       by |-> req[r].token]]
          BY <1>3, <3>1 DEF IssueUserSession
        <4>2. session'[s].by = req[r].token /\ \A x \in Sessions : x # s => session'[x] = session[x]
          BY <4>1 DEF Shape
        <4>3. ticket' = ticket
          BY <1>3, <3>1 DEF IssueUserSession
        <4>4. QED
          BY <4>2, <4>3
      <3>2. CASE IssueRecoveryTicket(r)
        <4>1. PICK t \in Tickets : ticket' = [ticket EXCEPT ![t] =
                      [state |-> "live", user |-> req[r].user, by |-> req[r].token]]
          BY <1>3, <3>2 DEF IssueRecoveryTicket
        <4>2. ticket'[t].by = req[r].token /\ \A x \in Tickets : x # t => ticket'[x] = ticket[x]
          BY <4>1 DEF Shape
        <4>3. session' = session
          BY <1>3, <3>2 DEF IssueRecoveryTicket
        <4>4. QED
          BY <4>2, <4>3
      <3>3. QED
        BY <1>3, <3>1, <3>2
    <2>4. QED
      BY <2>1, <2>2, <2>3, PassingOn
  <1>4. ASSUME NEW r \in Requests,
               \A q \in Requests : q # r => req'[q] = req[q],
               req'[r].pc \in Holding => req[r].pc \in Holding /\ req'[r].token = req[r].token,
               \A s \in Sessions : session'[s].by = session[s].by,
               \A t \in Tickets : ticket'[t].by = ticket[t].by
        PROVE  OneHeir'
    <2>1. \A q \in Requests : req'[q].pc \in Holding =>
              req[q].pc \in Holding /\ req'[q].token = req[q].token
      BY <1>4
    <2>2. QED
      BY <1>4, <2>1, NoNewHeir
  <1>5. ASSUME NEW r \in Requests, Done(r),
               \A s \in Sessions : session'[s].by = session[s].by,
               \A t \in Tickets : ticket'[t].by = ticket[t].by
        PROVE  OneHeir'
    BY <1>4, <1>5, Ends, IdleTyped
  <1>6. ASSUME NEW r \in Requests, Arrive(r)
        PROVE  OneHeir'
    <2>1. UNCHANGED <<ticket, session>> /\ \A q \in Requests : q # r => req'[q] = req[q]
      BY <1>6, OwnRequest
      DEF Arrive, StartBootstrap, StartFinish, StartRecoveryLogin, StartAction, tokenVars
    <2>2. req'[r].pc \notin Holding
      <3> USE DEF Shape, Idle, Holding
      <3>1. ASSUME NEW u \in Users, StartBootstrap(r, u)
            PROVE  req'[r].pc \notin Holding
        BY <3>1 DEF StartBootstrap
      <3>2. ASSUME NEW u \in Users, NEW f \in Flows, NEW mode \in Modes,
                   StartFinish(r, u, mode, f)
            PROVE  req'[r].pc \notin Holding
        BY <3>2 DEF StartFinish
      <3>3. ASSUME NEW u \in Users, NEW t \in Tickets, StartRecoveryLogin(r, u, t)
            PROVE  req'[r].pc \notin Holding
        BY <3>3 DEF StartRecoveryLogin
      <3>4. ASSUME NEW s \in Sessions, StartAction(r, s)
            PROVE  req'[r].pc \notin Holding
        BY <3>4 DEF StartAction
      <3>5. QED
        BY <1>6, <3>1, <3>2, <3>3, <3>4 DEF Arrive
    <2>3. QED
      BY <1>4, <2>1, <2>2
  <1>7. ASSUME NEW r \in Requests, VerifyRecoveryKey(r), ~Done(r), ~Reject(r)
        PROVE  OneHeir'
    <2>1. /\ UNCHANGED <<ticket, session>>
          /\ Goes(r, IF req[r].op = "bootstrap" THEN "claim" ELSE "redeem")
      BY <1>7 DEF VerifyRecoveryKey, tokenVars
    <2>2. req'[r].pc \notin Holding /\ \A q \in Requests : q # r => req'[q] = req[q]
      BY <2>1 DEF Goes, Shape, RequestType, Holding
    <2>3. QED
      BY <1>4, <2>1, <2>2
  <1>8. ASSUME NEW r \in Requests, SaveCredential(r) \/ Reload(r), ~Reject(r)
        PROVE  OneHeir'
    <2>1. req[r].pc \in Holding /\ UNCHANGED <<ticket, session>>
      BY <1>8 DEF SaveCredential, Reload, At, Holding, tokenVars
    <2>2. req'[r].token = req[r].token /\ \A q \in Requests : q # r => req'[q] = req[q]
      BY <1>8 DEF SaveCredential, Reload, Goes, Shape, RequestType
    <2>3. QED
      BY <1>4, <2>1, <2>2
  <1>9. ASSUME NEW r \in Requests, Revalidate(r)
        PROVE  OneHeir'
    <2>1. req[r].session \in Sessions /\ ticket' = ticket
      BY <1>9 DEF Revalidate, At, TokensOK, RequestOK
    <2>2. \A s \in Sessions : session'[s].by = session[s].by
      BY <1>9, <2>1, EndingKeepsBy DEF Revalidate
    <2>3. CASE Goes(r, "act")
      <3>1. req'[r].pc \notin Holding /\ \A q \in Requests : q # r => req'[q] = req[q]
        BY <2>3, GoesOn DEF Points, Holding
      <3>2. QED
        BY <1>4, <2>1, <2>2, <3>1
    <2>4. QED
      BY <1>5, <1>9, <2>1, <2>2, <2>3 DEF Revalidate
  <1>10. CASE req' = req /\ UNCHANGED <<ticket, session>>
    BY <1>10, NoNewHeir
  <1>11. ASSUME NEW s \in Sessions, EndSession(s)
         PROVE  OneHeir'
    BY <1>11, NoNewHeir, EndingKeepsBy DEF EndSession
  <1>12. CASE ExpireToken
    BY <1>12, NoNewHeir, EndingKeepsBy DEF ExpireToken
  <1>13. CASE Restart
    BY <1>13, NoNewHeir, EndingKeepsBy, IdleTyped DEF Restart
  <1>14. ASSUME NEW r \in Requests, Handle(r)
         PROVE  OneHeir'
    <2>1. CASE Reject(r)
      BY <1>5, <2>1 DEF Reject, tokenVars
    <2>2. CASE ConsumeRecoveryTicket(r) /\ Done(r)
      <3>1. req[r].token \in Tickets /\ session' = session
        BY <2>2 DEF ConsumeRecoveryTicket, At, TokensOK, RequestOK
      <3>2. \A x \in Tickets : ticket'[x].by = ticket[x].by
        BY <2>2, <3>1, EndingKeepsBy DEF ConsumeRecoveryTicket
      <3>3. QED
        BY <1>5, <2>2, <3>1, <3>2
    <2>3. CASE Claim(r) \/ Act(r) \/ (Done(r) /\ (TakeFlow(r) \/ VerifyRecoveryKey(r)))
      BY <1>5, <2>1, <2>3 DEF Claim, Act, TakeFlow, VerifyRecoveryKey, tokenVars
    <2>4. QED
      BY <1>1, <1>2, <1>3, <1>7, <1>8, <1>9, <1>14, <2>1, <2>2, <2>3 DEF Handle
  <1>15. QED
    BY <1>6, <1>10, <1>11, <1>12, <1>13, <1>14
    DEF AuthNext, vars, tokenVars, Visit, Begin, WindowEnds

(***************************************************************************)
(* Administrators and sessions.                                            *)
(***************************************************************************)
LEMMA AccountsStep ==
    ASSUME Shape, TokensOK, AccountsOK, [AuthNext]_vars
    PROVE  AccountsOK' /\ (Admins # {} => Admins' # {})
  <1> DEFINE Goal == AccountsOK' /\ (Admins # {} => Admins' # {})
  <1>1. CASE UNCHANGED <<accountVars, claims>>
    <2>1. Admins' = Admins
      BY <1>1 DEF Admins, accountVars
    <2>2. QED
      BY <1>1, <2>1 DEF AccountsOK, accountVars, Settled
  <1>2. ASSUME NEW u \in Users, status' = Resolved(u), UNCHANGED <<role, claims>>
        PROVE  Goal
    <2>1. Admins' = Admins
      BY <1>2 DEF Admins, Resolved, Shape
    <2>2. QED
      BY <1>2, <2>1 DEF AccountsOK, Settled, Resolved, Shape
  <1>3. ASSUME NEW u \in Users, ClaimInitialAdmin(u)
        PROVE  Goal
    <2>1. claims = 0
      <3>1. claims \in Nat /\ Admins = {} /\ (claims > 0 => Admins # {})
        BY <1>3 DEF ClaimInitialAdmin, MayClaim, AccountsOK, Shape
      <3>2. QED
        BY <3>1
    <2>2. u \in Admins'
      BY <1>3 DEF ClaimInitialAdmin, Admins, Shape
    <2>3. \A v \in Users : ~Settled(v)' => role'[v] = ""
      BY <1>3 DEF ClaimInitialAdmin, AccountsOK, Settled, Shape
    <2>4. claims' = 1
      BY <1>3, <2>1 DEF ClaimInitialAdmin
    <2>5. Admins' # {} /\ claims' <= 1
      BY <2>2, <2>4
    <2>6. QED
      BY <2>3, <2>5 DEF AccountsOK
  <1>4. ASSUME NEW u \in Users, NEW as \in Roles, ApproveOperatorUser(u, as), claims' = claims
        PROVE  Goal
    <2>1. role[u] = ""
      BY <1>4 DEF ApproveOperatorUser, AccountsOK, Settled
    <2>2. Admins \subseteq Admins'
      BY <1>4, <2>1 DEF ApproveOperatorUser, Admins, Shape
    <2>3. \A v \in Users : ~Settled(v)' => role'[v] = ""
      BY <1>4 DEF ApproveOperatorUser, AccountsOK, Settled, Shape
    <2>4. QED
      BY <1>4, <2>2, <2>3 DEF AccountsOK
  <1>5. ASSUME NEW u \in Users, BlockOperatorUser(u), claims' = claims
        PROVE  Goal
    <2>1. Admins' = Admins \ {u}
      BY <1>5 DEF BlockOperatorUser, Admins, Shape
    <2>2. u \in Admins => Admins # {u}
      <3>1. u \in Admins => Cardinality(Admins) > 1
        BY <1>5 DEF BlockOperatorUser, MayBlock
      <3>2. Cardinality({u}) = 1
        BY FS_Singleton
      <3>3. QED
        BY <3>1, <3>2
    <2>3. \A v \in Users : ~Settled(v)' => role'[v] = ""
      BY <1>5 DEF BlockOperatorUser, AccountsOK, Settled, Shape
    <2>4. QED
      BY <1>5, <2>1, <2>2, <2>3 DEF AccountsOK
  <1>6. ASSUME NEW u \in Users, NEW enrollment \in BOOLEAN,
               SaveOperatorCredential(u, enrollment), claims' = claims
        PROVE  Goal
    <2>1. Admins' = Admins
      BY <1>6 DEF SaveOperatorCredential, MayEnrol, Admins, Shape
    <2>2. \A v \in Users : ~Settled(v)' => role'[v] = ""
      BY <1>6 DEF SaveOperatorCredential, MayEnrol, AccountsOK, Settled, Shape
    <2>3. QED
      BY <1>6, <2>1, <2>2 DEF AccountsOK
  <1>7. ASSUME NEW r \in Requests, Claim(r), ~Reject(r)
        PROVE  Goal
    BY <1>3, <1>7 DEF Claim, At, TokensOK, RequestOK
  <1>8. ASSUME NEW r \in Requests, SaveCredential(r), ~Reject(r)
        PROVE  Goal
    <2>1. PICK u \in Users : u = req[r].user
      BY <1>8 DEF SaveCredential, At, TokensOK, RequestOK, Known, Holding
    <2>2. PICK enrollment \in BOOLEAN : enrollment <=> req[r].op = "enrollment"
      OBVIOUS
    <2>3. SaveOperatorCredential(u, enrollment) /\ claims' = claims
      BY <1>8, <2>1, <2>2 DEF SaveCredential, SaveOperatorCredential
    <2>4. QED
      BY <1>6, <2>3
  <1>9. ASSUME NEW r \in Requests, Act(r), ~Reject(r)
        PROVE  Goal
    BY <1>4, <1>5, <1>9 DEF Act
  <1>10. ASSUME NEW r \in Requests, Reject(r)
         PROVE  Goal
    BY <1>1, <1>10 DEF Reject
  <1>11. QED
    BY <1>1, <1>2, <1>7, <1>8, <1>9, <1>10
    DEF AuthNext, vars, Arrive, Handle, StartBootstrap, StartFinish, StartRecoveryLogin,
        StartAction, VerifyRecoveryKey, TakeFlow, Reload, IssueRecoveryTicket,
        ConsumeRecoveryTicket, IssueUserSession, Revalidate, Visit, Begin, EndSession,
        ExpireToken, WindowEnds, Restart

(***************************************************************************)
(* Limits.                                                                 *)
(***************************************************************************)
Within(S, n) == IsFiniteSet(S) /\ Cardinality(S) <= n

\* A part of what is within a limit is.
LEMMA FewerWithin ==
    ASSUME NEW n \in Nat, NEW S, NEW T, T \subseteq S, Within(S, n)
    PROVE  Within(T, n)
  <1>1. IsFiniteSet(T) /\ Cardinality(T) <= Cardinality(S)
    BY FS_Subset DEF Within
  <1>2. Cardinality(S) \in Nat /\ Cardinality(T) \in Nat
    BY <1>1, FS_CardinalityType DEF Within
  <1>3. QED
    BY <1>1, <1>2 DEF Within

\* Below the limit there is room for one more.
LEMMA OneMoreWithin ==
    ASSUME NEW n \in Nat, NEW S, NEW x, x \notin S, Within(S, n), Cardinality(S) < n
    PROVE  Within(S \cup {x}, n)
  <1>1. /\ IsFiniteSet(S \cup {x}) /\ Cardinality(S \cup {x}) = Cardinality(S) + 1
        /\ Cardinality(S) \in Nat
    BY FS_AddElement, FS_CardinalityType DEF Within
  <1>2. QED
    BY <1>1 DEF Within

FlowsBounded == Within(LiveFlows, MaxActiveFlows)

\* A ceremony begins below the limit only; everything else ends ceremonies.
LEMMA FlowsBoundedStep ==
    ASSUME Shape, TokensOK, FlowsBounded, [AuthNext]_vars
    PROVE  FlowsBounded'
  <1>1. ASSUME LiveFlows' \subseteq LiveFlows
        PROVE  FlowsBounded'
    BY <1>1, FewerWithin, AuthAssumption DEF FlowsBounded
  <1>2. ASSUME NEW u \in Users, NEW mode \in Modes, NEW f \in Flows, Begin(u, mode, f)
        PROVE  FlowsBounded'
    <2>1. LiveFlows' = LiveFlows \cup {f} /\ f \notin LiveFlows
      BY <1>2 DEF Begin, LiveFlows, Shape
    <2>2. QED
      BY <1>2, <2>1, OneMoreWithin, AuthAssumption DEF Begin, MayBegin, FlowsBounded
  <1>3. CASE flow' = flow
    BY <1>1, <1>3 DEF LiveFlows
  <1>4. ASSUME NEW f \in Flows, flow' = [flow EXCEPT ![f].state = "ended"]
        PROVE  FlowsBounded'
    BY <1>1, <1>4 DEF LiveFlows, Shape, FlowType
  <1>5. ASSUME NEW r \in Requests, TakeFlow(r)
        PROVE  FlowsBounded'
    BY <1>4, <1>5 DEF TakeFlow, Spent, At, TokensOK, RequestOK
  <1>6. CASE Restart
    BY <1>1, <1>6 DEF Restart, End, LiveFlows, Shape, FlowType
  <1>7. QED
    BY <1>2, <1>3, <1>4, <1>5, <1>6
    DEF AuthNext, vars, tokenVars, Arrive, Handle, StartBootstrap, StartFinish,
        StartRecoveryLogin, StartAction, VerifyRecoveryKey, Claim, SaveCredential, Reload,
        IssueRecoveryTicket, ConsumeRecoveryTicket, IssueUserSession, Revalidate, Act, Reject,
        Visit, EndSession, ExpireToken, WindowEnds

\* Live sessions are counted before one more is issued.
Bounded == Within(LiveSessions, MaxActiveSessions)

\* A session is issued below the limit only; everything else ends sessions.
LEMMA BoundedStep ==
    ASSUME Shape, TokensOK, Bounded, [AuthNext]_vars
    PROVE  Bounded'
  <1>1. ASSUME LiveSessions' \subseteq LiveSessions
        PROVE  Bounded'
    BY <1>1, FewerWithin, AuthAssumption DEF Bounded
  <1>2. ASSUME NEW r \in Requests, IssueUserSession(r), ~Reject(r)
        PROVE  Bounded'
    <2>1. PICK s \in Sessions : /\ session[s].state = "unused"
                                /\ session' = [session EXCEPT ![s] =
                                      [state |-> "live", user |-> req[r].user,
                                       role |-> req[r].role, by |-> req[r].token]]
                                /\ Cardinality(LiveSessions) < MaxActiveSessions
      BY <1>2 DEF IssueUserSession, MayIssue
    <2>2. LiveSessions' = LiveSessions \cup {s} /\ s \notin LiveSessions
      BY <2>1 DEF LiveSessions, Shape
    <2>3. QED
      BY <2>1, <2>2, OneMoreWithin, AuthAssumption DEF Bounded
  <1>3. CASE session' = session
    BY <1>1, <1>3 DEF LiveSessions
  <1>4. ASSUME NEW s \in Sessions, session' = Ended(s)
        PROVE  Bounded'
    BY <1>1, <1>4 DEF Ended, LiveSessions, Shape, SessionType
  <1>5. ASSUME NEW r \in Requests, Revalidate(r)
        PROVE  Bounded'
    BY <1>3, <1>4, <1>5 DEF Revalidate, At, TokensOK, RequestOK
  <1>6. CASE Restart
    BY <1>1, <1>6 DEF Restart, End, LiveSessions, Shape, SessionType
  <1>7. QED
    BY <1>2, <1>3, <1>4, <1>5, <1>6
    DEF AuthNext, vars, tokenVars, Arrive, Handle, StartBootstrap, StartFinish,
        StartRecoveryLogin, StartAction, VerifyRecoveryKey, Claim, TakeFlow, SaveCredential,
        Reload, IssueRecoveryTicket, ConsumeRecoveryTicket, Act, Reject, Visit, Begin,
        EndSession, ExpireToken, WindowEnds, IssueUserSession

(***************************************************************************)
(* Theorems.                                                               *)
(***************************************************************************)
LEMMA AuthInvInit == AuthInit => AuthInv
  <1> SUFFICES ASSUME AuthInit PROVE AuthInv
    OBVIOUS
  <1>1. Shape
    <2>1. /\ status \in [Users -> Statuses] /\ role \in [Users -> Roles]
          /\ passkey \subseteq Users
      BY DEF AuthInit, Statuses, Roles
    <2>2. flow \in [Flows -> FlowType]
      BY DEF AuthInit, FlowType, TokenStates
    <2>3. ticket \in [Tickets -> TicketType]
      BY DEF AuthInit, TicketType, TokenStates
    <2>4. session \in [Sessions -> SessionType]
      BY DEF AuthInit, SessionType, TokenStates, Roles
    <2>5. attempts \in 0 .. MaxLoginAttempts /\ claims \in Nat
      <3>1. attempts = 0 /\ claims = 0 /\ MaxLoginAttempts \in Nat
        BY AuthAssumption DEF AuthInit
      <3>2. QED
        BY <3>1
    <2>6. req \in [Requests -> RequestType]
      BY IdleTyped DEF AuthInit
    <2>7. QED
      BY <2>1, <2>2, <2>3, <2>4, <2>5, <2>6 DEF Shape
  <1>2. LiveSessions = {} /\ LiveFlows = {}
    BY DEF AuthInit, LiveSessions, LiveFlows
  <1>3. Bounded /\ FlowsBounded
    BY <1>2, FS_EmptySet, AuthAssumption DEF Bounded, FlowsBounded, Within
  <1>4. AccountsOK
    <2>1. \A u \in Users : role[u] = ""
      BY DEF AuthInit
    <2>2. claims = 0
      BY DEF AuthInit
    <2>3. claims <= 1 /\ ~(claims > 0)
      BY <2>2
    <2>4. QED
      BY <2>1, <2>3 DEF AccountsOK
  <1>5. TokensOK
    BY IdleTyped DEF AuthInit, TokensOK, TicketOK, SessionOK, RequestOK
  <1>6. OneHeir
    BY IdleTyped DEF AuthInit, OneHeir, OneSessionPerToken
  <1>7. QED
    BY <1>1, <1>3, <1>4, <1>5, <1>6 DEF AuthInv, AuthTypeOK, Shape, Bounded, FlowsBounded, Within

\* The parts of the invariant.
LEMMA AuthInvParts ==
    AuthInv <=> Shape /\ Bounded /\ FlowsBounded /\ AccountsOK /\ TokensOK /\ OneHeir
  BY DEF AuthInv, AuthTypeOK, Shape, Bounded, FlowsBounded, Within

\* Every step of the console keeps the invariant.
LEMMA AuthInvStep ==
    ASSUME AuthInv, [AuthNext]_vars
    PROVE  AuthInv'
  <1>1. Shape /\ Bounded /\ FlowsBounded /\ AccountsOK /\ TokensOK /\ OneHeir
    BY AuthInvParts
  <1>2. Shape'
    BY <1>1, ShapeStep DEF TokensOK
  <1>3. Bounded' /\ FlowsBounded' /\ AccountsOK' /\ TokensOK' /\ OneHeir'
    BY <1>1, BoundedStep, FlowsBoundedStep, AccountsStep, TokensStep, HeirStep
  <1>4. QED
    BY <1>2, <1>3 DEF AuthInv, AuthTypeOK, Shape, Bounded, FlowsBounded, Within

\* The inductive invariant of the console's authentication: accounts, what
\* handlers hold between two steps, and one heir for every token.
THEOREM AuthInvariant == AuthSpec => []AuthInv
  <1>1. AuthInv /\ [AuthNext]_vars => AuthInv'
    BY AuthInvStep
  <1>2. QED
    BY <1>1, AuthInvInit, PTL DEF AuthSpec

\* Accounts, tokens and handlers are well-formed, no address tries more keys in
\* a window than allowed, and ceremonies and sessions stay within their limits.
THEOREM AuthTyped == AuthSpec => []AuthTypeOK
  <1>1. AuthInv => AuthTypeOK
    BY DEF AuthInv
  <1>2. QED
    BY <1>1, AuthInvariant, PTL

\* However many identities prove the recovery key at once, one claim succeeds.
THEOREM AuthOneClaim == AuthSpec => []OneInitialClaim
  <1>1. AuthInv => OneInitialClaim
    BY DEF AuthInv, AccountsOK, OneInitialClaim
  <1>2. QED
    BY <1>1, AuthInvariant, PTL

\* However many requests present a ceremony's token, one of them gets a session
\* or a ticket for it.
THEOREM AuthOneSessionPerToken == AuthSpec => []OneSessionPerToken
  <1>1. AuthInv => OneSessionPerToken
    BY DEF AuthInv, OneHeir
  <1>2. QED
    BY <1>1, AuthInvariant, PTL

\* Every session was earned by its own user with the right kind of ceremony.
THEOREM AuthSessionsEarned == AuthSpec => []SessionsAreEarned
  <1>1. AuthInv => SessionsAreEarned
    <2> SUFFICES ASSUME AuthInv, NEW s \in Sessions, session[s].state # "unused"
                 PROVE  /\ session[s].user \in passkey
                        /\ role[session[s].user] = session[s].role
                        /\ \/ /\ session[s].by \in Flows
                              /\ flow[session[s].by].user = session[s].user
                              /\ flow[session[s].by].mode \in {"login", "enrollment"}
                           \/ /\ session[s].by \in Tickets
                              /\ ticket[session[s].by].user = session[s].user
                              /\ flow[ticket[session[s].by].by].user = session[s].user
                              /\ flow[ticket[session[s].by].by].mode = "recovery"
      BY DEF SessionsAreEarned
    <2> DEFINE x == session[s].by
               u == session[s].user
    <2>1. u \in passkey /\ role[u] = session[s].role /\ TokenEnded(x) /\ Entitles(x, u)
      BY DEF AuthInv, TokensOK, SessionOK
    <2>2. CASE x \in Tickets /\ ticket[x].user = u
      <3>1. ticket[x].state # "unused"
        BY <2>1, <2>2, AuthAssumption DEF TokenEnded
      <3>2. flow[ticket[x].by] = [state |-> "ended", user |-> ticket[x].user, mode |-> "recovery"]
        BY <2>2, <3>1 DEF AuthInv, TokensOK, TicketOK
      <3>3. QED
        BY <2>1, <2>2, <3>2
    <2>3. QED
      BY <2>1, <2>2 DEF Entitles
  <1>2. QED
    BY <1>1, AuthInvariant, PTL

\* The console never loses its last administrator.
THEOREM AuthAdminRemains == AuthSpec => AdminRemains
  <1>1. AuthInv /\ [AuthNext]_vars => [Admins # {} => Admins' # {}]_vars
    BY AuthInvParts, AccountsStep
  <1>2. QED
    BY <1>1, AuthInvariant, PTL DEF AuthSpec, AdminRemains

\* Blocking is final, for requests under way too.
THEOREM AuthBlockedStays == AuthSpec => BlockedStaysBlocked
  <1>1. AuthInv /\ [AuthNext]_vars =>
            [\A u \in Users : status[u] = "blocked" => status'[u] = "blocked"]_vars
    BY AuthInvParts, AccountsKept DEF TokensOK
  <1>2. QED
    BY <1>1, AuthInvariant, PTL DEF AuthSpec, BlockedStaysBlocked

\* A blocked account is let in nowhere, whatever sessions, ceremonies and
\* tickets it has left.
THEOREM AuthBlockedLetInNowhere == AuthSpec => BlockedIsLetInNowhere
  <1> DEFINE LetIn(r) ==
          req[r].pc \in {"idle", "revalidate"} /\ req'[r].pc \notin {"idle", "revalidate"} =>
              status'[req'[r].user] # "blocked"
  <1>1. AuthInv /\ [AuthNext]_vars => \A r \in Requests : LetIn(r)
    <2> SUFFICES ASSUME AuthInv, [AuthNext]_vars, NEW r \in Requests
                 PROVE  LetIn(r)
      OBVIOUS
    <2>0. Shape
      BY AuthInvParts
    <2>1. CASE req'[r] = req[r] \/ req'[r] = Idle
      BY <2>1, IdleTyped
    <2>2. ASSUME NEW q \in Requests, Arrive(q) \/ Handle(q), q # r
          PROVE  LetIn(r)
      BY <2>0, <2>1, <2>2, OwnRequest
    <2>3. ASSUME NEW u \in Users, StartBootstrap(r, u)
          PROVE  LetIn(r)
      BY <2>0, <2>3 DEF StartBootstrap, Shape, Idle
    <2>4. ASSUME NEW u \in Users, NEW mode \in Modes, NEW f \in Flows, StartFinish(r, u, mode, f)
          PROVE  LetIn(r)
      BY <2>0, <2>4 DEF StartFinish, Required, accountVars, Shape, Idle
    <2>5. ASSUME NEW u \in Users, NEW t \in Tickets, StartRecoveryLogin(r, u, t)
          PROVE  LetIn(r)
      BY <2>0, <2>5 DEF StartRecoveryLogin, accountVars, Shape, Idle
    <2>6. ASSUME NEW s \in Sessions, StartAction(r, s)
          PROVE  LetIn(r)
      BY <2>0, <2>6 DEF StartAction, Shape, Idle
    <2>7. CASE Revalidate(r)
      <3>1. CASE Done(r)
        BY <2>0, <2>1, <3>1, Ends
      <3>2. CASE StillValid(r) /\ Goes(r, "act")
        BY <2>0, <2>7, <3>2, GoesOn DEF Revalidate, StillValid, accountVars, Points
      <3>3. QED
        BY <2>7, <3>1, <3>2 DEF Revalidate
    <2>8. CASE Handle(r) /\ ~Revalidate(r)
      BY <2>8
      DEF Handle, VerifyRecoveryKey, Claim, TakeFlow, SaveCredential, Reload,
          IssueRecoveryTicket, ConsumeRecoveryTicket, IssueUserSession, Act, At
    <2>9. CASE Restart
      BY <2>1, <2>9 DEF Restart
    <2>10. CASE req' = req
      BY <2>1, <2>10
    <2>11. QED
      BY <2>2, <2>3, <2>4, <2>5, <2>6, <2>7, <2>8, <2>9, <2>10
      DEF AuthNext, vars, Arrive, Visit, Begin, EndSession, ExpireToken, WindowEnds
  <1>2. QED
    BY <1>1, AuthInvariant, PTL DEF AuthSpec, BlockedIsLetInNowhere

=============================================================================
