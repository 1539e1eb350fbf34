------------------------- MODULE Permissions_proofs -------------------------
(***************************************************************************)
(* Proofs about Permissions: the shape of its state, that a tool call      *)
(* proceeds only with an authority, that a request is decided once, and    *)
(* that who waits can be answered.                                         *)
(***************************************************************************)
EXTENDS Permissions, SequenceTheorems, TLAPS

USE DEF Conns, NoConn, Decisions, Answers, Clicks

-----------------------------------------------------------------------------
(* Types *)

\* Conn.Send queues a well-formed answer, or nothing.
LEMMA SendType ==
  ASSUME NEW c, NEW r \in Requests, NEW d \in Decisions,
         down \in [Conns -> Seq(Answers)],
         alive \in [Conns -> BOOLEAN],
         c \in Conns \cup {NoConn},
         Send(c, r, d)
  PROVE  down' \in [Conns -> Seq(Answers)]
<1>1. CASE c # NoConn /\ alive[c]
  <2>1. [req |-> r, decision |-> d] \in Answers
    OBVIOUS
  <2>2. Append(down[c], [req |-> r, decision |-> d]) \in Seq(Answers)
    BY <1>1, <2>1, AppendProperties
  <2>. QED
    BY <1>1, <2>2 DEF Send
<1>. QED
  BY <1>1 DEF Send

\* A runner's step keeps the shape of the state: requestPermission, its
\* deadline, the answers it reads and the connection it loses.
LEMMA RunnerType ==
  ASSUME TypeOK, Runner
  PROVE  TypeOK'
<1>1. ASSUME NEW r \in Requests, Register(r)
      PROVE  TypeOK'
  BY <1>1 DEF TypeOK, Register, WaiterStates, wire, server, surface
<1>2. ASSUME NEW r \in Requests, SendRequest(r)
      PROVE  TypeOK'
  <2>1. up' \in [Conns -> Seq(Requests)]
    <3>1. ASSUME link \in Conns
          PROVE  Append(up[link], r) \in Seq(Requests)
      BY <3>1, AppendProperties DEF TypeOK
    <3>. QED
      BY <1>2, <3>1 DEF TypeOK, SendRequest
  <2>2. waiter' \in [Requests -> WaiterStates]
    BY <1>2 DEF TypeOK, SendRequest, WaiterStates
  <2>. QED
    BY <1>2, <2>1, <2>2 DEF TypeOK, SendRequest, server, surface
<1>3. ASSUME NEW r \in Requests, Timeout(r)
      PROVE  TypeOK'
  BY <1>3 DEF TypeOK, Timeout, WaiterStates, wire, server, surface
<1>4. ASSUME ReceiveAnswer
      PROVE  TypeOK'
  <2>1. down[link] \in Seq(Answers) /\ down[link] # <<>>
    BY <1>4 DEF TypeOK, ReceiveAnswer
  <2>2. Tail(down[link]) \in Seq(Answers)
    BY <2>1, HeadTailProperties
  <2>3. waiter' \in [Requests -> WaiterStates]
    BY <1>4 DEF TypeOK, ReceiveAnswer, WaiterStates, Behavior
  <2>. QED
    BY <1>4, <2>2, <2>3 DEF TypeOK, ReceiveAnswer, server, surface
<1>5. ASSUME RunnerDrops
      PROVE  TypeOK'
  <2>1. waiter' \in [Requests -> WaiterStates]
    BY <1>5 DEF TypeOK, RunnerDrops, WaiterStates
  <2>. QED
    BY <1>5, <2>1 DEF TypeOK, RunnerDrops, wire, server, surface
<1>. QED
  BY <1>1, <1>2, <1>3, <1>4, <1>5 DEF Runner

\* So does a step of a connection's goroutine that handles a frame.
LEMMA RequestType ==
  ASSUME TypeOK, NEW c \in Conns,
         OnPermissionRequest(c) \/ RecordUnprompted(c) \/ PostPrompt(c)
  PROVE  TypeOK'
<1>1. CASE OnPermissionRequest(c)
  <2>. DEFINE r == Head(up[c])
  <2>1. r \in Requests /\ Tail(up[c]) \in Seq(Requests)
    BY <1>1, HeadTailProperties DEF TypeOK, OnPermissionRequest
  <2>2. up' \in [Conns -> Seq(Requests)]
    BY <1>1, <2>1 DEF TypeOK, OnPermissionRequest
  <2>3. \/ Send(c, r, "deny")
        \/ Send(c, r, "allow")
        \/ UNCHANGED down
    BY <1>1 DEF OnPermissionRequest
  <2>4. down' \in [Conns -> Seq(Answers)]
    <3>. HIDE DEF r
    <3>. QED
      BY <2>1, <2>3, SendType DEF TypeOK
  <2>5. /\ audit' = audit \/ audit' = [audit EXCEPT ![r] = "asked"]
        /\ \/ UNCHANGED <<phase, handling>>
           \/ \E ph \in {"recordDeny", "recordAllow", "post"} : Goto(c, ph, {r})
    BY <1>1 DEF OnPermissionRequest
  <2>6. /\ phase' \in [Conns -> Phases]
        /\ handling' \in [Conns -> SUBSET Requests]
    <3>. HIDE DEF r
    <3>. QED
      BY <2>1, <2>5 DEF TypeOK, Goto, Phases
  <2>7. audit' \in [Requests -> Decisions \cup {"none", "asked", "cancelled"}]
    <3>. HIDE DEF r
    <3>. QED
      BY <2>1, <2>5 DEF TypeOK
  <2>. QED
    BY <1>1, <2>2, <2>4, <2>6, <2>7 DEF TypeOK, OnPermissionRequest, runner, surface
<1>2. CASE RecordUnprompted(c)
  <2>1. audit' \in [Requests -> Decisions \cup {"none", "asked", "cancelled"}]
    BY <1>2 DEF TypeOK, RecordUnprompted
  <2>2. /\ phase' \in [Conns -> Phases]
        /\ handling' \in [Conns -> SUBSET Requests]
    BY <1>2 DEF TypeOK, RecordUnprompted, Goto, Phases
  <2>. QED
    BY <1>2, <2>1, <2>2 DEF TypeOK, RecordUnprompted, runner, wire, surface
<1>3. CASE PostPrompt(c)
  <2>1. down' \in [Conns -> Seq(Answers)]
    <3>1. ASSUME NEW r \in handling[c], Send(c, r, "deny")
          PROVE  down' \in [Conns -> Seq(Answers)]
      <4>1. r \in Requests
        BY <3>1 DEF TypeOK
      <4>. QED
        BY <3>1, <4>1, SendType DEF TypeOK
    <3>. QED
      BY <1>3, <3>1 DEF TypeOK, PostPrompt, PromptFails
  <2>2. /\ phase' \in [Conns -> Phases]
        /\ handling' \in [Conns -> SUBSET Requests]
        /\ prompts' \subseteq Requests
    BY <1>3 DEF TypeOK, PostPrompt, Goto, Phases
  <2>. QED
    BY <1>3, <2>1, <2>2 DEF TypeOK, PostPrompt, runner, surface
<1>. QED
  BY <1>1, <1>2, <1>3

\* So does the beginning and the end of a connection, with its teardown.
LEMMA TeardownType ==
  ASSUME TypeOK, NEW c \in Conns,
         \/ Connect(c) \/ Break(c) \/ Unregister(c) \/ FailPendingFor(c)
         \/ CancelPrompt(c) \/ FailingDone(c)
         \/ \E r \in Requests : VisitPrompt(c, r)
  PROVE  TypeOK'
<1>1. CASE Connect(c)
  BY <1>1 DEF TypeOK, Connect, Phases, surface
<1>2. CASE Break(c)
  <2>1. down' \in [Conns -> Seq(Answers)]
    BY <1>2, EmptySeq DEF TypeOK, Break
  <2>. QED
    BY <1>2, <2>1 DEF TypeOK, Break, runner, server, surface
<1>3. CASE Unregister(c)
  BY <1>3 DEF TypeOK, Unregister, Phases, runner, wire, surface
<1>4. CASE FailPendingFor(c)
  BY <1>4 DEF TypeOK, FailPendingFor, Phases, runner, wire, surface
<1>5. CASE CancelPrompt(c)
  <2>1. audit' \in [Requests -> Decisions \cup {"none", "asked", "cancelled"}]
    BY <1>5 DEF TypeOK, CancelPrompt
  <2>2. /\ phase' \in [Conns -> Phases]
        /\ handling' \in [Conns -> SUBSET Requests]
        /\ prompts' \subseteq Requests
    BY <1>5 DEF TypeOK, CancelPrompt, Goto, Phases
  <2>. QED
    BY <1>5, <2>1, <2>2 DEF TypeOK, CancelPrompt, runner, wire, surface
<1>6. CASE FailingDone(c)
  BY <1>6 DEF TypeOK, FailingDone, Phases, runner, wire, surface
<1>7. ASSUME NEW r \in Requests, VisitPrompt(c, r)
      PROVE  TypeOK'
  <2>1. /\ phase' \in [Conns -> Phases]
        /\ handling' \in [Conns -> SUBSET Requests]
        /\ left' \in [Conns -> SUBSET Requests]
    BY <1>7 DEF TypeOK, VisitPrompt, Goto, Phases
  <2>. QED
    BY <1>7, <2>1 DEF TypeOK, VisitPrompt, runner, wire, surface
<1>. QED
  BY <1>1, <1>2, <1>3, <1>4, <1>5, <1>6, <1>7

\* What OnDecision works on is a click.
LEMMA PumpBusy ==
  ASSUME TypeOK, pump # Idle
  PROVE  /\ pump \in [step : Steps, click : Clicks]
         /\ pump.click \in Clicks
         /\ pump.click.req \in Requests
         /\ pump.click.decision \in Decisions
BY DEF TypeOK

\* So does a click or a command.
LEMMA SurfaceType ==
  ASSUME TypeOK, Surface
  PROVE  TypeOK'
<1>1. ASSUME NEW k \in Clicks, Click(k)
      PROVE  TypeOK'
  <2>1. pump' \in [step : Steps, click : Clicks]
    BY <1>1 DEF Click, Steps
  <2>. QED
    BY <1>1, <2>1 DEF TypeOK, Click, runner, wire, server
<1>2. CASE Claim
  <2>1. pump' \in {Idle} \cup [step : Steps, click : Clicks]
    BY <1>2, PumpBusy DEF Claim, Steps
  <2>. QED
    BY <1>2, <2>1 DEF TypeOK, Claim, Claims, runner, wire, server
<1>3. CASE RecordDecision
  <2>1. pump' \in [step : Steps, click : Clicks]
    BY <1>3, PumpBusy DEF RecordDecision, Steps
  <2>2. audit' \in [Requests -> Decisions \cup {"none", "asked", "cancelled"}]
    BY <1>3, PumpBusy DEF TypeOK, RecordDecision
  <2>3. grants' \subseteq Threads \X Tools
    <3>1. PICK r \in Requests : r = pump.click.req
      BY <1>3, PumpBusy DEF RecordDecision
    <3>2. <<ThreadOf[TurnOf[r]], ToolOf[r]>> \in Threads \X Tools
      BY RequestsAssumption
    <3>3. grants' = grants \/ grants' = grants \cup {<<ThreadOf[TurnOf[r]], ToolOf[r]>>}
      BY <1>3, <3>1 DEF RecordDecision
    <3>. QED
      BY <3>2, <3>3 DEF TypeOK
  <2>. QED
    BY <1>3, <2>1, <2>2, <2>3 DEF TypeOK, RecordDecision, runner, wire, server
<1>4. CASE Reply
  <2>1. down' \in [Conns -> Seq(Answers)]
    <3>1. PICK r \in Requests : r = pump.click.req
      BY <1>4, PumpBusy DEF Reply
    <3>2. PICK d \in Decisions : d = pump.click.decision
      BY <1>4, PumpBusy DEF Reply
    <3>3. Send(hub, r, d)
      BY <1>4, <3>1, <3>2 DEF Reply
    <3>4. /\ down \in [Conns -> Seq(Answers)]
          /\ alive \in [Conns -> BOOLEAN]
          /\ hub \in Conns \cup {NoConn}
      BY DEF TypeOK
    <3>. QED
      BY <3>3, <3>4, SendType
  <2>. QED
    BY <1>4, <2>1 DEF TypeOK, Reply, runner, server
<1>5. ASSUME NEW t \in Threads, NewSession(t)
      PROVE  TypeOK'
  BY <1>5 DEF TypeOK, NewSession, runner, wire, server, surface
<1>. QED
  BY <1>1, <1>2, <1>3, <1>4, <1>5 DEF Surface

\* So do turns and a restart.
LEMMA EnvironmentType ==
  ASSUME TypeOK, Environment
  PROVE  TypeOK'
<1>1. ASSUME NEW t \in Turns, OpenTurn(t) \/ EndTurn(t)
      PROVE  TypeOK'
  BY <1>1 DEF TypeOK, OpenTurn, EndTurn, runner, wire, server, surface
<1>2. CASE Restart
  <2>1. turn' \in [Turns -> {"new", "open", "ended"}]
    BY <1>2 DEF TypeOK, Restart
  <2>2. /\ up' \in [Conns -> Seq(Requests)]
        /\ down' \in [Conns -> Seq(Answers)]
    BY <1>2, EmptySeq DEF Restart
  <2>3. phase' \in [Conns -> Phases]
    BY <1>2 DEF TypeOK, Restart, Phases
  <2>4. restarts' \in 0 .. MaxRestarts
    BY <1>2, BoundsAssumption DEF TypeOK, Restart
  <2>. QED
    BY <1>2, <2>1, <2>2, <2>3, <2>4 DEF TypeOK, Restart, runner
<1>. QED
  BY <1>1, <1>2 DEF Environment

\* Every step keeps the shape of the state.
LEMMA TypeStep ==
  ASSUME TypeOK, [Next]_vars
  PROVE  TypeOK'
<1>1. ASSUME NEW c \in Conns, Connection(c)
      PROVE  TypeOK'
  BY <1>1, RequestType, TeardownType DEF Connection
<1>2. CASE UNCHANGED vars
  BY <1>2 DEF TypeOK, vars, runner, wire, server, surface
<1>. QED
  BY <1>1, <1>2, RunnerType, SurfaceType, EnvironmentType DEF Next

\* The gateway and its runner start in a state of that shape.
LEMMA TypeInit ==
  ASSUME Init
  PROVE  TypeOK
BY EmptySeq, BoundsAssumption DEF Init, TypeOK, WaiterStates, Phases

\* Every reachable state has the shape TypeOK gives it.
THEOREM TypeCorrect == Spec => []TypeOK
<1>1. Init => TypeOK
  BY TypeInit
<1>2. TypeOK /\ [Next]_vars => TypeOK'
  BY TypeStep
<1>. QED
  BY <1>1, <1>2, PTL DEF Spec

-----------------------------------------------------------------------------
(* Authority *)

\* An approver's click that the gateway has taken up.
Sanctioned(k) == k \in clicked /\ ApproverAllowed(k.user)

\* Every answer on its way that lets a call proceed is authorized ...
AnswersOK ==
  \A c \in Conns : \A i \in DOMAIN down[c] :
    Allows(down[c][i].decision) => Authorized(down[c][i].req)
\* ... only what no deny rule matches is asked about, or about to be ...
PromptsOK ==
  /\ prompts \cap Denied = {}
  /\ \A c \in Conns : phase[c] = "post" => handling[c] \cap Denied = {}
\* ... so the click being handled is an approver's on such a request ...
PumpOK == pump # Idle => Sanctioned(pump.click) /\ pump.click.req \notin Denied
\* ... and a grant goes back to a click for the session.
GrantsOK ==
  \A g \in grants : \E k \in clicked :
    /\ Sanctioned(k)
    /\ k.decision = "allow_session"
    /\ g = <<ThreadOf[TurnOf[k.req]], ToolOf[k.req]>>

\* The invariant AllowHasAuthor rests on: authority is kept along the whole way
\* from a click to the harness.
AuthorityOK == AllowHasAuthor /\ AnswersOK /\ PromptsOK /\ PumpOK /\ GrantsOK

\* An authority is never withdrawn: clicks are not unmade.
LEMMA AuthorityStays ==
  ASSUME clicked \subseteq clicked', NEW r, Authorized(r)
  PROVE  Authorized(r)'
BY DEF Authorized, Approved

\* Conn.Send of an authorized answer keeps every answer authorized.
LEMMA SendAuthorized ==
  ASSUME TypeOK, AnswersOK, UNCHANGED clicked,
         NEW c \in Conns \cup {NoConn}, NEW r \in Requests,
         NEW d \in Decisions, Send(c, r, d), Allows(d) => Authorized(r)
  PROVE  AnswersOK'
<1>1. ASSUME NEW b \in Conns, NEW i \in DOMAIN down'[b],
             Allows(down'[b][i].decision)
      PROVE  Authorized(down'[b][i].req)
  <2>1. CASE down'[b] = down[b]
    BY <1>1, <2>1 DEF AnswersOK
  <2>2. CASE down'[b] = Append(down[b], [req |-> r, decision |-> d])
    <3>1. down[b] \in Seq(Answers) /\ [req |-> r, decision |-> d] \in Answers
      BY DEF TypeOK
    <3>2. CASE i \in 1 .. Len(down[b])
      BY <1>1, <2>2, <3>1, <3>2 DEF AnswersOK
    <3>3. CASE i = Len(down[b]) + 1
      BY <1>1, <2>2, <3>1, <3>3
    <3>. QED
      BY <2>2, <3>1, <3>2, <3>3
  <2>. QED
    BY <2>1, <2>2 DEF Send, TypeOK
<1>. QED
  BY <1>1, AuthorityStays DEF AnswersOK, Allows

\* A step that lets nobody proceed, asks nobody, sends and grants nothing and
\* takes up no click keeps the invariant.
LEMMA Quiet ==
  ASSUME AuthorityOK, UNCHANGED clicked,
         \A r \in Requests : waiter'[r] = "allow" => waiter[r] = "allow",
         \A c \in Conns : down'[c] = down[c] \/ down'[c] = <<>>,
         prompts' \subseteq prompts,
         \A c \in Conns :
           phase'[c] = "post" => phase[c] = "post" /\ handling'[c] = handling[c],
         pump' = pump \/ pump' = Idle,
         grants' \subseteq grants
  PROVE  AuthorityOK'
<1>1. AllowHasAuthor'
  BY AuthorityStays DEF AuthorityOK, AllowHasAuthor
<1>2. AnswersOK'
  <2>1. ASSUME NEW c \in Conns, NEW i \in DOMAIN down'[c],
               Allows(down'[c][i].decision)
        PROVE  Authorized(down'[c][i].req)
    BY <2>1 DEF AuthorityOK, AnswersOK
  <2>. QED
    BY <2>1, AuthorityStays DEF AnswersOK, Allows
<1>3. PromptsOK'
  BY DEF AuthorityOK, PromptsOK
<1>4. PumpOK'
  BY DEF AuthorityOK, PumpOK, Sanctioned, ApproverAllowed
<1>5. GrantsOK'
  BY DEF AuthorityOK, GrantsOK, Sanctioned, ApproverAllowed
<1>. QED
  BY <1>1, <1>2, <1>3, <1>4, <1>5 DEF AuthorityOK

\* Reading an answer: the harness proceeds only on an authorized one.
LEMMA ReceiveAuthority ==
  ASSUME TypeOK, AuthorityOK, ReceiveAnswer
  PROVE  AuthorityOK'
<1>. DEFINE a == Head(down[link])
<1>1. /\ link \in Conns
      /\ down[link] \in Seq(Answers)
      /\ down[link] # <<>>
  BY DEF TypeOK, ReceiveAnswer
<1>2. a = down[link][1] /\ 1 \in DOMAIN down[link] /\ a \in Answers
  <2>1. ASSUME NEW S, NEW s \in Seq(S), s # <<>>
        PROVE  Head(s) = s[1] /\ 1 \in DOMAIN s /\ Head(s) \in S
    BY <2>1
  <2>. QED
    BY <1>1, <2>1
<1>3. Allows(a.decision) => Authorized(a.req)
  BY <1>1, <1>2 DEF AuthorityOK, AnswersOK
<1>4. AllowHasAuthor'
  <2>1. ASSUME NEW r \in Requests, waiter'[r] = "allow"
        PROVE  Authorized(r)
    <3>1. CASE waiter[r] = "allow"
      BY <3>1 DEF AuthorityOK, AllowHasAuthor
    <3>2. CASE waiter[r] # "allow"
      BY <1>3, <2>1, <3>2 DEF TypeOK, ReceiveAnswer, Behavior, Allows
    <3>. QED
      BY <3>1, <3>2
  <2>. QED
    BY <2>1, AuthorityStays DEF AllowHasAuthor, ReceiveAnswer, surface
<1>5. AnswersOK'
  <2>1. ASSUME NEW c \in Conns, NEW i \in DOMAIN down'[c],
               Allows(down'[c][i].decision)
        PROVE  Authorized(down'[c][i].req)
    <3>1. CASE c = link
      <4>1. down'[c] = Tail(down[c])
        BY <1>1, <3>1 DEF TypeOK, ReceiveAnswer
      <4>2. i \in 1 .. Len(down[c]) - 1 /\ down'[c][i] = down[c][i + 1]
        BY <1>1, <2>1, <3>1, <4>1
      <4>3. i + 1 \in DOMAIN down[c]
        BY <1>1, <3>1, <4>2
      <4>. QED
        BY <2>1, <4>2, <4>3 DEF AuthorityOK, AnswersOK
    <3>2. CASE c # link
      BY <2>1, <3>2 DEF AuthorityOK, AnswersOK, TypeOK, ReceiveAnswer
    <3>. QED
      BY <3>1, <3>2
  <2>. QED
    BY <2>1, AuthorityStays DEF AnswersOK, Allows, ReceiveAnswer, surface
<1>6. PromptsOK' /\ PumpOK' /\ GrantsOK'
  BY DEF AuthorityOK, PromptsOK, PumpOK, GrantsOK, Sanctioned, ApproverAllowed,
         ReceiveAnswer, server, surface
<1>. QED
  BY <1>4, <1>5, <1>6 DEF AuthorityOK

\* What proceeds unprompted is authorized: by policy, or by the click its grant
\* goes back to.
LEMMA UnpromptedAuthorized ==
  ASSUME GrantsOK, NEW r \in Requests, Unprompted(r)
  PROVE  Authorized(r)
<1>. DEFINE g == <<ThreadOf[TurnOf[r]], ToolOf[r]>>
<1>0. r \notin Denied /\ (g \in grants \/ r \in AutoApproved)
  BY DEF Unprompted
<1>1. CASE r \in AutoApproved
  BY <1>0, <1>1 DEF Authorized
<1>2. CASE g \in grants
  <2>1. PICK k \in clicked :
          /\ Sanctioned(k)
          /\ k.decision = "allow_session"
          /\ g = <<ThreadOf[TurnOf[k.req]], ToolOf[k.req]>>
    BY <1>2 DEF GrantsOK
  <2>2. Approved(r)
    BY <2>1 DEF Approved, Sanctioned, ApproverAllowed, Allows
  <2>. QED
    BY <1>0, <2>2 DEF Authorized
<1>. QED
  BY <1>0, <1>1, <1>2

\* Handling a request: what is sent is authorized, what is asked about no deny
\* rule matches.
LEMMA RequestAuthority ==
  ASSUME TypeOK, AuthorityOK, NEW c \in Conns, OnPermissionRequest(c)
  PROVE  AuthorityOK'
<1>. DEFINE r == Head(up[c])
<1>1. r \in Requests
  BY HeadTailProperties DEF TypeOK, OnPermissionRequest
<1>2. UNCHANGED <<waiter, prompts, clicked, pump, grants>>
  BY DEF OnPermissionRequest, runner, surface
<1>3. \/ Send(c, r, "deny")
      \/ Unprompted(r) /\ Send(c, r, "allow")
      \/ UNCHANGED down
  BY DEF OnPermissionRequest
<1>4. AnswersOK'
  <2>. HIDE DEF r
  <2>1. CASE Send(c, r, "deny")
    BY <1>1, <1>2, <2>1, SendAuthorized DEF AuthorityOK, Allows
  <2>2. CASE Unprompted(r) /\ Send(c, r, "allow")
    BY <1>1, <1>2, <2>2, SendAuthorized, UnpromptedAuthorized DEF AuthorityOK
  <2>3. CASE UNCHANGED down
    BY <1>2, <2>3, AuthorityStays DEF AuthorityOK, AnswersOK, Allows
  <2>. QED
    BY <1>3, <2>1, <2>2, <2>3
<1>5. PromptsOK'
  <2>1. \/ UNCHANGED <<phase, handling>>
        \/ Goto(c, "recordDeny", {r})
        \/ Goto(c, "recordAllow", {r})
        \/ r \notin Denied /\ Goto(c, "post", {r})
    BY DEF OnPermissionRequest
  <2>2. ASSUME NEW b \in Conns, phase'[b] = "post"
        PROVE  handling'[b] \cap Denied = {}
    <3>. HIDE DEF r
    <3>1. CASE phase'[b] = phase[b] /\ handling'[b] = handling[b]
      BY <2>2, <3>1 DEF AuthorityOK, PromptsOK
    <3>2. CASE b = c /\ r \notin Denied /\ Goto(c, "post", {r})
      <4>1. handling'[b] = {r}
        BY <3>2 DEF TypeOK, Goto
      <4>. QED
        BY <3>2, <4>1
    <3>. QED
      BY <2>1, <2>2, <3>1, <3>2 DEF TypeOK, Goto
  <2>. QED
    BY <1>2, <2>2 DEF AuthorityOK, PromptsOK
<1>6. AllowHasAuthor' /\ PumpOK' /\ GrantsOK'
  BY <1>2, AuthorityStays DEF AuthorityOK, AllowHasAuthor, PumpOK, GrantsOK,
     Sanctioned, ApproverAllowed
<1>. QED
  BY <1>4, <1>5, <1>6 DEF AuthorityOK

\* Posting a prompt: its request is not denied; a failure sends no approval.
LEMMA PostAuthority ==
  ASSUME TypeOK, AuthorityOK, NEW c \in Conns, PostPrompt(c)
  PROVE  AuthorityOK'
<1>1. UNCHANGED <<waiter, clicked, pump, grants>>
  BY DEF PostPrompt, runner, surface
<1>2. AnswersOK'
  <2>1. CASE UNCHANGED down
    BY <1>1, <2>1, AuthorityStays DEF AuthorityOK, AnswersOK, Allows
  <2>2. ASSUME NEW r \in handling[c], Send(c, r, "deny")
        PROVE  AnswersOK'
    <3>1. r \in Requests
      BY DEF TypeOK
    <3>. QED
      BY <1>1, <2>2, <3>1, SendAuthorized DEF AuthorityOK, Allows
  <2>. QED
    BY <2>1, <2>2 DEF PostPrompt, PromptFails
<1>3. PromptsOK'
  BY DEF TypeOK, AuthorityOK, PromptsOK, PostPrompt, Goto
<1>4. AllowHasAuthor' /\ PumpOK' /\ GrantsOK'
  BY <1>1, AuthorityStays DEF AuthorityOK, AllowHasAuthor, PumpOK, GrantsOK,
     Sanctioned, ApproverAllowed
<1>. QED
  BY <1>2, <1>3, <1>4 DEF AuthorityOK

\* Taking up a click: it is an approver's, on a prompt.
LEMMA ClickAuthority ==
  ASSUME AuthorityOK, NEW k \in Clicks, Click(k)
  PROVE  AuthorityOK'
<1>1. /\ clicked' = clicked \cup {k}
      /\ UNCHANGED <<waiter, down, phase, handling, prompts, grants>>
  BY DEF Click, runner, wire, server
<1>2. AllowHasAuthor' /\ AnswersOK'
  BY <1>1, AuthorityStays DEF AuthorityOK, AllowHasAuthor, AnswersOK, Allows
<1>3. PromptsOK'
  BY <1>1 DEF AuthorityOK, PromptsOK
<1>4. PumpOK'
  BY <1>1 DEF AuthorityOK, PromptsOK, PumpOK, Click, Sanctioned, ApproverAllowed
<1>5. GrantsOK'
  BY <1>1 DEF AuthorityOK, GrantsOK, Sanctioned, ApproverAllowed
<1>. QED
  BY <1>2, <1>3, <1>4, <1>5 DEF AuthorityOK

\* The steps of OnDecision: the grant and the answer are those of the click.
LEMMA DecisionAuthority ==
  ASSUME TypeOK, AuthorityOK, Claim \/ RecordDecision \/ Reply
  PROVE  AuthorityOK'
<1>1. /\ pump # Idle
      /\ Sanctioned(pump.click)
      /\ pump.click.req \in Requests \ Denied
      /\ pump.click.decision \in Decisions
  BY PumpBusy DEF AuthorityOK, PumpOK, Claim, RecordDecision, Reply
<1>2. /\ UNCHANGED <<waiter, clicked, phase, handling>>
      /\ prompts' \subseteq prompts
  BY DEF Claim, Claims, RecordDecision, Reply, runner, server
<1>3. AllowHasAuthor' /\ PromptsOK'
  BY <1>2, AuthorityStays DEF AuthorityOK, AllowHasAuthor, PromptsOK
<1>4. pump' = Idle \/ pump'.click = pump.click
  BY <1>1, PumpBusy DEF Claim, RecordDecision, Reply
<1>5. PumpOK'
  BY <1>1, <1>2, <1>4 DEF PumpOK, Sanctioned, ApproverAllowed
<1>6. AnswersOK'
  <2>1. CASE UNCHANGED down
    BY <1>2, <2>1, AuthorityStays DEF AuthorityOK, AnswersOK, Allows
  <2>2. CASE Send(hub, pump.click.req, pump.click.decision)
    <3>1. PICK r \in Requests : r = pump.click.req
      BY <1>1
    <3>2. PICK d \in Decisions : d = pump.click.decision
      BY <1>1
    <3>3. Allows(d) => Authorized(r)
      BY <1>1, <3>1, <3>2 DEF Authorized, Approved, Sanctioned, ApproverAllowed
    <3>4. hub \in Conns \cup {NoConn} /\ AnswersOK /\ Send(hub, r, d)
      BY <2>2, <3>1, <3>2 DEF TypeOK, AuthorityOK
    <3>. QED
      BY <1>2, <3>3, <3>4, SendAuthorized
  <2>. QED
    BY <2>1, <2>2 DEF Claim, RecordDecision, Reply, wire
<1>7. GrantsOK'
  <2>1. \/ grants' = grants
        \/ /\ pump.click.decision = "allow_session"
           /\ grants' = grants \cup
                {<<ThreadOf[TurnOf[pump.click.req]], ToolOf[pump.click.req]>>}
    BY DEF Claim, RecordDecision, Reply
  <2>2. pump.click \in clicked
    BY <1>1 DEF Sanctioned
  <2>. QED
    BY <1>1, <1>2, <2>1, <2>2 DEF AuthorityOK, GrantsOK, Sanctioned, ApproverAllowed
<1>. QED
  BY <1>3, <1>5, <1>6, <1>7 DEF AuthorityOK

\* Every other step is quiet.
LEMMA QuietSteps ==
  ASSUME TypeOK, AuthorityOK,
         \/ \E r \in Requests : Register(r) \/ SendRequest(r) \/ Timeout(r)
         \/ RunnerDrops
         \/ \E c \in Conns :
              \/ Connect(c) \/ Break(c) \/ RecordUnprompted(c)
              \/ Unregister(c) \/ FailPendingFor(c) \/ CancelPrompt(c)
              \/ FailingDone(c) \/ \E r \in Requests : VisitPrompt(c, r)
         \/ \E t \in Threads : NewSession(t)
         \/ Environment
         \/ UNCHANGED vars
  PROVE  AuthorityOK'
<1>1. ASSUME NEW r \in Requests, Register(r) \/ SendRequest(r) \/ Timeout(r)
      PROVE  AuthorityOK'
  <2>1. \A q \in Requests : waiter'[q] = "allow" => waiter[q] = "allow"
    BY <1>1 DEF TypeOK, Register, SendRequest, Timeout
  <2>2. UNCHANGED <<down, prompts, phase, handling, clicked, pump, grants>>
    BY <1>1 DEF Register, SendRequest, Timeout, wire, server, surface
  <2>. QED
    BY <2>1, <2>2, Quiet
<1>2. CASE RunnerDrops
  <2>1. \A q \in Requests : waiter'[q] = "allow" => waiter[q] = "allow"
    BY <1>2 DEF TypeOK, RunnerDrops
  <2>2. UNCHANGED <<down, prompts, phase, handling, clicked, pump, grants>>
    BY <1>2 DEF RunnerDrops, wire, server, surface
  <2>. QED
    BY <2>1, <2>2, Quiet
<1>3. ASSUME NEW c \in Conns,
             \/ Connect(c) \/ Break(c) \/ RecordUnprompted(c)
             \/ Unregister(c) \/ FailPendingFor(c) \/ CancelPrompt(c)
             \/ FailingDone(c) \/ \E r \in Requests : VisitPrompt(c, r)
      PROVE  AuthorityOK'
  <2>1. UNCHANGED <<waiter, clicked, pump, grants>>
    BY <1>3 DEF Connect, Break, RecordUnprompted, Unregister, FailPendingFor,
       CancelPrompt, FailingDone, VisitPrompt, runner, surface
  <2>2. prompts' \subseteq prompts
    BY <1>3 DEF Connect, Break, RecordUnprompted, Unregister, FailPendingFor,
       CancelPrompt, FailingDone, VisitPrompt
  <2>3. \A b \in Conns : down'[b] = down[b] \/ down'[b] = <<>>
    BY <1>3 DEF TypeOK, Connect, Break, RecordUnprompted, Unregister,
       FailPendingFor, CancelPrompt, FailingDone, VisitPrompt, wire
  <2>4. \A b \in Conns :
          phase'[b] = "post" => phase[b] = "post" /\ handling'[b] = handling[b]
    BY <1>3 DEF TypeOK, Connect, Break, RecordUnprompted, Unregister,
       FailPendingFor, CancelPrompt, FailingDone, VisitPrompt, Goto, server
  <2>. QED
    BY <2>1, <2>2, <2>3, <2>4, Quiet
<1>4. ASSUME NEW t \in Threads, NewSession(t)
      PROVE  AuthorityOK'
  <2>1. /\ UNCHANGED <<waiter, down, prompts, phase, handling, clicked, pump>>
        /\ grants' \subseteq grants
    BY <1>4 DEF NewSession, runner, wire, server, surface
  <2>. QED
    BY <2>1, Quiet
<1>5. CASE Environment
  <2>1. ASSUME NEW t \in Turns, OpenTurn(t) \/ EndTurn(t)
        PROVE  AuthorityOK'
    <3>1. UNCHANGED <<waiter, down, prompts, phase, handling, clicked, pump, grants>>
      BY <2>1 DEF OpenTurn, EndTurn, runner, wire, server, surface
    <3>. QED
      BY <3>1, Quiet
  <2>2. CASE Restart
    <3>1. /\ UNCHANGED <<waiter, clicked>>
          /\ prompts' = {} /\ pump' = Idle /\ grants' = {}
          /\ \A c \in Conns : down'[c] = <<>> /\ phase'[c] # "post"
      BY <2>2 DEF Restart, runner
    <3>. QED
      BY <3>1, Quiet
  <2>. QED
    BY <1>5, <2>1, <2>2 DEF Environment
<1>6. CASE UNCHANGED vars
  <2>1. UNCHANGED <<waiter, down, prompts, phase, handling, clicked, pump, grants>>
    BY <1>6 DEF vars, runner, wire, server, surface
  <2>. QED
    BY <2>1, Quiet
<1>. QED
  BY <1>1, <1>2, <1>3, <1>4, <1>5, <1>6

\* A tool call proceeds only with an authority, for every set of requests,
\* policy, approvers and connections, and whatever breaks, is displaced, times
\* out or restarts (onPermissionRequest, OnDecision, requestPermission).
THEOREM AllowHasAuthorCorrect == Spec => []AllowHasAuthor
<1>1. Init => AuthorityOK
  BY DEF Init, AuthorityOK, AllowHasAuthor, AnswersOK, PromptsOK, PumpOK, GrantsOK
<1>2. TypeOK /\ AuthorityOK /\ [Next]_vars => AuthorityOK'
  <2>. SUFFICES ASSUME TypeOK, AuthorityOK, [Next]_vars
                PROVE  AuthorityOK'
    OBVIOUS
  <2>1. CASE Runner
    BY <2>1, ReceiveAuthority, QuietSteps DEF Runner
  <2>2. ASSUME NEW c \in Conns, Connection(c)
        PROVE  AuthorityOK'
    BY <2>2, RequestAuthority, PostAuthority, QuietSteps DEF Connection
  <2>3. CASE Surface
    BY <2>3, ClickAuthority, DecisionAuthority, QuietSteps DEF Surface
  <2>. QED
    BY <2>1, <2>2, <2>3, QuietSteps DEF Next
<1>3. AuthorityOK => AllowHasAuthor
  BY DEF AuthorityOK
<1>. QED
  BY <1>1, <1>2, <1>3, TypeCorrect, PTL DEF Spec
-----------------------------------------------------------------------------
(* Decisions: a request is in one place at a time, and is decided once         *)

Elems(s) == {s[i] : i \in DOMAIN s}
\* Requests the gateway has yet to read, and answers the runner has.
Unread  == UNION {Elems(up[c]) : c \in Conns}
Replies == UNION {Elems(down[c]) : c \in Conns}

\* A goroutine is at a request it answers, or cancels; those it is about to
\* record as denied, and those it is about to post.
Busy    == {"recordAllow", "recordDeny", "post"}
Held    == UNION {handling[c] : c \in Conns}
Dealt   == UNION {handling[c] : c \in {b \in Conns : phase[b] \in Busy}}
Denying == UNION {handling[c] : c \in {b \in Conns : phase[b] = "recordDeny"}}
Posting == UNION {handling[c] : c \in {b \in Conns : phase[b] = "post"}}

\* A request is sent once.
OnceOK ==
  \A b, c \in Conns : \A i \in DOMAIN up[b], j \in DOMAIN up[c] :
    up[b][i] = up[c][j] => b = c /\ i = j
\* A goroutine is at one request, or none; at one it answers it is alone.
HeldOK ==
  \A c \in Conns :
    /\ phase[c] \notin Busy \cup {"cancel"} => handling[c] = {}
    /\ \A r, q \in handling[c] : r = q
    /\ phase[c] \in Busy =>
         \A b \in Conns : handling[b] \cap handling[c] # {} => b = c

Unsent(r)    == waiter[r] \in {"idle", "registered", "failed"}
Pumped(r)    == pump # Idle /\ pump.click.req = r
Undecided(r) == waiter[r] # "allow" /\ \A a \in Replies : a.req # r
Refused(r)   ==
  waiter[r] # "allow" /\ \A a \in Replies : a.req = r => a.decision = "deny"

\* Until the gateway reads it nothing is known of a request.
UnreadOK(r) ==
  /\ Unsent(r) \/ r \in Unread =>
       /\ audit[r] = "none" /\ Undecided(r)
       /\ r \notin prompts \cup Held /\ ~Pumped(r)
  /\ Unsent(r) => r \notin Unread
\* While it is answered without a click, nobody can click.
DealtOK(r) == r \in Dealt => r \notin prompts /\ ~Pumped(r) /\ audit[r] = "asked"
\* Until a click claims its prompt it is undecided, and then until the reply.
AskedOK(r) == r \in Posting \cup prompts =>
  audit[r] = "asked" /\ Undecided(r) /\ ~Claimed(r)
ClaimedOK(r) == Claimed(r) =>
  /\ r \notin prompts /\ Undecided(r)
  /\ \/ audit[r] = "cancelled"
     \/ pump.step = "record" /\ audit[r] = "asked"
     \/ pump.step = "reply" /\ audit[r] = pump.click.decision
\* What is recorded as denied, or about to be, is refused.
DeniedOK(r) == r \in Denying \/ audit[r] = "deny" => Refused(r)

RequestOK(r) ==
  UnreadOK(r) /\ DealtOK(r) /\ AskedOK(r) /\ ClaimedOK(r) /\ DeniedOK(r)

FlowInv == OnceOK /\ HeldOK /\ \A r \in Requests : RequestOK(r)

\* The connection that works is the runner's and the registered one, and its
\* goroutine has not ended; only on a connection is an answer waited for.
LinkOK ==
  /\ \A c \in Conns : alive[c] => c = link /\ c = hub /\ phase[c] \in Busy \cup {"read"}
  /\ \A r \in Requests : waiter[r] = "waiting" => link # NoConn
\* Where a request is that waits on it.
WaitOK(r) == Waiting(r) =>
  \/ r \in Elems(up[link])
  \/ phase[link] = "post" /\ r \in handling[link]
  \/ r \in prompts
  \/ Claimed(r)
  \/ audit[r] = "cancelled"
  \/ \E a \in Replies : a.req = r
\* A prompt is left to a goroutine that has its teardown before it, or that is to
\* visit or is at the prompt.
CleanedOK(r) == r \in prompts => \E c \in Conns :
  \/ phase[c] \in Busy \cup {"read", "ended"}
  \/ phase[c] \in {"fail", "cancel"} /\ r \in left[c] \cup handling[c]

AnswerInv == LinkOK /\ \A r \in Requests : WaitOK(r) /\ CleanedOK(r)
-----------------------------------------------------------------------------
(* What the steps do to these sets *)

\* The elements of a queue that grows at its end, and of one that is read.
LEMMA ElemsOf ==
  ASSUME NEW S, NEW s \in Seq(S), NEW x \in S
  PROVE  /\ Elems(Append(s, x)) = Elems(s) \cup {x}
         /\ s # <<>> => /\ Head(s) \in Elems(s) /\ Head(s) \in S
                        /\ Head(s) = s[1] /\ 1 \in DOMAIN s
                        /\ Elems(Tail(s)) \subseteq Elems(s)
                        /\ Elems(s) \subseteq Elems(Tail(s)) \cup {Head(s)}
         /\ Elems(<<>>) = {}
<1>1. Elems(Append(s, x)) = Elems(s) \cup {x}
  <2>1. /\ DOMAIN Append(s, x) = 1 .. Len(s) + 1 /\ DOMAIN s = 1 .. Len(s)
        /\ \A i \in 1 .. Len(s) : Append(s, x)[i] = s[i]
        /\ Append(s, x)[Len(s) + 1] = x
        /\ Len(s) \in Nat
    BY AppendProperties, LenProperties
  <2>2. Elems(Append(s, x)) \subseteq Elems(s) \cup {x}
    BY <2>1 DEF Elems
  <2>3. Elems(s) \subseteq Elems(Append(s, x))
    BY <2>1 DEF Elems
  <2>4. x \in Elems(Append(s, x))
    <3>1. Len(s) + 1 \in DOMAIN Append(s, x)
      BY <2>1
    <3>. QED
      BY <2>1, <3>1 DEF Elems
  <2>. QED
    BY <2>2, <2>3, <2>4
<1>2. ASSUME s # <<>>
      PROVE  /\ Head(s) \in Elems(s) /\ Head(s) \in S
             /\ Head(s) = s[1] /\ 1 \in DOMAIN s
             /\ Elems(Tail(s)) \subseteq Elems(s)
             /\ Elems(s) \subseteq Elems(Tail(s)) \cup {Head(s)}
  <2>1. /\ Len(s) \in Nat \ {0} /\ DOMAIN s = 1 .. Len(s)
        /\ Head(s) = s[1] /\ s[1] \in S
        /\ DOMAIN Tail(s) = 1 .. Len(s) - 1
        /\ \A i \in 1 .. Len(s) - 1 : Tail(s)[i] = s[i + 1]
    BY <1>2
  <2>2. Elems(Tail(s)) \subseteq Elems(s)
    <3>1. ASSUME NEW i \in 1 .. Len(s) - 1
          PROVE  i + 1 \in DOMAIN s /\ Tail(s)[i] = s[i + 1]
      BY <2>1
    <3>. QED
      BY <2>1, <3>1 DEF Elems
  <2>3. ASSUME NEW i \in DOMAIN s, s[i] # Head(s)
        PROVE  s[i] \in Elems(Tail(s))
    <3>1. i - 1 \in 1 .. Len(s) - 1 /\ (i - 1) + 1 = i
      BY <2>1, <2>3
    <3>2. Tail(s)[i - 1] = s[i]
      BY <2>1, <3>1
    <3>. QED
      BY <2>1, <3>1, <3>2 DEF Elems
  <2>. QED
    BY <2>1, <2>2, <2>3 DEF Elems
<1>3. Elems(<<>>) = {}
  <2>1. DOMAIN <<>> = {}
    OBVIOUS
  <2>. QED
    BY <2>1 DEF Elems
<1>. QED
  BY <1>1, <1>2, <1>3

\* Conn.Send adds an answer to those on their way, or on a broken connection none.
LEMMA SendReplies ==
  ASSUME TypeOK, NEW c \in Conns \cup {NoConn}, NEW r \in Requests,
         NEW d \in Decisions, Send(c, r, d)
  PROVE  /\ Replies \subseteq Replies'
         /\ Replies' \subseteq Replies \cup {[req |-> r, decision |-> d]}
         /\ c \in Conns /\ alive[c] => \E a \in Replies' : a.req = r
<1>. DEFINE a == [req |-> r, decision |-> d]
<1>1. CASE c # NoConn /\ alive[c]
  <2>1. /\ c \in Conns /\ down[c] \in Seq(Answers) /\ a \in Answers
        /\ down' = [down EXCEPT ![c] = Append(down[c], a)]
    BY <1>1 DEF Send, TypeOK
  <2>2. Elems(Append(down[c], a)) = Elems(down[c]) \cup {a}
    <3>. HIDE DEF a, Answers
    <3>. QED
      BY <2>1, ElemsOf
  <2>3. /\ down'[c] = Append(down[c], a)
        /\ \A b \in Conns \ {c} : down'[b] = down[b]
    BY <2>1 DEF TypeOK
  <2>4. Replies' = Replies \cup {a}
    <3>. HIDE DEF a
    <3>. QED
      BY <2>1, <2>2, <2>3 DEF Replies
  <2>5. \E b \in Replies' : b.req = r
    <3>1. a \in Replies' /\ a.req = r
      BY <2>4
    <3>. QED
      BY <3>1
  <2>. QED
    BY <2>4, <2>5
<1>2. CASE ~ (c # NoConn /\ alive[c])
  <2>1. ~ (c \in Conns /\ alive[c])
    BY <1>2
  <2>. QED
    BY <1>2, <2>1 DEF Send, Replies
<1>. QED
  BY <1>1, <1>2

\* What only shortens queues adds no answer.
LEMMA FewerReplies ==
  ASSUME TypeOK, \A c \in Conns : down'[c] = down[c] \/ down'[c] = <<>>
  PROVE  Replies' \subseteq Replies
BY DEF Replies, Elems

\* The request a connection's goroutine reads is sent, and then no longer unread.
LEMMA ReadRequest ==
  ASSUME TypeOK, OnceOK, NEW c \in Conns, up[c] # <<>>,
         up' = [up EXCEPT ![c] = Tail(@)]
  PROVE  /\ Head(up[c]) \in Requests /\ Head(up[c]) \in Elems(up[c])
         /\ Head(up[c]) \in Unread
         /\ \A b \in Conns \ {c} : Head(up[c]) \notin Elems(up[b])
         /\ Unread' \subseteq Unread \ {Head(up[c])}
         /\ \A b \in Conns : Elems(up[b]) \subseteq Elems(up'[b]) \cup {Head(up[c])}
         /\ OnceOK'
<1>. DEFINE s == up[c]
<1>1. s \in Seq(Requests) /\ s # <<>> /\ up'[c] = Tail(s)
  BY DEF TypeOK
<1>2. \A b \in Conns \ {c} : up'[b] = up[b]
  BY DEF TypeOK
<1>3. /\ Head(s) \in Requests /\ Head(s) = s[1] /\ 1 \in DOMAIN s
      /\ Head(s) \in Elems(s)
      /\ Elems(Tail(s)) \subseteq Elems(s)
      /\ Elems(s) \subseteq Elems(Tail(s)) \cup {Head(s)}
  <2>1. ASSUME NEW x \in Requests
        PROVE  /\ Head(s) \in Requests /\ Head(s) = s[1] /\ 1 \in DOMAIN s
               /\ Head(s) \in Elems(s)
               /\ Elems(Tail(s)) \subseteq Elems(s)
               /\ Elems(s) \subseteq Elems(Tail(s)) \cup {Head(s)}
    BY <1>1, ElemsOf
  <2>2. \E x : x \in Requests
    BY <1>1
  <2>. QED
    BY <2>1, <2>2
<1>4. /\ DOMAIN Tail(s) = 1 .. Len(s) - 1 /\ DOMAIN s = 1 .. Len(s) /\ Len(s) \in Nat
      /\ \A i \in 1 .. Len(s) - 1 : Tail(s)[i] = s[i + 1]
  BY <1>1
<1>5. \A b \in Conns \ {c} : Head(s) \notin Elems(up[b])
  BY <1>3 DEF OnceOK, Elems
<1>6. Head(s) \notin Elems(Tail(s))
  <2>1. ASSUME NEW i \in 1 .. Len(s) - 1, s[i + 1] = s[1]
        PROVE  FALSE
    <3>1. i + 1 \in DOMAIN s /\ i + 1 # 1
      BY <1>4
    <3>. QED
      BY <1>3, <2>1, <3>1 DEF OnceOK
  <2>. QED
    BY <1>3, <1>4, <2>1 DEF Elems
<1>7. Unread' \subseteq Unread \ {Head(s)}
  <2>. HIDE DEF s
  <2>1. \A b \in Conns : Elems(up'[b]) \subseteq Elems(up[b]) \ {Head(s)}
    BY <1>1, <1>2, <1>3, <1>5, <1>6 DEF s
  <2>. QED
    BY <2>1 DEF Unread
<1>8. OnceOK'
  <2>. DEFINE at(b, i) == IF b = c THEN i + 1 ELSE i
  <2>1. ASSUME NEW b \in Conns, NEW i \in DOMAIN up'[b]
        PROVE  /\ at(b, i) \in DOMAIN up[b]
               /\ up'[b][i] = up[b][at(b, i)]
               /\ b = c => i \in Nat
    <3>1. CASE b = c
      <4>1. i \in 1 .. Len(s) - 1
        BY <1>1, <1>4, <2>1, <3>1
      <4>2. i + 1 \in 1 .. Len(s) /\ i \in Nat
        BY <1>4, <4>1
      <4>. QED
        BY <1>1, <1>4, <3>1, <4>1, <4>2
    <3>2. CASE b # c
      BY <1>2, <3>2
    <3>. QED
      BY <3>1, <3>2
  <2>2. ASSUME NEW b \in Conns, NEW d \in Conns, NEW i \in DOMAIN up'[b],
               NEW j \in DOMAIN up'[d], up'[b][i] = up'[d][j]
        PROVE  b = d /\ i = j
    <3>1. b = d /\ at(b, i) = at(d, j)
      <4>. HIDE DEF at
      <4>. QED
        BY <2>1, <2>2 DEF OnceOK
    <3>. QED
      BY <2>1, <3>1
  <2>. QED
    BY <2>2 DEF OnceOK
<1>9. \A b \in Conns : Elems(up[b]) \subseteq Elems(up'[b]) \cup {Head(s)}
  <2>. HIDE DEF s
  <2>. QED
    BY <1>1, <1>2, <1>3 DEF s
<1>. QED
  BY <1>3, <1>5, <1>7, <1>8, <1>9 DEF Unread

\* A connection's goroutine goes on to ph with the requests in S.
LEMMA GotoSets ==
  ASSUME TypeOK, HeldOK, NEW c \in Conns, NEW ph \in Phases, NEW S, Goto(c, ph, S),
         \/ S = {} /\ ph # "cancel"
         \/ /\ \E r : S = {r}
            /\ \/ ph \in Busy /\ S \cap Held = {}
               \/ ph = "cancel" /\ S \cap Dealt = {}
  PROVE  /\ HeldOK'
         /\ Held' \subseteq Held \cup S
         /\ Dealt' \subseteq (Dealt \ (IF phase[c] \in Busy THEN handling[c] ELSE {}))
                               \cup (IF ph \in Busy THEN S ELSE {})
         /\ Denying' \subseteq Denying \cup (IF ph = "recordDeny" THEN S ELSE {})
         /\ Posting' \subseteq (Posting \ (IF phase[c] \in Busy THEN handling[c] ELSE {}))
                                 \cup (IF ph = "post" THEN S ELSE {})
<1>1. /\ phase'[c] = ph /\ handling'[c] = S
      /\ \A b \in Conns \ {c} : phase'[b] = phase[b] /\ handling'[b] = handling[b]
  BY DEF Goto, TypeOK
<1>2. \A r, q \in S : r = q
  OBVIOUS
<1>3. HeldOK'
  <2>1. ASSUME NEW b \in Conns
        PROVE  /\ phase'[b] \notin Busy \cup {"cancel"} => handling'[b] = {}
               /\ \A r, q \in handling'[b] : r = q
    BY <1>1, <1>2 DEF HeldOK
  <2>2. ASSUME NEW b \in Conns, phase'[b] \in Busy, NEW d \in Conns,
               handling'[d] \cap handling'[b] # {}
        PROVE  d = b
    <3>1. CASE b # c /\ d # c
      BY <1>1, <2>2, <3>1 DEF HeldOK
    <3>2. CASE b = c /\ d # c
      BY <1>1, <2>2, <3>2 DEF Held, Busy
    <3>3. CASE b # c /\ d = c
      BY <1>1, <2>2, <3>3 DEF Held, Dealt
    <3>. QED
      BY <3>1, <3>2, <3>3
  <2>. QED
    BY <2>1, <2>2 DEF HeldOK
<1>4. Held' \subseteq Held \cup S
  BY <1>1 DEF Held
<1>5. Dealt' \subseteq (Dealt \ (IF phase[c] \in Busy THEN handling[c] ELSE {}))
                         \cup (IF ph \in Busy THEN S ELSE {})
  BY <1>1 DEF Dealt, HeldOK
<1>6. Denying' \subseteq Denying \cup (IF ph = "recordDeny" THEN S ELSE {})
  BY <1>1 DEF Denying
<1>7. Posting' \subseteq (Posting \ (IF phase[c] \in Busy THEN handling[c] ELSE {}))
                          \cup (IF ph = "post" THEN S ELSE {})
  BY <1>1 DEF Posting, HeldOK, Busy
<1>. QED
  BY <1>3, <1>4, <1>5, <1>6, <1>7
\* A step that sends and asks about nothing new, lets nobody proceed and leaves
\* what is recorded keeps the invariant.
LEMMA FlowKept ==
  ASSUME FlowInv, OnceOK', HeldOK',
         \A r \in Requests :
           /\ waiter'[r] = "allow" => waiter[r] = "allow"
           /\ waiter'[r] \in {"idle", "registered", "failed"} => Unsent(r),
         Unread' \subseteq Unread, Replies' \subseteq Replies,
         Held' \subseteq Held \cup prompts, Dealt' \subseteq Dealt,
         Denying' \subseteq Denying, Posting' \subseteq Posting,
         prompts' \subseteq prompts, pump' = pump \/ pump' = Idle,
         UNCHANGED audit
  PROVE  FlowInv'
<1>1. ASSUME NEW r \in Requests
      PROVE  RequestOK(r)'
  <2>1. RequestOK(r)
    BY DEF FlowInv
  <2>2. /\ Unsent(r)' => Unsent(r)
        /\ Undecided(r) => Undecided(r)'
        /\ Refused(r) => Refused(r)'
        /\ Pumped(r)' => Pumped(r)
        /\ Claimed(r)' => Claimed(r) /\ pump' = pump
    BY DEF Unsent, Undecided, Refused, Pumped, Claimed
  <2>3. UnreadOK(r)'
    BY <2>1, <2>2 DEF RequestOK, UnreadOK
  <2>4. DealtOK(r)'
    BY <2>1, <2>2 DEF RequestOK, DealtOK
  <2>5. AskedOK(r)'
    BY <2>1, <2>2 DEF RequestOK, AskedOK
  <2>6. ClaimedOK(r)'
    BY <2>1, <2>2 DEF RequestOK, ClaimedOK
  <2>7. DeniedOK(r)'
    BY <2>1, <2>2 DEF RequestOK, DeniedOK
  <2>. QED
    BY <2>3, <2>4, <2>5, <2>6, <2>7 DEF RequestOK
<1>. QED
  BY <1>1 DEF FlowInv

\* Where a connection's goroutine stays at its requests, they are as they were.
LEMMA HeldStays ==
  ASSUME HeldOK, UNCHANGED <<phase, handling>>
  PROVE  /\ HeldOK' /\ Held' = Held /\ Dealt' = Dealt
         /\ Denying' = Denying /\ Posting' = Posting
BY DEF HeldOK, Held, Dealt, Denying, Posting

\* A request is sent once, and nothing is known of it then.
LEMMA SendRequestFlow ==
  ASSUME TypeOK, FlowInv, NEW p \in Requests, SendRequest(p)
  PROVE  FlowInv'
<1>1. /\ UNCHANGED <<down, phase, handling, prompts, pump, audit>>
      /\ Unsent(p) /\ ~ Unsent(p)' /\ waiter'[p] # "allow"
      /\ \A q \in Requests \ {p} : waiter'[q] = waiter[q]
  BY DEF SendRequest, server, surface, TypeOK, Unsent, WaiterStates
<1>2. RequestOK(p)
  BY DEF FlowInv
<1>3. p \notin Unread
  BY <1>1, <1>2 DEF RequestOK, UnreadOK
<1>4. /\ HeldOK' /\ Held' = Held /\ Dealt' = Dealt
      /\ Denying' = Denying /\ Posting' = Posting
  BY <1>1, HeldStays DEF FlowInv
<1>5. Replies' = Replies
  BY <1>1 DEF Replies
<1>6. Unread' \subseteq Unread \cup {p} /\ OnceOK'
  <2>1. CASE UNCHANGED up
    BY <2>1 DEF Unread, FlowInv, OnceOK
  <2>2. CASE link \in Conns /\ up' = [up EXCEPT ![link] = Append(@, p)]
    <3>1. /\ up[link] \in Seq(Requests)
          /\ up'[link] = Append(up[link], p)
          /\ \A b \in Conns \ {link} : up'[b] = up[b]
      BY <2>2 DEF TypeOK
    <3>2. /\ DOMAIN up'[link] = 1 .. Len(up[link]) + 1
          /\ DOMAIN up[link] = 1 .. Len(up[link]) /\ Len(up[link]) \in Nat
          /\ \A i \in 1 .. Len(up[link]) : up'[link][i] = up[link][i]
          /\ up'[link][Len(up[link]) + 1] = p
      BY <3>1, AppendProperties, LenProperties
    <3>3. ASSUME NEW b \in Conns, NEW i \in DOMAIN up'[b]
          PROVE  \/ i \in DOMAIN up[b] /\ up'[b][i] = up[b][i]
                 \/ b = link /\ i = Len(up[link]) + 1 /\ up'[b][i] = p
      <4>1. CASE b = link
        <5>1. i \in 1 .. Len(up[link]) \/ i = Len(up[link]) + 1
          BY <3>2, <3>3, <4>1
        <5>. QED
          BY <3>2, <4>1, <5>1
      <4>2. CASE b # link
        BY <3>1, <3>3, <4>2
      <4>. QED
        BY <4>1, <4>2
    <3>4. \A b \in Conns : \A i \in DOMAIN up[b] : up[b][i] # p
      BY <1>3 DEF Unread, Elems
    <3>5. OnceOK'
      <4>1. ASSUME NEW b \in Conns, NEW c \in Conns, NEW i \in DOMAIN up'[b],
                   NEW j \in DOMAIN up'[c], up'[b][i] = up'[c][j]
            PROVE  b = c /\ i = j
        BY <3>3, <3>4, <4>1 DEF FlowInv, OnceOK
      <4>. QED
        BY <4>1 DEF OnceOK
    <3>6. Unread' \subseteq Unread \cup {p}
      BY <3>3 DEF Unread, Elems
    <3>. QED
      BY <3>5, <3>6
  <2>. QED
    BY <2>1, <2>2 DEF SendRequest, TypeOK
<1>7. RequestOK(p)'
  BY <1>1, <1>2, <1>4, <1>5
     DEF RequestOK, UnreadOK, DealtOK, AskedOK, ClaimedOK, DeniedOK, Unsent,
         Undecided, Refused, Pumped, Claimed
<1>8. ASSUME NEW q \in Requests \ {p}
      PROVE  RequestOK(q)'
  <2>1. RequestOK(q)
    BY DEF FlowInv
  <2>. QED
    BY <1>1, <1>4, <1>5, <1>6, <2>1
       DEF RequestOK, UnreadOK, DealtOK, AskedOK, ClaimedOK, DeniedOK, Unsent,
           Undecided, Refused, Pumped, Claimed
<1>. QED
  BY <1>4, <1>6, <1>7, <1>8 DEF FlowInv

\* An answer that is read decides a request as it was on its way to.
LEMMA ReceiveFlow ==
  ASSUME TypeOK, FlowInv, ReceiveAnswer
  PROVE  FlowInv'
<1>. DEFINE a == Head(down[link])
<1>1. /\ link \in Conns /\ down[link] \in Seq(Answers) /\ down[link] # <<>>
      /\ UNCHANGED <<up, phase, handling, prompts, pump, audit>>
  BY DEF ReceiveAnswer, server, surface, TypeOK
<1>2. /\ a \in Elems(down[link]) /\ a \in Answers
      /\ Elems(Tail(down[link])) \subseteq Elems(down[link])
  <2>1. ASSUME NEW S, NEW s \in Seq(S), s # <<>>
        PROVE  /\ Head(s) \in Elems(s) /\ Head(s) \in S
               /\ Elems(Tail(s)) \subseteq Elems(s)
    <3>1. \E x : x \in S
      BY <2>1
    <3>. QED
      BY <2>1, <3>1, ElemsOf
  <2>. QED
    BY <1>1, <2>1
<1>3. a \in Replies
  BY <1>1, <1>2 DEF Replies
<1>4. Replies' \subseteq Replies
  <2>1. /\ down'[link] = Tail(down[link])
        /\ \A b \in Conns \ {link} : down'[b] = down[b]
    BY <1>1 DEF TypeOK, ReceiveAnswer
  <2>2. \A b \in Conns : Elems(down'[b]) \subseteq Elems(down[b])
    BY <1>2, <2>1
  <2>. QED
    BY <2>2 DEF Replies
<1>5. /\ \A r \in Requests \ {a.req} : waiter'[r] = waiter[r]
      /\ \/ waiter'[a.req] = waiter[a.req]
         \/ /\ waiter[a.req] = "waiting"
            /\ waiter'[a.req] \in {"allow", "deny"}
            /\ waiter'[a.req] = "allow" => a.decision # "deny"
  <2>1. waiter' = [waiter EXCEPT
          ![a.req] = IF @ = "waiting" THEN Behavior(a.decision) ELSE @]
    BY DEF ReceiveAnswer
  <2>2. a.req \in Requests
    BY <1>2
  <2>. QED
    BY <2>1, <2>2 DEF TypeOK, Behavior
<1>6. /\ HeldOK' /\ Held' = Held /\ Dealt' = Dealt
      /\ Denying' = Denying /\ Posting' = Posting
  BY <1>1, HeldStays DEF FlowInv
<1>7. OnceOK' /\ Unread' = Unread
  BY <1>1 DEF OnceOK, FlowInv, Unread
<1>8. ASSUME NEW r \in Requests
      PROVE  RequestOK(r)'
  <2>. HIDE DEF a
  <2>1. RequestOK(r)
    BY DEF FlowInv
  <2>2. /\ Undecided(r) => Undecided(r)' /\ waiter'[r] = waiter[r]
        /\ Refused(r) => Refused(r)'
    BY <1>3, <1>4, <1>5 DEF Undecided, Refused
  <2>3. /\ Unsent(r)' => Unsent(r)
        /\ Pumped(r)' = Pumped(r) /\ Claimed(r)' = Claimed(r)
    BY <1>1, <1>5 DEF Unsent, Pumped, Claimed
  <2>. QED
    BY <1>1, <1>6, <1>7, <2>1, <2>2, <2>3
       DEF RequestOK, UnreadOK, DealtOK, AskedOK, ClaimedOK, DeniedOK
<1>. QED
  BY <1>6, <1>7, <1>8 DEF FlowInv

\* The other steps of the runner decide nothing.
LEMMA RunnerFlow ==
  ASSUME TypeOK, FlowInv, Runner
  PROVE  FlowInv'
<1>1. ASSUME NEW r \in Requests, Register(r) \/ Timeout(r)
      PROVE  FlowInv'
  <2>1. /\ UNCHANGED <<up, down, phase, handling, prompts, pump, audit>>
        /\ \A q \in Requests :
             /\ waiter'[q] = "allow" => waiter[q] = "allow"
             /\ waiter'[q] \in {"idle", "registered", "failed"} => Unsent(q)
    BY <1>1 DEF Register, Timeout, wire, server, surface, TypeOK, Unsent
  <2>2. OnceOK' /\ Unread' = Unread /\ Replies' = Replies
    BY <2>1 DEF OnceOK, FlowInv, Unread, Replies
  <2>. QED
    BY <2>1, <2>2, HeldStays, FlowKept DEF FlowInv
<1>2. CASE RunnerDrops
  <2>1. /\ UNCHANGED <<up, down, phase, handling, prompts, pump, audit>>
        /\ \A q \in Requests :
             /\ waiter'[q] = "allow" => waiter[q] = "allow"
             /\ waiter'[q] \in {"idle", "registered", "failed"} => Unsent(q)
    BY <1>2 DEF RunnerDrops, wire, server, surface, TypeOK, Unsent
  <2>2. OnceOK' /\ Unread' = Unread /\ Replies' = Replies
    BY <2>1 DEF OnceOK, FlowInv, Unread, Replies
  <2>. QED
    BY <2>1, <2>2, HeldStays, FlowKept DEF FlowInv
<1>. QED
  BY <1>1, <1>2, SendRequestFlow, ReceiveFlow DEF Runner
-----------------------------------------------------------------------------
(* Connections: their steps keep that requests are decided once                *)

\* A connection that begins or breaks, or whose goroutine goes on with its
\* teardown, decides nothing; a prompt it visits is undecided until it is removed.
LEMMA TeardownFlow ==
  ASSUME TypeOK, FlowInv, NEW c \in Conns,
         \/ Connect(c) \/ Break(c) \/ Unregister(c) \/ FailPendingFor(c)
         \/ FailingDone(c) \/ \E r \in Requests : VisitPrompt(c, r)
  PROVE  FlowInv'
<1>1. /\ UNCHANGED <<waiter, up, prompts, pump, audit>>
      /\ \A b \in Conns : down'[b] = down[b] \/ down'[b] = <<>>
  BY DEF Connect, Break, Unregister, FailPendingFor, FailingDone, VisitPrompt,
     runner, wire, surface, TypeOK
<1>2. OnceOK' /\ Unread' = Unread /\ Replies' \subseteq Replies
  BY <1>1, FewerReplies DEF FlowInv, OnceOK, Unread
<1>3. /\ HeldOK' /\ Held' \subseteq Held \cup prompts /\ Dealt' \subseteq Dealt
      /\ Denying' \subseteq Denying /\ Posting' \subseteq Posting
  <2>1. CASE Break(c)
    BY <2>1, HeldStays DEF Break, server, FlowInv
  <2>2. ASSUME NEW r \in Requests, VisitPrompt(c, r)
        PROVE  /\ HeldOK' /\ Held' \subseteq Held \cup prompts /\ Dealt' \subseteq Dealt
               /\ Denying' \subseteq Denying /\ Posting' \subseteq Posting
    <3>1. r \in prompts /\ Goto(c, "cancel", {r})
      BY <2>2 DEF VisitPrompt
    <3>2. r \notin Dealt
      BY <3>1 DEF FlowInv, RequestOK, DealtOK
    <3>3. "cancel" \in Phases /\ "cancel" \notin Busy
      BY DEF Phases, Busy
    <3>. QED
      BY <3>1, <3>2, <3>3, GotoSets DEF FlowInv
  <2>3. ASSUME NEW ph \in {"read", "ended", "fail", "over"},
               phase[c] \in {"new", "read", "ended", "fail"},
               phase' = [phase EXCEPT ![c] = ph], UNCHANGED handling
        PROVE  /\ HeldOK' /\ Held' \subseteq Held \cup prompts /\ Dealt' \subseteq Dealt
               /\ Denying' \subseteq Denying /\ Posting' \subseteq Posting
    <3>1. handling[c] = {}
      BY <2>3 DEF FlowInv, HeldOK, Busy
    <3>2. Goto(c, ph, {})
      BY <2>3, <3>1 DEF Goto, TypeOK
    <3>3. ph \in Phases /\ ph # "cancel"
      BY <2>3 DEF Phases
    <3>. QED
      BY <3>2, <3>3, GotoSets DEF FlowInv
  <2>4. CASE Connect(c) \/ Unregister(c) \/ FailPendingFor(c) \/ FailingDone(c)
    BY <2>3, <2>4 DEF Connect, Unregister, FailPendingFor, FailingDone
  <2>. QED
    BY <2>1, <2>2, <2>4
<1>. QED
  BY <1>1, <1>2, <1>3, FlowKept DEF Unsent

\* A request that is read is answered or asked about, and nothing was known of it.
LEMMA RequestFlow ==
  ASSUME TypeOK, FlowInv, NEW c \in Conns, OnPermissionRequest(c)
  PROVE  FlowInv'
<1>0. PICK p \in Requests : p = Head(up[c])
  BY HeadTailProperties DEF TypeOK, OnPermissionRequest
<1>1. /\ UNCHANGED <<waiter, prompts, pump>>
      /\ up[c] # <<>> /\ up' = [up EXCEPT ![c] = Tail(@)]
      /\ phase[c] = "read"
  BY DEF OnPermissionRequest, runner, surface
<1>2. /\ p \in Requests /\ p \in Unread
      /\ Unread' \subseteq Unread \ {p} /\ OnceOK'
  BY <1>0, <1>1, ReadRequest DEF FlowInv
<1>3. \E ph \in {"read", "recordDeny", "recordAllow", "post"} :
        /\ \/ ph = "read" /\ UNCHANGED <<phase, handling, audit>>
           \/ ph # "read" /\ Goto(c, ph, {p}) /\ audit' = [audit EXCEPT ![p] = "asked"]
        /\ \/ ph \in {"read", "recordDeny"} /\ Send(c, p, "deny")
           \/ ph = "recordAllow" /\ Send(c, p, "allow")
           \/ ph = "post" /\ UNCHANGED down
  BY <1>0 DEF OnPermissionRequest
<1>4. PICK ph \in {"read", "recordDeny", "recordAllow", "post"} :
        /\ \/ ph = "read" /\ UNCHANGED <<phase, handling, audit>>
           \/ ph # "read" /\ Goto(c, ph, {p}) /\ audit' = [audit EXCEPT ![p] = "asked"]
        /\ \/ ph \in {"read", "recordDeny"} /\ Send(c, p, "deny")
           \/ ph = "recordAllow" /\ Send(c, p, "allow")
           \/ ph = "post" /\ UNCHANGED down
  BY <1>3
<1>5. /\ audit[p] = "none" /\ Undecided(p) /\ p \notin prompts \cup Held
      /\ ~ Pumped(p) /\ ~ Unsent(p)
  BY <1>2 DEF FlowInv, RequestOK, UnreadOK
<1>6. /\ \A a \in Replies' : a \in Replies \/ a.req = p
      /\ ph \in {"read", "recordDeny"} =>
           \A a \in Replies' : a \in Replies \/ a.decision = "deny"
      /\ ph = "post" => Replies' = Replies
  <2>1. CASE Send(c, p, "deny") /\ ph \in {"read", "recordDeny"}
    <3>1. Replies' \subseteq Replies \cup {[req |-> p, decision |-> "deny"]}
      BY <1>2, <2>1, SendReplies
    <3>. QED
      BY <2>1, <3>1
  <2>2. CASE Send(c, p, "allow") /\ ph = "recordAllow"
    <3>1. Replies' \subseteq Replies \cup {[req |-> p, decision |-> "allow"]}
      BY <1>2, <2>2, SendReplies
    <3>. QED
      BY <2>2, <3>1
  <2>3. CASE UNCHANGED down /\ ph = "post"
    BY <2>3 DEF Replies
  <2>. QED
    BY <1>4, <2>1, <2>2, <2>3
<1>7. /\ HeldOK'
      /\ Held' \subseteq Held \cup {p}
      /\ Dealt' \subseteq Dealt \cup (IF ph = "read" THEN {} ELSE {p})
      /\ Denying' \subseteq Denying \cup (IF ph = "recordDeny" THEN {p} ELSE {})
      /\ Posting' \subseteq Posting \cup (IF ph = "post" THEN {p} ELSE {})
  <2>1. CASE ph = "read"
    BY <1>4, <2>1, HeldStays DEF FlowInv
  <2>2. CASE ph # "read"
    <3>1. ph \in Phases /\ ph \in Busy /\ Goto(c, ph, {p})
      BY <1>4, <2>2 DEF Phases, Busy
    <3>. QED
      BY <1>5, <2>2, <3>1, GotoSets DEF FlowInv
  <2>. QED
    BY <2>1, <2>2
<1>8. RequestOK(p)'
  <2>1. ~ Unsent(p)' /\ p \notin Unread' /\ ~ Pumped(p)' /\ ~ Claimed(p)' /\ p \notin prompts'
    BY <1>1, <1>2, <1>5 DEF Unsent, Pumped, Claimed
  <2>2. /\ ph = "post" => Undecided(p)'
        /\ ph \in {"read", "recordDeny"} => Refused(p)'
    BY <1>1, <1>5, <1>6 DEF Undecided, Refused
  <2>3. p \notin Dealt /\ p \notin Denying /\ p \notin Posting
    BY <1>5 DEF Held, Dealt, Denying, Posting
  <2>4. audit'[p] = IF ph = "read" THEN "none" ELSE "asked"
    BY <1>2, <1>4, <1>5 DEF TypeOK
  <2>. QED
    BY <1>7, <2>1, <2>2, <2>3, <2>4
       DEF RequestOK, UnreadOK, DealtOK, AskedOK, ClaimedOK, DeniedOK
<1>9. ASSUME NEW q \in Requests \ {p}
      PROVE  RequestOK(q)'
  <2>1. RequestOK(q) /\ audit'[q] = audit[q]
    BY <1>4 DEF FlowInv, TypeOK
  <2>2. /\ Unsent(q)' = Unsent(q) /\ Pumped(q)' = Pumped(q) /\ Claimed(q)' = Claimed(q)
        /\ Undecided(q) => Undecided(q)'
        /\ Refused(q) => Refused(q)'
    BY <1>1, <1>6 DEF Unsent, Pumped, Claimed, Undecided, Refused
  <2>. QED
    BY <1>1, <1>2, <1>7, <2>1, <2>2
       DEF RequestOK, UnreadOK, DealtOK, AskedOK, ClaimedOK, DeniedOK
<1>. QED
  BY <1>2, <1>7, <1>8, <1>9 DEF FlowInv

\* What is recorded without a prompt is what was answered.
LEMMA RecordFlow ==
  ASSUME TypeOK, FlowInv, NEW c \in Conns, RecordUnprompted(c)
  PROVE  FlowInv'
<1>1. /\ UNCHANGED <<waiter, up, down, prompts, pump>>
      /\ phase[c] \in {"recordAllow", "recordDeny"} /\ Goto(c, "read", {})
      /\ \A r \in Requests \ handling[c] : audit'[r] = audit[r]
      /\ \A r \in handling[c] : audit'[r] = "deny" => phase[c] = "recordDeny"
  BY DEF RecordUnprompted, runner, wire, surface, TypeOK
<1>2. OnceOK' /\ Unread' = Unread /\ Replies' = Replies
  BY <1>1 DEF FlowInv, OnceOK, Unread, Replies
<1>3. "read" \in Phases /\ "read" \notin Busy /\ phase[c] \in Busy
  BY <1>1 DEF Phases, Busy
<1>4. /\ HeldOK' /\ Held' \subseteq Held /\ Dealt' \subseteq Dealt \ handling[c]
      /\ Denying' \subseteq Denying /\ Posting' \subseteq Posting \ handling[c]
  BY <1>1, <1>3, GotoSets DEF FlowInv
<1>5. ASSUME NEW r \in Requests
      PROVE  RequestOK(r)'
  <2>1. RequestOK(r)
    BY DEF FlowInv
  <2>2. /\ Unsent(r)' = Unsent(r) /\ Pumped(r)' = Pumped(r) /\ Claimed(r)' = Claimed(r)
        /\ Undecided(r)' = Undecided(r) /\ Refused(r)' = Refused(r)
    BY <1>1, <1>2 DEF Unsent, Pumped, Claimed, Undecided, Refused
  <2>3. CASE r \notin handling[c]
    BY <1>1, <1>2, <1>4, <2>1, <2>2, <2>3
       DEF RequestOK, UnreadOK, DealtOK, AskedOK, ClaimedOK, DeniedOK
  <2>4. CASE r \in handling[c]
    <3>1. r \in Dealt /\ r \in Held /\ (phase[c] = "recordDeny" => r \in Denying)
      BY <1>3, <2>4 DEF Dealt, Held, Denying
    <3>2. r \notin Posting' /\ r \notin Dealt' /\ r \notin prompts /\ ~ Pumped(r)
      BY <1>4, <2>1, <2>4, <3>1 DEF RequestOK, DealtOK
    <3>3. ~ Claimed(r)
      BY <3>2 DEF Claimed, Pumped
    <3>4. DeniedOK(r)'
      BY <1>1, <1>4, <2>1, <2>2, <2>4, <3>1 DEF RequestOK, DeniedOK
    <3>. QED
      BY <1>1, <1>2, <2>1, <2>2, <3>1, <3>2, <3>3, <3>4
         DEF RequestOK, UnreadOK, DealtOK, AskedOK, ClaimedOK
  <2>. QED
    BY <2>3, <2>4
<1>. QED
  BY <1>2, <1>4, <1>5 DEF FlowInv
\* What is posted can be clicked from then on; what cannot be posted is refused.
LEMMA PostFlow ==
  ASSUME TypeOK, FlowInv, NEW c \in Conns, PostPrompt(c)
  PROVE  FlowInv'
<1>1. /\ UNCHANGED <<waiter, up, pump, audit>>
      /\ phase[c] = "post" /\ Goto(c, "read", {})
  BY DEF PostPrompt, runner, surface
<1>2. OnceOK' /\ Unread' = Unread
  BY <1>1 DEF FlowInv, OnceOK, Unread
<1>3. "read" \in Phases /\ "read" \notin Busy /\ phase[c] \in Busy
  BY <1>1 DEF Phases, Busy
<1>4. /\ HeldOK' /\ Held' \subseteq Held /\ Dealt' \subseteq Dealt \ handling[c]
      /\ Denying' \subseteq Denying /\ Posting' \subseteq Posting \ handling[c]
  BY <1>1, <1>3, GotoSets DEF FlowInv
<1>5. handling[c] \subseteq Posting /\ handling[c] \subseteq Dealt /\ handling[c] \subseteq Held
  BY <1>1, <1>3 DEF Posting, Dealt, Held
<1>6. \/ prompts' = prompts \cup handling[c] /\ Replies' = Replies
      \/ /\ prompts' = prompts
         /\ \A a \in Replies' : a \in Replies \/ (a.req \in handling[c] /\ a.decision = "deny")
  <2>1. CASE UNCHANGED down /\ prompts' = prompts \cup handling[c]
    BY <2>1 DEF Replies
  <2>2. ASSUME NEW r \in handling[c], Send(c, r, "deny")
        PROVE  \A a \in Replies' : a \in Replies \/ (a.req \in handling[c] /\ a.decision = "deny")
    <3>1. r \in Requests
      BY DEF TypeOK
    <3>2. Replies' \subseteq Replies \cup {[req |-> r, decision |-> "deny"]}
      BY <2>2, <3>1, SendReplies
    <3>. QED
      BY <3>2
  <2>. QED
    BY <2>1, <2>2 DEF PostPrompt, PromptFails
<1>7. ASSUME NEW r \in Requests
      PROVE  RequestOK(r)'
  <2>1. RequestOK(r)
    BY DEF FlowInv
  <2>2. /\ Unsent(r)' = Unsent(r) /\ Pumped(r)' = Pumped(r) /\ Claimed(r)' = Claimed(r)
        /\ Claimed(r) => Pumped(r)
        /\ Refused(r) => Refused(r)'
        /\ Undecided(r) => Refused(r)
        /\ Undecided(r) /\ (r \notin handling[c] \/ Replies' = Replies) => Undecided(r)'
    BY <1>1, <1>6 DEF Unsent, Pumped, Claimed, Undecided, Refused
  <2>3. CASE r \notin handling[c]
    BY <1>1, <1>2, <1>4, <1>6, <2>1, <2>2, <2>3
       DEF RequestOK, UnreadOK, DealtOK, AskedOK, ClaimedOK, DeniedOK
  <2>4. CASE r \in handling[c]
    <3>1. /\ r \in Posting /\ r \in Dealt /\ r \in Held
          /\ r \notin Posting' /\ r \notin Dealt'
          /\ audit[r] = "asked" /\ Undecided(r) /\ ~ Claimed(r) /\ r \notin prompts
          /\ ~ Unsent(r) /\ r \notin Unread
      BY <1>4, <1>5, <2>1, <2>4 DEF RequestOK, AskedOK, DealtOK, UnreadOK
    <3>2. Refused(r)' /\ (r \in prompts' => Undecided(r)')
      BY <1>6, <2>2, <3>1
    <3>. QED
      BY <1>1, <1>2, <2>2, <3>1, <3>2
         DEF RequestOK, UnreadOK, DealtOK, AskedOK, ClaimedOK, DeniedOK
  <2>. QED
    BY <2>3, <2>4
<1>. QED
  BY <1>2, <1>4, <1>7 DEF FlowInv

\* A prompt that is cancelled can no longer be clicked; one that was claimed
\* stays undecided.
LEMMA CancelFlow ==
  ASSUME TypeOK, FlowInv, NEW c \in Conns, CancelPrompt(c)
  PROVE  FlowInv'
<1>1. /\ UNCHANGED <<waiter, up, down, pump>>
      /\ phase[c] = "cancel" /\ Goto(c, "fail", {})
      /\ prompts' = prompts \ handling[c]
      /\ \A r \in Requests :
           audit'[r] = IF r \in handling[c] THEN "cancelled" ELSE audit[r]
  BY DEF CancelPrompt, runner, wire, surface
<1>2. OnceOK' /\ Unread' = Unread /\ Replies' = Replies
  BY <1>1 DEF FlowInv, OnceOK, Unread, Replies
<1>3. "fail" \in Phases /\ phase[c] \notin Busy
  BY <1>1 DEF Phases, Busy
<1>4. /\ HeldOK' /\ Held' \subseteq Held /\ Dealt' \subseteq Dealt
      /\ Denying' \subseteq Denying /\ Posting' \subseteq Posting
  BY <1>1, <1>3, GotoSets DEF FlowInv
<1>5. handling[c] \cap Dealt = {} /\ handling[c] \subseteq Held
  BY <1>3 DEF FlowInv, HeldOK, Dealt, Held
<1>6. Posting \subseteq Dealt
  BY DEF Posting, Dealt, Busy
<1>7. ASSUME NEW r \in Requests
      PROVE  RequestOK(r)'
  <2>1. RequestOK(r)
    BY DEF FlowInv
  <2>2. /\ Unsent(r)' = Unsent(r) /\ Pumped(r)' = Pumped(r) /\ Claimed(r)' = Claimed(r)
        /\ Undecided(r)' = Undecided(r) /\ Refused(r)' = Refused(r)
    BY <1>1, <1>2 DEF Unsent, Pumped, Claimed, Undecided, Refused
  <2>. QED
    BY <1>1, <1>2, <1>4, <1>5, <1>6, <2>1, <2>2
       DEF RequestOK, UnreadOK, DealtOK, AskedOK, ClaimedOK, DeniedOK
<1>. QED
  BY <1>2, <1>4, <1>7 DEF FlowInv

\* So every step of a connection keeps that requests are decided once.
LEMMA ConnectionFlow ==
  ASSUME TypeOK, FlowInv, NEW c \in Conns, Connection(c)
  PROVE  FlowInv'
BY TeardownFlow, RequestFlow, RecordFlow, PostFlow, CancelFlow DEF Connection

-----------------------------------------------------------------------------
(* Clicks: one claims a prompt, and only that one decides its request          *)

\* The surface leaves queues and goroutines alone, but for what it replies.
LEMMA SurfaceSets ==
  ASSUME FlowInv, UNCHANGED <<waiter, up, phase, handling>>
  PROVE  /\ OnceOK' /\ HeldOK' /\ Unread' = Unread /\ Held' = Held
         /\ Dealt' = Dealt /\ Denying' = Denying /\ Posting' = Posting
         /\ \A r : Unsent(r)' = Unsent(r)
         /\ UNCHANGED down => Replies' = Replies
BY HeldStays DEF FlowInv, OnceOK, Unread, Unsent, Replies

\* A click is taken up on a prompt, which its claim takes away.
LEMMA ClickFlow ==
  ASSUME TypeOK, FlowInv, Claim \/ \E k \in Clicks : Click(k)
  PROVE  FlowInv'
<1>1. UNCHANGED <<waiter, up, down, phase, handling, audit>>
  BY DEF Claim, Click, runner, wire, server
<1>2. /\ OnceOK' /\ HeldOK' /\ Unread' = Unread /\ Held' = Held
      /\ Dealt' = Dealt /\ Denying' = Denying /\ Posting' = Posting
      /\ \A r : Unsent(r)' = Unsent(r)
      /\ Replies' = Replies
  BY <1>1, SurfaceSets
<1>3. ASSUME NEW r \in Requests
      PROVE  RequestOK(r)'
  <2>1. RequestOK(r)
    BY DEF FlowInv
  <2>2. Undecided(r)' = Undecided(r) /\ Refused(r)' = Refused(r)
    BY <1>1, <1>2 DEF Undecided, Refused
  <2>3. ASSUME NEW k \in Clicks, Click(k)
        PROVE  /\ prompts' = prompts /\ ~ Claimed(r)'
               /\ Pumped(r)' => r \in prompts
    BY <2>3 DEF Click, Claimed, Pumped
  <2>4. CASE Claim
    <3>1. PICK p \in Requests : p = pump.click.req
      BY <2>4, PumpBusy DEF Claim
    <3>2. /\ pump # Idle /\ pump.step = "claim" /\ pump \in [step : Steps, click : Clicks]
      BY <2>4, PumpBusy DEF Claim
    <3>3. /\ ~ Claimed(r)
          /\ Pumped(r) <=> r = p
      BY <3>1, <3>2 DEF Claimed, Pumped
    <3>4. \/ /\ p \in prompts /\ prompts' = prompts \ {p}
             /\ pump' = [pump EXCEPT !.step = "record"]
          \/ pump' = Idle /\ prompts' = prompts
      BY <2>4, <3>1 DEF Claim, Claims
    <3>5. CASE pump' = Idle /\ prompts' = prompts
      <4>1. ~ Claimed(r)' /\ ~ Pumped(r)'
        BY <3>5 DEF Claimed, Pumped
      <4>. QED
        BY <1>1, <1>2, <2>1, <2>2, <3>5, <4>1
           DEF RequestOK, UnreadOK, DealtOK, AskedOK, ClaimedOK, DeniedOK
    <3>6. CASE /\ p \in prompts /\ prompts' = prompts \ {p}
               /\ pump' = [pump EXCEPT !.step = "record"]
      <4>1. pump'.click = pump.click /\ pump'.step = "record" /\ pump' # Idle
        BY <3>2, <3>6 DEF Idle
      <4>2. (Claimed(r)' <=> r = p) /\ (Pumped(r)' <=> r = p)
        BY <3>1, <4>1 DEF Claimed, Pumped
      <4>3. r = p => r \notin Posting
        BY <2>1, <3>6 DEF RequestOK, DealtOK, Posting, Dealt, Busy
      <4>. QED
        BY <1>1, <1>2, <2>1, <2>2, <3>3, <3>6, <4>1, <4>2, <4>3
           DEF RequestOK, UnreadOK, DealtOK, AskedOK, ClaimedOK, DeniedOK
    <3>. QED
      BY <3>4, <3>5, <3>6
  <2>5. ASSUME NEW k \in Clicks, Click(k)
        PROVE  RequestOK(r)'
    BY <1>1, <1>2, <2>1, <2>2, <2>3, <2>5
       DEF RequestOK, UnreadOK, DealtOK, AskedOK, ClaimedOK, DeniedOK
  <2>. QED
    BY <2>4, <2>5
<1>. QED
  BY <1>2, <1>3 DEF FlowInv

\* What was claimed is recorded, then replied, as the click has it.
LEMMA DecisionFlow ==
  ASSUME TypeOK, FlowInv, RecordDecision \/ Reply
  PROVE  FlowInv'
<1>1. UNCHANGED <<waiter, up, phase, handling, prompts>>
  BY DEF RecordDecision, Reply, runner, wire, server
<1>2. /\ OnceOK' /\ HeldOK' /\ Unread' = Unread /\ Held' = Held
      /\ Dealt' = Dealt /\ Denying' = Denying /\ Posting' = Posting
      /\ \A r : Unsent(r)' = Unsent(r)
      /\ UNCHANGED down => Replies' = Replies
  BY <1>1, SurfaceSets
<1>3. PICK p \in Requests, d \in Decisions : p = pump.click.req /\ d = pump.click.decision
  BY PumpBusy DEF RecordDecision, Reply
<1>4. /\ pump # Idle /\ pump \in [step : Steps, click : Clicks]
      /\ \A r : Pumped(r) <=> r = p
      /\ \A r : Claimed(r) <=> r = p
  BY <1>3, PumpBusy DEF RecordDecision, Reply, Pumped, Claimed
<1>5. /\ p \notin prompts /\ Undecided(p) /\ p \notin Dealt /\ p \notin Posting
      /\ p \notin Unread /\ ~ Unsent(p)
      /\ audit[p] = "cancelled"
           \/ (pump.step = "record" /\ audit[p] = "asked")
           \/ (pump.step = "reply" /\ audit[p] = d)
  <2>1. RequestOK(p) /\ Claimed(p) /\ Pumped(p)
    BY <1>4 DEF FlowInv
  <2>. QED
    BY <1>3, <2>1 DEF RequestOK, UnreadOK, DealtOK, AskedOK, ClaimedOK
<1>6. Denying \subseteq Dealt
  BY DEF Denying, Dealt, Busy
<1>7. CASE RecordDecision
  <2>1. /\ audit' = [audit EXCEPT ![p] = d] /\ UNCHANGED down
        /\ pump' = [pump EXCEPT !.step = "reply"]
    BY <1>3, <1>7 DEF RecordDecision, wire
  <2>2. pump'.click = pump.click /\ pump'.step = "reply" /\ pump' # Idle
    BY <1>4, <2>1 DEF Idle
  <2>3. ASSUME NEW r \in Requests
        PROVE  RequestOK(r)'
    <3>1. RequestOK(r) /\ audit'[r] = IF r = p THEN d ELSE audit[r]
      BY <2>1 DEF FlowInv, TypeOK
    <3>2. /\ Undecided(r)' = Undecided(r) /\ Refused(r)' = Refused(r)
          /\ Undecided(r) => Refused(r)
      BY <1>1, <1>2, <2>1 DEF Undecided, Refused
    <3>3. (Claimed(r)' <=> r = p) /\ (Pumped(r)' <=> r = p)
      BY <1>3, <2>2 DEF Claimed, Pumped
    <3>. QED
      BY <1>1, <1>2, <1>3, <1>4, <1>5, <2>1, <2>2, <3>1, <3>2, <3>3
         DEF RequestOK, UnreadOK, DealtOK, AskedOK, ClaimedOK, DeniedOK
  <2>. QED
    BY <1>2, <2>3 DEF FlowInv
<1>8. CASE Reply
  <2>1. /\ Send(hub, p, d) /\ pump' = Idle /\ UNCHANGED audit /\ pump.step = "reply"
    BY <1>3, <1>8 DEF Reply
  <2>2. \A a \in Replies' : a \in Replies \/ (a.req = p /\ a.decision = d)
    <3>1. hub \in Conns \cup {NoConn}
      BY DEF TypeOK
    <3>2. Replies' \subseteq Replies \cup {[req |-> p, decision |-> d]}
      BY <2>1, <3>1, SendReplies
    <3>. QED
      BY <3>2
  <2>3. ASSUME NEW r \in Requests
        PROVE  RequestOK(r)'
    <3>1. RequestOK(r) /\ ~ Claimed(r)' /\ ~ Pumped(r)'
      BY <2>1 DEF FlowInv, Claimed, Pumped
    <3>2. CASE r # p
      <4>1. (Undecided(r) => Undecided(r)') /\ (Refused(r) => Refused(r)')
        BY <1>1, <2>2, <3>2 DEF Undecided, Refused
      <4>. QED
        BY <1>1, <1>2, <2>1, <3>1, <4>1
           DEF RequestOK, UnreadOK, DealtOK, AskedOK, ClaimedOK, DeniedOK
    <3>3. CASE r = p
      <4>1. audit[p] = "deny" => Refused(p)'
        <5>1. audit[p] = "deny" => d = "deny"
          BY <1>5, <2>1
        <5>2. d = "deny" => Refused(p)'
          BY <1>1, <1>5, <2>2 DEF Undecided, Refused
        <5>. QED
          BY <5>1, <5>2
      <4>2. p \notin Denying
        BY <1>5, <1>6
      <4>. QED
        BY <1>1, <1>2, <1>5, <2>1, <3>1, <3>3, <4>1, <4>2
           DEF RequestOK, UnreadOK, DealtOK, AskedOK, ClaimedOK, DeniedOK
    <3>. QED
      BY <3>2, <3>3
  <2>. QED
    BY <1>2, <2>3 DEF FlowInv
<1>. QED
  BY <1>7, <1>8

\* Commands, turns and a restart decide nothing.
LEMMA EnvironmentFlow ==
  ASSUME TypeOK, FlowInv,
         Environment \/ UNCHANGED vars \/ \E t \in Threads : NewSession(t)
  PROVE  FlowInv'
<1>1. CASE UNCHANGED <<waiter, up, down, phase, handling, prompts, pump, audit>>
  <2>1. /\ OnceOK' /\ HeldOK' /\ Unread' = Unread /\ Held' = Held
        /\ Dealt' = Dealt /\ Denying' = Denying /\ Posting' = Posting
        /\ Replies' = Replies
    BY <1>1, SurfaceSets
  <2>. QED
    BY <1>1, <2>1, FlowKept DEF Unsent
<1>2. CASE Restart
  <2>1. /\ UNCHANGED <<waiter, audit>> /\ prompts' = {} /\ pump' = Idle
        /\ \A c \in Conns : /\ up'[c] = <<>> /\ down'[c] = <<>> /\ handling'[c] = {}
                            /\ phase'[c] \in {"new", "over"}
    BY <1>2 DEF Restart, runner
  <2>2. OnceOK' /\ HeldOK'
    <3>1. DOMAIN <<>> = {}
      OBVIOUS
    <3>. QED
      BY <2>1, <3>1 DEF OnceOK, HeldOK, Busy
  <2>3. Unread' = {} /\ Replies' = {}
    <3>1. Elems(<<>>) = {}
      BY DEF Elems
    <3>. QED
      BY <2>1, <3>1 DEF Unread, Replies
  <2>4. Held' = {} /\ Dealt' = {} /\ Denying' = {} /\ Posting' = {}
    BY <2>1 DEF Held, Dealt, Denying, Posting
  <2>. QED
    BY <2>1, <2>2, <2>3, <2>4, FlowKept DEF Unsent
<1>. QED
  BY <1>1, <1>2 DEF Environment, OpenTurn, EndTurn, NewSession, vars, runner, wire,
     server, surface
\* At the start nothing was asked.
LEMMA FlowInit ==
  ASSUME Init
  PROVE  FlowInv
<1>1. /\ Unread = {} /\ Replies = {} /\ Held = {} /\ Dealt = {}
      /\ Denying = {} /\ Posting = {}
  BY DEF Init, Unread, Replies, Held, Dealt, Denying, Posting, Elems
<1>2. OnceOK /\ HeldOK
  BY DEF Init, OnceOK, HeldOK, Busy
<1>3. ASSUME NEW r \in Requests
      PROVE  RequestOK(r)
  BY <1>1
     DEF Init, RequestOK, UnreadOK, DealtOK, AskedOK, ClaimedOK, DeniedOK, Unsent,
         Undecided, Refused, Pumped, Claimed
<1>. QED
  BY <1>2, <1>3 DEF FlowInv

\* In every reachable state a request is in one place and decided once.
LEMMA FlowCorrect == Spec => []FlowInv
<1>1. Init => FlowInv
  BY FlowInit
<1>2. TypeOK /\ FlowInv /\ [Next]_vars => FlowInv'
  <2>. SUFFICES ASSUME TypeOK, FlowInv, [Next]_vars
                PROVE  FlowInv'
    OBVIOUS
  <2>1. CASE Surface
    BY <2>1, ClickFlow, DecisionFlow, EnvironmentFlow DEF Surface
  <2>2. CASE \E c \in Conns : Connection(c)
    BY <2>2, ConnectionFlow
  <2>. QED
    BY <2>1, <2>2, RunnerFlow, EnvironmentFlow DEF Next
<1>. QED
  BY <1>1, <1>2, TypeCorrect, PTL DEF Spec

\* What the table records as denied has not been allowed, and no answer on its
\* way will allow it, whoever clicks, decides or tears down when
\* (onPermissionRequest, OnDecision, failPendingFor).
THEOREM DeniedNeverRunsCorrect == Spec => []DeniedNeverRuns
<1>1. ASSUME FlowInv
      PROVE  DeniedNeverRuns
  <2>1. ASSUME NEW r \in Requests, audit[r] = "deny"
        PROVE  /\ waiter[r] # "allow"
               /\ \A d \in Decisions : Allows(d) => ~ Answering(r, d)
    <3>1. Refused(r) /\ ClaimedOK(r)
      BY <1>1, <2>1 DEF FlowInv, RequestOK, DeniedOK
    <3>2. ASSUME NEW d \in Decisions, Allows(d), NEW c \in Conns,
                 NEW i \in DOMAIN down[c],
                 down[c][i] = [req |-> r, decision |-> d]
          PROVE  FALSE
      <4>1. down[c][i] \in Replies
        BY DEF Replies, Elems
      <4>2. down[c][i].req = r /\ down[c][i].decision = d
        BY <3>2
      <4>. QED
        BY <3>1, <3>2, <4>1, <4>2 DEF Refused, Allows
    <3>3. ASSUME NEW d \in Decisions, Allows(d), pump # Idle, pump.step = "reply",
                 pump.click.req = r, pump.click.decision = d
          PROVE  FALSE
      BY <2>1, <3>1, <3>3 DEF ClaimedOK, Claimed, Allows
    <3>. QED
      BY <3>1, <3>2, <3>3 DEF Answering, Refused
  <2>. QED
    BY <2>1 DEF DeniedNeverRuns
<1>. QED
  BY <1>1, FlowCorrect, PTL

\* A prompt a click can still resolve is undecided: nothing is recorded, nothing is
\* on its way, the harness has not been let through (OnDecision claims first).
THEOREM UndecidedPromptCorrect == Spec => []UndecidedPrompt
<1>1. ASSUME TypeOK, FlowInv
      PROVE  UndecidedPrompt
  <2>1. ASSUME NEW r \in prompts
        PROVE  /\ audit[r] = "asked" /\ waiter[r] # "allow"
               /\ \A d \in Decisions : ~ Answering(r, d)
    <3>1. audit[r] = "asked" /\ Undecided(r) /\ ~ Claimed(r)
      BY <1>1 DEF TypeOK, FlowInv, RequestOK, AskedOK
    <3>2. ASSUME NEW d \in Decisions, NEW c \in Conns, NEW i \in DOMAIN down[c],
                 down[c][i] = [req |-> r, decision |-> d]
          PROVE  FALSE
      <4>1. down[c][i] \in Replies
        BY DEF Replies, Elems
      <4>2. down[c][i].req = r
        BY <3>2
      <4>. QED
        BY <3>1, <4>1, <4>2 DEF Undecided
    <3>. QED
      BY <3>1, <3>2 DEF Answering, Claimed, Undecided
  <2>. QED
    BY <2>1 DEF UndecidedPrompt
<1>. QED
  BY <1>1, TypeCorrect, FlowCorrect, PTL
-----------------------------------------------------------------------------
(* Answers: who waits can be answered, and prompts end with their runner        *)

\* A step that moves no goroutine and leaves prompts and what is recorded: who
\* waits still does, where it did.
LEMMA WaitKept ==
  ASSUME AnswerInv, UNCHANGED <<up, link, alive, phase, handling, audit>>,
         hub' = hub, left' = left, UNCHANGED prompts,
         \A r \in Requests : waiter'[r] = "waiting" => waiter[r] = "waiting",
         \A r \in Requests :
           /\ Waiting(r)' /\ Claimed(r) => Claimed(r)' \/ \E a \in Replies' : a.req = r
           /\ Waiting(r)' => \A a \in Replies : a.req = r => a \in Replies'
  PROVE  AnswerInv'
<1>1. LinkOK'
  BY DEF AnswerInv, LinkOK
<1>2. ASSUME NEW r \in Requests
      PROVE  WaitOK(r)' /\ CleanedOK(r)'
  <2>1. WaitOK(r) /\ CleanedOK(r)
    BY DEF AnswerInv
  <2>2. CleanedOK(r)'
    BY <2>1 DEF CleanedOK
  <2>3. WaitOK(r)'
    <3>1. SUFFICES ASSUME Waiting(r)'
                   PROVE  \/ r \in Elems(up'[link'])
                          \/ phase'[link'] = "post" /\ r \in handling'[link']
                          \/ r \in prompts' \/ Claimed(r)' \/ audit'[r] = "cancelled"
                          \/ \E a \in Replies' : a.req = r
      BY DEF WaitOK
    <3>2. Waiting(r)
      BY <3>1 DEF Waiting
    <3>. QED
      BY <2>1, <3>1, <3>2 DEF WaitOK
  <2>. QED
    BY <2>2, <2>3
<1>. QED
  BY <1>1, <1>2 DEF AnswerInv

\* The runner's steps: what it sends on a connection that works is there to be
\* read, and what it reads it no longer waits for.
LEMMA RunnerAnswers ==
  ASSUME TypeOK, AnswerInv, Runner
  PROVE  AnswerInv'
<1>1. ASSUME NEW p \in Requests, Register(p) \/ Timeout(p)
      PROVE  AnswerInv'
  <2>1. /\ UNCHANGED <<up, link, alive, phase, handling, audit, hub, left, prompts, pump, down>>
        /\ \A r \in Requests : waiter'[r] = "waiting" => waiter[r] = "waiting"
    BY <1>1 DEF Register, Timeout, wire, server, surface, TypeOK
  <2>2. Replies' = Replies /\ \A r \in Requests : Claimed(r)' = Claimed(r)
    BY <2>1 DEF Replies, Claimed
  <2>. QED
    BY <2>1, <2>2, WaitKept
<1>2. ASSUME NEW p \in Requests, SendRequest(p)
      PROVE  AnswerInv'
  <2>1. /\ UNCHANGED <<down, link, alive, phase, handling, audit, hub, left, prompts, pump>>
        /\ \A r \in Requests \ {p} : waiter'[r] = waiter[r]
        /\ waiter'[p] = "waiting" => /\ link \in Conns
                                     /\ alive[link] => up' = [up EXCEPT ![link] = Append(@, p)]
        /\ \/ UNCHANGED up
           \/ link \in Conns /\ up' = [up EXCEPT ![link] = Append(@, p)]
    BY <1>2 DEF SendRequest, server, surface, TypeOK
  <2>2. Replies' = Replies /\ \A r \in Requests : Claimed(r)' = Claimed(r)
    BY <2>1 DEF Replies, Claimed
  <2>3. LinkOK'
    BY <2>1 DEF AnswerInv, LinkOK
  <2>4. ASSUME link \in Conns, up' = [up EXCEPT ![link] = Append(@, p)]
        PROVE  Elems(up'[link]) = Elems(up[link]) \cup {p}
    <3>1. up[link] \in Seq(Requests) /\ up'[link] = Append(up[link], p)
      BY <2>4 DEF TypeOK
    <3>. QED
      BY <3>1, ElemsOf
  <2>5. ASSUME NEW r \in Requests
        PROVE  WaitOK(r)' /\ CleanedOK(r)'
    <3>1. WaitOK(r) /\ CleanedOK(r)
      BY DEF AnswerInv
    <3>2. CleanedOK(r)'
      BY <2>1, <3>1 DEF CleanedOK
    <3>3. WaitOK(r)'
      <4>1. CASE r = p
        BY <2>1, <2>4, <4>1 DEF WaitOK, Waiting
      <4>2. CASE r # p
        <5>1. Waiting(r)' = Waiting(r)
          BY <2>1, <4>2 DEF Waiting
        <5>2. r \in Elems(up[link]) => r \in Elems(up'[link])
          BY <2>1, <2>4
        <5>. QED
          BY <2>1, <2>2, <3>1, <5>1, <5>2 DEF WaitOK
      <4>. QED
        BY <4>1, <4>2
    <3>. QED
      BY <3>2, <3>3
  <2>. QED
    BY <2>3, <2>5 DEF AnswerInv
<1>3. CASE ReceiveAnswer
  <2>1. PICK p \in Requests : p = Head(down[link]).req
    <3>1. Head(down[link]) \in Answers
      BY <1>3, HeadTailProperties DEF ReceiveAnswer, TypeOK
    <3>. QED
      BY <3>1
  <2>2. /\ UNCHANGED <<up, link, alive, phase, handling, audit, hub, left, prompts, pump>>
        /\ waiter'[p] # "waiting"
        /\ \A r \in Requests \ {p} : waiter'[r] = waiter[r]
    BY <1>3, <2>1 DEF ReceiveAnswer, Behavior, server, surface, TypeOK
  <2>3. \A a \in Replies : a.req # p => a \in Replies'
    <3>1. /\ link \in Conns /\ down[link] \in Seq(Answers) /\ down[link] # <<>>
          /\ down'[link] = Tail(down[link])
          /\ \A b \in Conns \ {link} : down'[b] = down[b]
      BY <1>3 DEF ReceiveAnswer, TypeOK
    <3>2. Elems(down[link]) \subseteq Elems(Tail(down[link])) \cup {Head(down[link])}
      <4>1. ASSUME NEW S, NEW s \in Seq(S), s # <<>>
            PROVE  Elems(s) \subseteq Elems(Tail(s)) \cup {Head(s)}
        <5>1. \E x : x \in S
          BY <4>1
        <5>. QED
          BY <4>1, <5>1, ElemsOf
      <4>. QED
        BY <3>1, <4>1
    <3>. QED
      BY <2>1, <3>1, <3>2 DEF Replies
  <2>4. \A r \in Requests : Claimed(r)' = Claimed(r)
    BY <2>2 DEF Claimed
  <2>. QED
    BY <2>2, <2>3, <2>4, WaitKept DEF Waiting
<1>4. CASE RunnerDrops
  <2>1. /\ link' = NoConn /\ ~ alive[link] /\ link # NoConn
        /\ UNCHANGED <<alive, hub, phase, handling, left, prompts>>
        /\ \A r \in Requests : waiter'[r] # "waiting"
    BY <1>4 DEF RunnerDrops, wire, server, TypeOK
  <2>. QED
    BY <2>1 DEF AnswerInv, LinkOK, WaitOK, CleanedOK, Waiting
<1>. QED
  BY <1>1, <1>2, <1>3, <1>4 DEF Runner

\* A connection is made where none works and nobody waits; one that breaks, and
\* the teardown of one that is broken, leave nobody waiting on it.
LEMMA TeardownAnswers ==
  ASSUME TypeOK, FlowInv, AnswerInv, NEW c \in Conns,
         Connect(c) \/ Break(c) \/ Unregister(c)
  PROVE  AnswerInv'
<1>1. UNCHANGED <<waiter, up, handling, left, prompts, pump, audit>>
  BY DEF Connect, Break, Unregister, runner, wire, server, surface
<1>2. CASE Connect(c)
  <2>1. /\ link = NoConn /\ link' = c /\ hub' = c
        /\ alive' = [alive EXCEPT ![c] = TRUE]
        /\ phase' = [phase EXCEPT ![c] = "read"]
    BY <1>2 DEF Connect
  <2>2. LinkOK' /\ \A r \in Requests : WaitOK(r)'
    BY <1>1, <2>1 DEF AnswerInv, LinkOK, WaitOK, Waiting, TypeOK
  <2>3. \A r \in Requests : CleanedOK(r)'
    BY <1>1, <2>1 DEF CleanedOK, TypeOK
  <2>. QED
    BY <2>2, <2>3 DEF AnswerInv
<1>3. CASE Break(c)
  <2>1. /\ UNCHANGED <<link, hub, phase>>
        /\ alive[c] /\ alive' = [alive EXCEPT ![c] = FALSE]
    BY <1>3 DEF Break, runner, server
  <2>2. LinkOK' /\ \A r \in Requests : WaitOK(r)'
    BY <1>1, <2>1 DEF AnswerInv, LinkOK, WaitOK, Waiting, TypeOK
  <2>3. \A r \in Requests : CleanedOK(r)'
    BY <1>1, <2>1 DEF AnswerInv, CleanedOK
  <2>. QED
    BY <2>2, <2>3 DEF AnswerInv
<1>4. CASE Unregister(c)
  <2>1. /\ UNCHANGED <<link, alive, down>>
        /\ ~ alive[c] /\ phase[c] = "read"
        /\ phase' = [phase EXCEPT ![c] = "ended"]
        /\ hub' = IF hub = c THEN NoConn ELSE hub
    BY <1>4 DEF Unregister, runner, wire
  <2>2. LinkOK'
    BY <1>1, <2>1 DEF AnswerInv, LinkOK, TypeOK
  <2>3. Replies' = Replies /\ \A r \in Requests : Claimed(r)' = Claimed(r)
    BY <1>1, <2>1 DEF Replies, Claimed
  <2>4. ASSUME NEW r \in Requests
        PROVE  WaitOK(r)' /\ CleanedOK(r)'
    <3>1. WaitOK(r) /\ CleanedOK(r)
      BY DEF AnswerInv
    <3>2. WaitOK(r)'
      BY <1>1, <2>1, <2>3, <3>1 DEF WaitOK, Waiting, TypeOK
    <3>3. CleanedOK(r)'
      BY <1>1, <2>1, <3>1 DEF CleanedOK, TypeOK
    <3>. QED
      BY <3>2, <3>3
  <2>. QED
    BY <2>2, <2>4 DEF AnswerInv
<1>. QED
  BY <1>2, <1>3, <1>4
\* A goroutine goes on: who waits on its connection is answered, asked about or
\* waits for its prompt, and no prompt is left behind.
LEMMA GoesOnAnswers ==
  ASSUME TypeOK, AnswerInv, NEW c \in Conns, NEW ph \in Phases,
         UNCHANGED <<waiter, link, alive, hub, pump>>,
         phase' = [phase EXCEPT ![c] = ph],
         \A b \in Conns \ {c} : handling'[b] = handling[b] /\ left'[b] = left[b],
         ph \in Busy \cup {"read"} \/ ~ alive[c],
         Replies \subseteq Replies',
         \A r \in Requests : Waiting(r) =>
           \/ /\ r \in Elems(up[link]) => r \in Elems(up'[link])
              /\ c = link => ~ (phase[c] = "post" /\ r \in handling[c])
              /\ r \in prompts => r \in prompts' \/ audit'[r] = "cancelled"
              /\ audit[r] = "cancelled" => audit'[r] = "cancelled"
           \/ c = link /\ ph = "post" /\ r \in handling'[c]
           \/ r \in prompts'
           \/ \E a \in Replies' : a.req = r,
         \A r \in Requests : r \in prompts' =>
           \/ ph \in Busy \cup {"read", "ended"}
           \/ ph \in {"fail", "cancel"} /\ r \in left'[c] \cup handling'[c]
           \/ r \in prompts /\ ~ \/ phase[c] \in Busy \cup {"read", "ended"}
                                 \/ /\ phase[c] \in {"fail", "cancel"}
                                    /\ r \in left[c] \cup handling[c]
  PROVE  AnswerInv'
<1>1. phase'[c] = ph /\ \A b \in Conns \ {c} : phase'[b] = phase[b]
  BY DEF TypeOK
<1>2. LinkOK'
  BY <1>1 DEF AnswerInv, LinkOK
<1>3. ASSUME NEW r \in Requests
      PROVE  WaitOK(r)' /\ CleanedOK(r)'
  <2>1. WaitOK(r) /\ CleanedOK(r)
    BY DEF AnswerInv
  <2>2. WaitOK(r)'
    <3>1. SUFFICES ASSUME Waiting(r)'
                   PROVE  \/ r \in Elems(up'[link'])
                          \/ phase'[link'] = "post" /\ r \in handling'[link']
                          \/ r \in prompts' \/ Claimed(r)' \/ audit'[r] = "cancelled"
                          \/ \E a \in Replies' : a.req = r
      BY DEF WaitOK
    <3>2. Waiting(r) /\ link \in Conns /\ link' = link /\ (Claimed(r) => Claimed(r)')
      BY <3>1 DEF Waiting, TypeOK, Claimed
    <3>3. CASE /\ r \in Elems(up[link]) => r \in Elems(up'[link])
               /\ c = link => ~ (phase[c] = "post" /\ r \in handling[c])
               /\ r \in prompts => r \in prompts' \/ audit'[r] = "cancelled"
               /\ audit[r] = "cancelled" => audit'[r] = "cancelled"
      BY <1>1, <2>1, <3>2, <3>3 DEF WaitOK
    <3>. QED
      BY <1>1, <3>2, <3>3
  <2>3. CleanedOK(r)'
    BY <1>1, <2>1 DEF CleanedOK
  <2>. QED
    BY <2>2, <2>3
<1>. QED
  BY <1>2, <1>3 DEF AnswerInv

\* A request that is read on the connection that works is answered or to be posted.
LEMMA RequestAnswers ==
  ASSUME TypeOK, FlowInv, AnswerInv, NEW c \in Conns, OnPermissionRequest(c)
  PROVE  AnswerInv'
<1>1. PICK p \in Requests : p = Head(up[c])
  BY HeadTailProperties DEF TypeOK, OnPermissionRequest
<1>2. /\ UNCHANGED <<waiter, link, alive, hub, pump, prompts, left>>
      /\ phase[c] = "read"
      /\ up[c] # <<>> /\ up' = [up EXCEPT ![c] = Tail(@)]
  BY DEF OnPermissionRequest, runner, surface
<1>3. PICK ph \in {"read", "recordDeny", "recordAllow", "post"} :
        /\ \/ ph = "read" /\ UNCHANGED <<phase, handling, audit>>
           \/ ph # "read" /\ Goto(c, ph, {p}) /\ audit' = [audit EXCEPT ![p] = "asked"]
        /\ \/ ph # "post" /\ \E d \in Decisions : Send(c, p, d)
           \/ ph = "post" /\ UNCHANGED down
  BY <1>1 DEF OnPermissionRequest
<1>4. /\ p \in Elems(up[c]) /\ p \in Unread
      /\ \A b \in Conns \ {c} : p \notin Elems(up[b])
      /\ \A b \in Conns : Elems(up[b]) \subseteq Elems(up'[b]) \cup {p}
  BY <1>1, <1>2, ReadRequest DEF FlowInv
<1>5. /\ audit[p] = "none" /\ Undecided(p) /\ p \notin prompts \cup Held /\ ~ Pumped(p)
  BY <1>4 DEF FlowInv, RequestOK, UnreadOK
<1>6. Replies \subseteq Replies'
      /\ (ph # "post" /\ alive[c] => \E a \in Replies' : a.req = p)
  <2>1. ASSUME NEW d \in Decisions, Send(c, p, d)
        PROVE  /\ Replies \subseteq Replies'
               /\ alive[c] => \E a \in Replies' : a.req = p
    BY <2>1, SendReplies
  <2>2. CASE UNCHANGED down /\ ph = "post"
    BY <2>2 DEF Replies
  <2>. QED
    BY <1>3, <2>1, <2>2
<1>7. /\ phase' = [phase EXCEPT ![c] = ph]
      /\ \A b \in Conns \ {c} : handling'[b] = handling[b] /\ left'[b] = left[b]
      /\ ph = "post" => handling'[c] = {p}
      /\ \A r \in Requests \ {p} : audit'[r] = audit[r]
  <2>1. CASE ph = "read" /\ UNCHANGED <<phase, handling, audit>>
    BY <1>2, <2>1 DEF TypeOK
  <2>2. CASE Goto(c, ph, {p}) /\ audit' = [audit EXCEPT ![p] = "asked"]
    BY <1>2, <2>2 DEF TypeOK, Goto
  <2>. QED
    BY <1>3, <2>1, <2>2
<1>8. Waiting(p) => c = link
  <2>1. SUFFICES ASSUME Waiting(p), c # link
                 PROVE  FALSE
    OBVIOUS
  <2>2. WaitOK(p) /\ link \in Conns
    BY <2>1 DEF AnswerInv, Waiting, TypeOK
  <2>3. p \notin handling[link] /\ ~ Claimed(p)
    BY <1>5, <2>2 DEF Held, Claimed, Pumped
  <2>. QED
    BY <1>4, <1>5, <2>1, <2>2, <2>3 DEF WaitOK, Undecided
<1>9. ASSUME NEW r \in Requests, Waiting(r)
      PROVE  \/ /\ r \in Elems(up[link]) => r \in Elems(up'[link])
                /\ c = link => ~ (phase[c] = "post" /\ r \in handling[c])
                /\ r \in prompts => r \in prompts' \/ audit'[r] = "cancelled"
                /\ audit[r] = "cancelled" => audit'[r] = "cancelled"
             \/ c = link /\ ph = "post" /\ r \in handling'[c]
             \/ r \in prompts'
             \/ \E a \in Replies' : a.req = r
  <2>1. link \in Conns /\ alive[link]
    BY <1>9 DEF Waiting, TypeOK
  <2>2. CASE r = p
    BY <1>6, <1>7, <1>8, <1>9, <2>1, <2>2
  <2>3. CASE r # p
    BY <1>2, <1>4, <1>7, <2>1, <2>3
  <2>. QED
    BY <2>2, <2>3
<1>10. ph \in Phases /\ ph \in Busy \cup {"read"}
  BY DEF Phases, Busy
<1>. QED
  BY <1>2, <1>6, <1>7, <1>9, <1>10, GoesOnAnswers

\* What is recorded was answered; what cannot be posted is answered, what is posted
\* can be clicked.
LEMMA PostAnswers ==
  ASSUME TypeOK, FlowInv, AnswerInv, NEW c \in Conns,
         RecordUnprompted(c) \/ PostPrompt(c)
  PROVE  AnswerInv'
<1>1. /\ UNCHANGED <<waiter, link, alive, hub, pump, left, up>>
      /\ Goto(c, "read", {})
      /\ phase' = [phase EXCEPT ![c] = "read"]
      /\ \A b \in Conns \ {c} : handling'[b] = handling[b] /\ left'[b] = left[b]
  BY DEF RecordUnprompted, PostPrompt, runner, wire, surface, Goto, TypeOK
<1>2. "read" \in Phases
  BY DEF Phases
<1>3. CASE RecordUnprompted(c)
  <2>1. /\ phase[c] \in {"recordAllow", "recordDeny"} /\ UNCHANGED <<down, prompts>>
        /\ \A r \in Requests \ handling[c] : audit'[r] = audit[r]
    BY <1>3 DEF RecordUnprompted, wire
  <2>2. Replies' = Replies
    BY <2>1 DEF Replies
  <2>3. \A r \in Requests : audit[r] = "cancelled" => audit'[r] = "cancelled"
    <3>1. ASSUME NEW r \in handling[c]
          PROVE  audit[r] = "asked"
      <4>1. r \in Dealt /\ r \in Requests
        BY <2>1 DEF Dealt, Busy, TypeOK
      <4>. QED
        BY <4>1 DEF FlowInv, RequestOK, DealtOK
    <3>. QED
      BY <2>1, <3>1
  <2>. QED
    BY <1>1, <1>2, <2>1, <2>2, <2>3, GoesOnAnswers
<1>4. CASE PostPrompt(c)
  <2>1. UNCHANGED audit /\ phase[c] = "post"
    BY <1>4 DEF PostPrompt
  <2>2. CASE UNCHANGED down /\ prompts' = prompts \cup handling[c]
    <3>1. Replies' = Replies
      BY <2>2 DEF Replies
    <3>. QED
      BY <1>1, <1>2, <2>1, <2>2, <3>1, GoesOnAnswers
  <2>3. ASSUME NEW p \in handling[c], Send(c, p, "deny"), UNCHANGED prompts
        PROVE  AnswerInv'
    <3>1. p \in Requests /\ \A r \in handling[c] : r = p
      BY DEF TypeOK, FlowInv, HeldOK
    <3>2. /\ Replies \subseteq Replies'
          /\ alive[c] => \E a \in Replies' : a.req = p
      BY <2>3, <3>1, SendReplies
    <3>3. \A r \in Requests : Waiting(r) /\ c = link /\ r \in handling[c] =>
            \E a \in Replies' : a.req = r
      BY <3>1, <3>2 DEF Waiting
    <3>. QED
      BY <1>1, <1>2, <2>1, <2>3, <3>2, <3>3, GoesOnAnswers
  <2>. QED
    BY <1>4, <2>2, <2>3 DEF PostPrompt, PromptFails
<1>. QED
  BY <1>3, <1>4

\* The teardown finds every prompt there is, and leaves none it has found.
LEMMA FailingAnswers ==
  ASSUME TypeOK, FlowInv, AnswerInv, NEW c \in Conns,
         \/ FailPendingFor(c) \/ CancelPrompt(c) \/ FailingDone(c)
         \/ \E r \in Requests : VisitPrompt(c, r)
  PROVE  AnswerInv'
<1>1. /\ UNCHANGED <<waiter, link, alive, hub, pump, up, down>>
      /\ phase[c] \in {"ended", "fail", "cancel"}
  BY DEF FailPendingFor, CancelPrompt, FailingDone, VisitPrompt, runner, wire, surface
<1>2. Replies' = Replies
  BY <1>1 DEF Replies
<1>3. ~ alive[c] /\ phase[c] # "post"
  BY <1>1 DEF AnswerInv, LinkOK, Busy
<1>4. {"fail", "cancel", "over"} \subseteq Phases
  BY DEF Phases
<1>5. CASE FailPendingFor(c)
  <2>1. /\ UNCHANGED <<handling, prompts, audit>>
        /\ phase' = [phase EXCEPT ![c] = "fail"]
        /\ left'[c] = prompts /\ \A b \in Conns \ {c} : left'[b] = left[b]
    BY <1>5 DEF FailPendingFor, TypeOK
  <2>2. \A r \in Requests : Waiting(r) =>
          /\ r \in Elems(up[link]) => r \in Elems(up'[link])
          /\ c = link => ~ (phase[c] = "post" /\ r \in handling[c])
          /\ r \in prompts => r \in prompts' \/ audit'[r] = "cancelled"
          /\ audit[r] = "cancelled" => audit'[r] = "cancelled"
    BY <1>1, <1>3, <2>1
  <2>3. \A r \in Requests : r \in prompts' => r \in left'[c] \cup handling'[c]
    BY <2>1
  <2>4. "fail" \in Phases /\ Replies \subseteq Replies'
    BY <1>2, <1>4
  <2>5. \A b \in Conns \ {c} : handling'[b] = handling[b] /\ left'[b] = left[b]
    BY <2>1
  <2>. QED
    BY <1>1, <1>3, <2>1, <2>2, <2>3, <2>4, <2>5, GoesOnAnswers
<1>6. CASE CancelPrompt(c)
  <2>1. /\ UNCHANGED left /\ phase[c] = "cancel"
        /\ phase' = [phase EXCEPT ![c] = "fail"]
        /\ handling'[c] = {} /\ \A b \in Conns \ {c} : handling'[b] = handling[b]
        /\ prompts' = prompts \ handling[c]
        /\ \A r \in Requests :
             audit'[r] = IF r \in handling[c] THEN "cancelled" ELSE audit[r]
    BY <1>6 DEF CancelPrompt, Goto, TypeOK
  <2>2. "cancel" \notin Busy \cup {"read", "ended"}
    BY DEF Busy
  <2>3. \A r \in Requests : Waiting(r) =>
          /\ r \in Elems(up[link]) => r \in Elems(up'[link])
          /\ c = link => ~ (phase[c] = "post" /\ r \in handling[c])
          /\ r \in prompts => r \in prompts' \/ audit'[r] = "cancelled"
          /\ audit[r] = "cancelled" => audit'[r] = "cancelled"
    BY <1>1, <1>3, <2>1
  <2>4. \A r \in Requests : r \in prompts' =>
          \/ "fail" \in {"fail", "cancel"} /\ r \in left'[c] \cup handling'[c]
          \/ r \in prompts /\ ~ \/ phase[c] \in Busy \cup {"read", "ended"}
                                \/ /\ phase[c] \in {"fail", "cancel"}
                                   /\ r \in left[c] \cup handling[c]
    BY <2>1, <2>2
  <2>5. "fail" \in Phases /\ Replies \subseteq Replies'
    BY <1>2, <1>4
  <2>6. \A b \in Conns \ {c} : handling'[b] = handling[b] /\ left'[b] = left[b]
    BY <2>1
  <2>. QED
    BY <1>1, <1>3, <2>1, <2>3, <2>4, <2>5, <2>6, GoesOnAnswers
<1>7. CASE FailingDone(c)
  <2>1. /\ UNCHANGED <<handling, prompts, audit>> /\ phase[c] = "fail"
        /\ phase' = [phase EXCEPT ![c] = "over"]
        /\ left[c] \cap prompts = {}
        /\ \A b \in Conns \ {c} : left'[b] = left[b]
    BY <1>7 DEF FailingDone, TypeOK
  <2>2. handling[c] = {}
    BY <2>1 DEF FlowInv, HeldOK, Busy
  <2>3. "fail" \notin Busy \cup {"read", "ended"}
    BY DEF Busy
  <2>. QED
    BY <1>1, <1>2, <1>3, <1>4, <2>1, <2>2, <2>3, GoesOnAnswers
<1>8. ASSUME NEW p \in Requests, VisitPrompt(c, p)
      PROVE  AnswerInv'
  <2>1. /\ UNCHANGED <<prompts, audit>> /\ phase[c] = "fail"
        /\ phase' = [phase EXCEPT ![c] = "cancel"]
        /\ handling'[c] = {p} /\ left'[c] = left[c] \ {p}
        /\ \A b \in Conns \ {c} : handling'[b] = handling[b] /\ left'[b] = left[b]
    BY <1>8 DEF VisitPrompt, Goto, TypeOK
  <2>2. handling[c] = {}
    BY <2>1 DEF FlowInv, HeldOK, Busy
  <2>3. "fail" \notin Busy \cup {"read", "ended"}
    BY DEF Busy
  <2>. QED
    BY <1>1, <1>2, <1>3, <1>4, <2>1, <2>2, <2>3, GoesOnAnswers
<1>. QED
  BY <1>5, <1>6, <1>7, <1>8
\* A click that claims a prompt answers it, on the connection the runner has then.
LEMMA SurfaceAnswers ==
  ASSUME TypeOK, AnswerInv, Surface
  PROVE  AnswerInv'
<1>1. UNCHANGED <<waiter, up, link, alive, phase, handling, hub, left>>
  BY DEF Surface, Click, Claim, RecordDecision, Reply, NewSession, runner, wire, server
<1>2. CASE \/ \E k \in Clicks : Click(k)
           \/ \E t \in Threads : NewSession(t)
  <2>1. /\ UNCHANGED <<down, audit, prompts>>
        /\ \A r \in Requests : Claimed(r) => Claimed(r)'
    BY <1>2 DEF Click, NewSession, Claimed, wire, surface
  <2>2. Replies' = Replies
    BY <2>1 DEF Replies
  <2>. QED
    BY <1>1, <2>1, <2>2, WaitKept
<1>3. LinkOK'
  BY <1>1 DEF AnswerInv, LinkOK
<1>4. CASE Claim
  <2>1. PICK p \in Requests : p = pump.click.req
    BY <1>4, PumpBusy DEF Claim
  <2>2. /\ UNCHANGED <<down, audit>>
        /\ \A r \in Requests : ~ Claimed(r)
        /\ \/ UNCHANGED prompts
           \/ prompts' = prompts \ {p} /\ Claimed(p)'
    BY <1>4, <2>1, PumpBusy DEF Claim, Claims, Claimed, wire, Idle
  <2>3. Replies' = Replies
    BY <2>2 DEF Replies
  <2>4. ASSUME NEW r \in Requests
        PROVE  WaitOK(r)' /\ CleanedOK(r)'
    <3>1. WaitOK(r) /\ CleanedOK(r)
      BY DEF AnswerInv
    <3>2. CleanedOK(r)'
      BY <1>1, <2>2, <3>1 DEF CleanedOK
    <3>3. WaitOK(r)'
      BY <1>1, <2>2, <2>3, <3>1 DEF WaitOK, Waiting
    <3>. QED
      BY <3>2, <3>3
  <2>. QED
    BY <1>3, <2>4 DEF AnswerInv
<1>5. CASE RecordDecision
  <2>1. PICK p \in Requests : p = pump.click.req
    BY <1>5, PumpBusy DEF RecordDecision
  <2>2. /\ UNCHANGED <<down, prompts>>
        /\ \A r \in Requests : Claimed(r) => Claimed(r)'
        /\ Claimed(p)'
        /\ \A r \in Requests \ {p} : audit'[r] = audit[r]
    BY <1>5, <2>1, PumpBusy DEF RecordDecision, Claimed, wire, Idle, TypeOK
  <2>3. Replies' = Replies
    BY <2>2 DEF Replies
  <2>4. ASSUME NEW r \in Requests
        PROVE  WaitOK(r)' /\ CleanedOK(r)'
    <3>1. WaitOK(r) /\ CleanedOK(r)
      BY DEF AnswerInv
    <3>2. CleanedOK(r)'
      BY <1>1, <2>2, <3>1 DEF CleanedOK
    <3>3. WaitOK(r)'
      BY <1>1, <2>2, <2>3, <3>1 DEF WaitOK, Waiting
    <3>. QED
      BY <3>2, <3>3
  <2>. QED
    BY <1>3, <2>4 DEF AnswerInv
<1>6. CASE Reply
  <2>1. PICK p \in Requests, d \in Decisions : p = pump.click.req /\ d = pump.click.decision
    BY <1>6, PumpBusy DEF Reply
  <2>2. Send(hub, p, d) /\ UNCHANGED <<audit, prompts>> /\ hub \in Conns \cup {NoConn}
    BY <1>6, <2>1 DEF Reply, TypeOK
  <2>3. /\ Replies \subseteq Replies'
        /\ hub \in Conns /\ alive[hub] => \E a \in Replies' : a.req = p
    BY <2>2, SendReplies
  <2>4. ASSUME NEW r \in Requests, Waiting(r)', Claimed(r)
        PROVE  \E a \in Replies' : a.req = r
    <3>1. link \in Conns /\ alive[link]
      BY <1>1, <2>4 DEF Waiting, TypeOK
    <3>2. hub = link /\ r = p
      BY <2>1, <2>4, <3>1 DEF AnswerInv, LinkOK, Claimed
    <3>. QED
      BY <2>3, <3>1, <3>2
  <2>. QED
    BY <1>1, <2>2, <2>3, <2>4, WaitKept
<1>. QED
  BY <1>2, <1>4, <1>5, <1>6 DEF Surface

\* Turns take nothing from who waits; a restart leaves no connection to wait on.
LEMMA EnvironmentAnswers ==
  ASSUME TypeOK, AnswerInv, Environment \/ UNCHANGED vars
  PROVE  AnswerInv'
<1>1. CASE Restart
  <2>1. /\ UNCHANGED <<waiter, link>> /\ prompts' = {}
        /\ \A c \in Conns : ~ alive'[c]
    BY <1>1 DEF Restart, runner
  <2>2. link \in Conns \cup {NoConn}
    BY DEF TypeOK
  <2>. QED
    BY <2>1, <2>2 DEF AnswerInv, LinkOK, WaitOK, CleanedOK, Waiting
<1>2. CASE ~ Restart
  <2>1. UNCHANGED <<waiter, up, down, link, alive, phase, handling, hub, left, audit,
                    prompts, pump>>
    BY <1>2 DEF Environment, OpenTurn, EndTurn, vars, runner, wire, server, surface
  <2>2. Replies' = Replies /\ \A r \in Requests : Claimed(r)' = Claimed(r)
    BY <2>1 DEF Replies, Claimed
  <2>. QED
    BY <2>1, <2>2, WaitKept
<1>. QED
  BY <1>1, <1>2

\* In every reachable state a waiting request can be answered, and every prompt has
\* a goroutine that will remove it.
LEMMA AnswersCorrect == Spec => []AnswerInv
<1>1. Init => AnswerInv
  BY DEF Init, AnswerInv, LinkOK, WaitOK, CleanedOK, Waiting
<1>2. TypeOK /\ FlowInv /\ AnswerInv /\ [Next]_vars => AnswerInv'
  <2>. SUFFICES ASSUME TypeOK, FlowInv, AnswerInv, [Next]_vars
                PROVE  AnswerInv'
    OBVIOUS
  <2>1. ASSUME NEW c \in Conns, Connection(c)
        PROVE  AnswerInv'
    BY <2>1, TeardownAnswers, RequestAnswers, PostAnswers, FailingAnswers DEF Connection
  <2>. QED
    BY <2>1, RunnerAnswers, SurfaceAnswers, EnvironmentAnswers DEF Next
<1>. QED
  BY <1>1, <1>2, TypeCorrect, FlowCorrect, PTL DEF Spec

\* A request that waits on a working connection can be answered, unless the
\* teardown of an earlier connection cancelled its prompt: the harness is never
\* blocked on a request nobody has (requestPermission, onPermissionRequest).
THEOREM WaitingIsAnswerableCorrect == Spec => []WaitingIsAnswerable
<1>1. ASSUME TypeOK, AnswerInv
      PROVE  WaitingIsAnswerable
  <2>1. ASSUME NEW r \in Requests, Waiting(r), audit[r] # "cancelled"
        PROVE  Answerable(r)
    <3>1. /\ \/ r \in Elems(up[link])
             \/ phase[link] = "post" /\ r \in handling[link]
             \/ r \in prompts
             \/ Claimed(r)
             \/ \E a \in Replies : a.req = r
      BY <1>1, <2>1 DEF AnswerInv, WaitOK
    <3>2. ASSUME NEW a \in Replies, a.req = r
          PROVE  \E d \in Decisions : Answering(r, d)
      <4>1. PICK c \in Conns : \E i \in DOMAIN down[c] : down[c][i] = a
        BY <3>2 DEF Replies, Elems
      <4>2. PICK i \in DOMAIN down[c] : down[c][i] = a
        BY <4>1
      <4>3. down[c] \in Seq(Answers)
        BY <1>1 DEF TypeOK
      <4>4. a \in Answers
        <5>1. ASSUME NEW S, NEW s \in Seq(S), NEW j \in DOMAIN s
              PROVE  s[j] \in S
          OBVIOUS
        <5>. QED
          BY <4>2, <4>3, <5>1
      <4>5. a = [req |-> r, decision |-> a.decision] /\ a.decision \in Decisions
        BY <3>2, <4>4
      <4>6. PICK d \in Decisions : a = [req |-> r, decision |-> d]
        BY <4>5
      <4>7. Answering(r, d)
        BY <4>2, <4>6 DEF Answering
      <4>. QED
        BY <4>7
    <3>. QED
      BY <3>1, <3>2 DEF Answerable, Elems
  <2>. QED
    BY <2>1 DEF WaitingIsAnswerable
<1>. QED
  BY <1>1, TypeCorrect, AnswersCorrect, PTL

\* When every connection is gone and torn down no prompt is left to click, also
\* one that was posted while another teardown was under way (failPendingFor).
THEOREM NoPromptOutlivesRunnerCorrect == Spec => []NoPromptOutlivesRunner
<1>1. ASSUME TypeOK, AnswerInv
      PROVE  NoPromptOutlivesRunner
  <2>1. SUFFICES ASSUME \A c \in Conns : phase[c] \in {"new", "over"},
                        NEW r \in prompts
                 PROVE  FALSE
    BY DEF NoPromptOutlivesRunner
  <2>2. CleanedOK(r)
    BY <1>1 DEF TypeOK, AnswerInv
  <2>. QED
    BY <2>1, <2>2 DEF CleanedOK, Busy
<1>. QED
  BY <1>1, TypeCorrect, AnswersCorrect, PTL
=============================================================================
