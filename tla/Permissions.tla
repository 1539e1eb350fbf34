---------------------------- MODULE Permissions ----------------------------
(***************************************************************************)
(* Permission prompts, for one runner.                                     *)
(*                                                                         *)
(* A harness asks its runner whether a tool call may proceed.  The runner  *)
(* registers a waiter and sends a request; the gateway answers it from     *)
(* policy or from a session grant, or posts a prompt and answers with what *)
(* a person clicks.  A dropped connection cancels: the runner fails its    *)
(* waiters, the gateway resolves the runner's prompts.                     *)
(*                                                                         *)
(* Interleaved here: the goroutine of every connection, which handles its  *)
(* frames one at a time and then tears the connection down; the surface's  *)
(* pump, which handles clicks and commands one at a time; the runner.  A   *)
(* turn's life is in Turns: here it is opened and ended by the environment.*)
(***************************************************************************)
EXTENDS Naturals, FiniteSets, Sequences

CONSTANTS
  Requests,     \* permission requests a harness may make, one per tool call
  Turns,
  Threads,
  Tools,
  TurnOf,       \* request -> turn it is made in
  ThreadOf,     \* turn -> thread
  ToolOf,       \* request -> tool
  Denied,       \* requests a deny rule of the runner matches
  AutoApproved, \* requests an allow rule matches, or all: unattended
  Users,        \* who may click
  Approvers,    \* policy.approvers; empty is anyone
  MaxConns,     \* bound: connections the runner ever opens
  MaxAsks,      \* bound: requests made
  MaxRestarts   \* bound: restarts of the gateway

ASSUME RequestsAssumption ==
  /\ TurnOf \in [Requests -> Turns]
  /\ ThreadOf \in [Turns -> Threads]
  /\ ToolOf \in [Requests -> Tools]
  /\ Denied \subseteq Requests
  /\ AutoApproved \subseteq Requests
ASSUME PeopleAssumption == Approvers \subseteq Users
ASSUME BoundsAssumption ==
  /\ MaxConns \in Nat
  /\ MaxAsks \in Nat
  /\ MaxRestarts \in Nat

Conns     == 1 .. MaxConns
NoConn    == 0
Decisions == {"allow", "allow_session", "deny"}
Answers   == [req : Requests, decision : Decisions]
Clicks    == [req : Requests, user : Users, decision : Decisions]

VARIABLES
  turn,      \* the turn is new, open at the gateway, or ended there
  waiter,    \* request -> where the runner's call to requestPermission is
  link,      \* Runner.conn, or NoConn
  alive,     \* connection -> the socket works
  up,        \* connection -> requests sent to the gateway, not yet read
  down,      \* connection -> answers sent to the runner, not yet read
  hub,       \* the runner's registered connection, or NoConn
  phase,     \* connection -> where its goroutine is
  handling,  \* connection -> the requests (at most one) its goroutine is at
  left,      \* connection -> prompts its teardown has still to visit
  prompts,   \* Gateway.prompts: prompts a click can resolve
  pump,      \* the click being handled, and the next step of OnDecision
  grants,    \* grantStore: threads and tools that are not asked about
  audit,     \* permissions table: request -> recorded decision
  clicked,   \* clicks OnDecision has taken up
  restarts   \* how often the gateway has restarted

runner  == <<waiter, link>>
wire    == <<alive, up, down>>
server  == <<hub, phase, handling, left>>
surface == <<pump, clicked>>
vars == <<turn, runner, wire, server, prompts, surface, grants, audit,
          restarts>>

WaiterStates == {"idle", "registered", "failed", "waiting", "allow", "deny"}
Phases == {"new", "read", "recordAllow", "recordDeny", "post", "ended",
           "fail", "cancel", "over"}
Idle == [step |-> "idle"]
Steps == {"claim", "record", "reply"}

TypeOK ==
  /\ turn \in [Turns -> {"new", "open", "ended"}]
  /\ waiter \in [Requests -> WaiterStates]
  /\ link \in Conns \cup {NoConn}
  /\ alive \in [Conns -> BOOLEAN]
  /\ up \in [Conns -> Seq(Requests)]
  /\ down \in [Conns -> Seq(Answers)]
  /\ hub \in Conns \cup {NoConn}
  /\ phase \in [Conns -> Phases]
  /\ handling \in [Conns -> SUBSET Requests]
  /\ left \in [Conns -> SUBSET Requests]
  /\ prompts \subseteq Requests
  /\ pump \in {Idle} \cup [step : Steps, click : Clicks]
  /\ grants \subseteq Threads \X Tools
  /\ audit \in [Requests -> Decisions \cup {"none", "asked", "cancelled"}]
  /\ clicked \subseteq Clicks
  /\ restarts \in 0 .. MaxRestarts

Init ==
  /\ turn = [t \in Turns |-> "new"]
  /\ waiter = [r \in Requests |-> "idle"]
  /\ link = NoConn
  /\ alive = [c \in Conns |-> FALSE]
  /\ up = [c \in Conns |-> <<>>]
  /\ down = [c \in Conns |-> <<>>]
  /\ hub = NoConn
  /\ phase = [c \in Conns |-> "new"]
  /\ handling = [c \in Conns |-> {}]
  /\ left = [c \in Conns |-> {}]
  /\ prompts = {}
  /\ pump = Idle
  /\ grants = {}
  /\ audit = [r \in Requests |-> "none"]
  /\ clicked = {}
  /\ restarts = 0

-----------------------------------------------------------------------------
(* The runner *)

\* requestPermission registers the waiter, for a call made in a turn the
\* runner has been given.
Register(r) ==
  /\ waiter[r] = "idle"
  /\ Cardinality({q \in Requests : waiter[q] # "idle"}) < MaxAsks
  /\ turn[TurnOf[r]] # "new"
  /\ waiter' = [waiter EXCEPT ![r] = "registered"]
  /\ UNCHANGED <<turn, link, wire, server, prompts, surface, grants,
                 audit, restarts>>

\* ... and then sends the request, which fails without a connection, may fail
\* on a broken one, and is lost when a broken one takes it.  A waiter that was
\* failed in between finds the error as soon as it waits.
SendRequest(r) ==
  /\ waiter[r] \in {"registered", "failed"}
  /\ \/ /\ link # NoConn
        /\ up' = IF alive[link] THEN [up EXCEPT ![link] = Append(@, r)] ELSE up
        /\ waiter' = [waiter EXCEPT
                        ![r] = IF @ = "failed" THEN "deny" ELSE "waiting"]
     \/ /\ IF link = NoConn THEN TRUE ELSE ~ alive[link]
        /\ waiter' = [waiter EXCEPT ![r] = "deny"]
        /\ UNCHANGED up
  /\ UNCHANGED <<turn, link, alive, down, server, prompts, surface,
                 grants, audit, restarts>>

\* The helper's deadline passes: no decision reached the runner.
Timeout(r) ==
  /\ waiter[r] = "waiting"
  /\ waiter' = [waiter EXCEPT ![r] = "deny"]
  /\ UNCHANGED <<turn, link, wire, server, prompts, surface, grants,
                 audit, restarts>>

\* Mutant: any answer reads as approval.
AnyAnswerAllows(d) == "allow"

\* Mutant: the decision is handed on as it came.
DecisionAsIs(d) == d

\* What an answer means to the harness.
Behavior(d) == IF d = "deny" THEN "deny" ELSE "allow"

\* handleFrame of a PermissionResponse: resolvePending hands it to its waiter,
\* and drops it when there is none.
ReceiveAnswer ==
  /\ link # NoConn
  /\ alive[link]
  /\ down[link] # <<>>
  /\ LET a == Head(down[link]) IN
       waiter' = [waiter EXCEPT
                    ![a.req] = IF @ = "waiting" THEN Behavior(a.decision) ELSE @]
  /\ down' = [down EXCEPT ![link] = Tail(@)]
  /\ UNCHANGED <<turn, link, alive, up, server, prompts, surface, grants,
                 audit, restarts>>

\* connectOnce returns: the connection is forgotten and failPending denies
\* every waiter.
RunnerDrops ==
  /\ link # NoConn
  /\ ~ alive[link]
  /\ link' = NoConn
  /\ waiter' = [r \in Requests |->
                  CASE waiter[r] = "waiting"    -> "deny"
                    [] waiter[r] = "registered" -> "failed"
                    [] OTHER                    -> waiter[r]]
  /\ UNCHANGED <<turn, wire, server, prompts, surface, grants, audit,
                 restarts>>

\* The socket of c breaks, by the network or by either side closing it.  What
\* the gateway has not yet read can still be read.
Break(c) ==
  /\ alive[c]
  /\ alive' = [alive EXCEPT ![c] = FALSE]
  /\ down' = [down EXCEPT ![c] = <<>>]
  /\ UNCHANGED <<turn, runner, up, server, prompts, surface, grants,
                 audit, restarts>>

\* The runner dials again and the gateway registers the connection, displacing
\* one whose end the gateway has not noticed.
Connect(c) ==
  /\ link = NoConn
  /\ phase[c] = "new"
  /\ \A b \in Conns : b < c => phase[b] # "new"
  /\ link' = c
  /\ alive' = [alive EXCEPT ![c] = TRUE]
  /\ hub' = c
  /\ phase' = [phase EXCEPT ![c] = "read"]
  /\ UNCHANGED <<turn, waiter, up, down, handling, left, prompts, surface,
                 grants, audit, restarts>>

-----------------------------------------------------------------------------
(* The gateway: a request *)

\* Conn.Send: an answer written to a broken connection is lost.
Send(c, r, d) ==
  down' = IF c # NoConn /\ alive[c]
            THEN [down EXCEPT ![c] = Append(@, [req |-> r, decision |-> d])]
            ELSE down

Goto(c, ph, reqs) ==
  /\ phase' = [phase EXCEPT ![c] = ph]
  /\ handling' = [handling EXCEPT ![c] = reqs]

\* Mutant: a grant is looked up before the deny rules.
GrantBeforePolicy(r) ==
  \/ <<ThreadOf[TurnOf[r]], ToolOf[r]>> \in grants
  \/ r \notin Denied /\ r \in AutoApproved

\* What proceeds without a click: a grant held in the thread for the tool, or
\* policy; never what a deny rule matches.
Unprompted(r) ==
  /\ r \notin Denied
  /\ \/ <<ThreadOf[TurnOf[r]], ToolOf[r]>> \in grants
     \/ r \in AutoApproved

\* onPermissionRequest of the next frame c carries, up to the answer or to the
\* prompt.  The answer is sent before the decision is recorded.
OnPermissionRequest(c) ==
  /\ phase[c] = "read"
  /\ up[c] # <<>>
  /\ up' = [up EXCEPT ![c] = Tail(@)]
  /\ LET r == Head(up[c]) IN
     \/ /\ turn[TurnOf[r]] # "open"
        /\ Send(c, r, "deny")
        /\ UNCHANGED <<phase, handling, audit>>
     \/ /\ turn[TurnOf[r]] = "open"
        /\ audit' = [audit EXCEPT ![r] = "asked"]
        /\ \/ /\ r \in Denied
              /\ ~ Unprompted(r)
              /\ Send(c, r, "deny")
              /\ Goto(c, "recordDeny", {r})
           \/ /\ Unprompted(r)
              /\ Send(c, r, "allow")
              /\ Goto(c, "recordAllow", {r})
           \/ /\ r \notin Denied
              /\ ~ Unprompted(r)
              /\ Goto(c, "post", {r})
              /\ UNCHANGED down
  /\ UNCHANGED <<turn, runner, alive, hub, left, prompts, surface, grants,
                 restarts>>

\* RecordPermissionDecision of an answer given without a prompt.
RecordUnprompted(c) ==
  /\ phase[c] \in {"recordAllow", "recordDeny"}
  /\ audit' = [r \in Requests |->
                 IF r \in handling[c]
                   THEN IF phase[c] = "recordAllow" THEN "allow" ELSE "deny"
                   ELSE audit[r]]
  /\ Goto(c, "read", {})
  /\ UNCHANGED <<turn, runner, wire, hub, left, prompts, surface, grants,
                 restarts>>

\* Mutant: a prompt that cannot be posted is not answered.
Unanswered(c) ==
  /\ handling[c] # {}
  /\ UNCHANGED down

\* The surface is missing or refuses the prompt: the runner is told no.
PromptFails(c) == \E r \in handling[c] : Send(c, r, "deny")

\* Surface.Prompt succeeds and the prompt is stored, which makes its buttons
\* count, or it fails.
PostPrompt(c) ==
  /\ phase[c] = "post"
  /\ \/ /\ prompts' = prompts \cup handling[c]
        /\ UNCHANGED down
     \/ /\ PromptFails(c)
        /\ UNCHANGED prompts
  /\ Goto(c, "read", {})
  /\ UNCHANGED <<turn, runner, alive, up, hub, left, surface, grants, audit,
                 restarts>>

-----------------------------------------------------------------------------
(* The gateway: a click *)

ApproverAllowed(u) == Approvers = {} \/ u \in Approvers

\* A person clicks a button, and OnDecision finds the prompt and an
\* approver.  Any other click it ignores: nothing changes.
Click(k) ==
  /\ pump = Idle
  /\ k.req \in prompts
  /\ ApproverAllowed(k.user)
  /\ clicked' = clicked \cup {k}
  /\ pump' = [step |-> "claim", click |-> k]
  /\ UNCHANGED <<turn, runner, wire, server, prompts, grants, audit,
                 restarts>>

\* Mutant: the prompt is looked at, not claimed.
ClaimKeeps(r) ==
  /\ r \in prompts
  /\ UNCHANGED prompts

\* LoadAndDelete finds the prompt still there.
Claims(r) ==
  /\ r \in prompts
  /\ prompts' = prompts \ {r}

\* OnDecision claims the prompt, or leaves it to who resolved it first.
Claim ==
  /\ pump # Idle
  /\ pump.step = "claim"
  /\ \/ /\ Claims(pump.click.req)
        /\ pump' = [pump EXCEPT !.step = "record"]
     \/ /\ pump.click.req \notin prompts
        /\ pump' = Idle
        /\ UNCHANGED prompts
  /\ UNCHANGED <<turn, runner, wire, server, clicked, grants, audit, restarts>>

\* The decision is recorded; one for the session grants the tool.
RecordDecision ==
  /\ pump # Idle
  /\ pump.step = "record"
  /\ LET k == pump.click IN
     /\ audit' = [audit EXCEPT ![k.req] = k.decision]
     /\ grants' = IF k.decision = "allow_session"
                    THEN grants \cup {<<ThreadOf[TurnOf[k.req]], ToolOf[k.req]>>}
                    ELSE grants
  /\ pump' = [pump EXCEPT !.step = "reply"]
  /\ UNCHANGED <<turn, runner, wire, server, prompts, clicked, restarts>>

\* The decision goes to the connection the runner has now, if it has one.
Reply ==
  /\ pump # Idle
  /\ pump.step = "reply"
  /\ Send(hub, pump.click.req, pump.click.decision)
  /\ pump' = Idle
  /\ UNCHANGED <<turn, runner, alive, up, server, prompts, clicked, grants,
                 audit, restarts>>

\* !new, or !rebind, in a thread: its grants end with its session.
NewSession(t) ==
  /\ pump = Idle
  /\ grants' = grants \ ({t} \X Tools)
  /\ UNCHANGED <<turn, runner, wire, server, prompts, surface, audit,
                 restarts>>

-----------------------------------------------------------------------------
(* The gateway: the end of a connection *)

\* c's read loop fails and c is unregistered, unless it was displaced.
Unregister(c) ==
  /\ phase[c] = "read"
  /\ ~ alive[c]
  /\ hub' = IF hub = c THEN NoConn ELSE hub
  /\ phase' = [phase EXCEPT ![c] = "ended"]
  /\ UNCHANGED <<turn, runner, wire, handling, left, prompts, surface,
                 grants, audit, restarts>>

\* Mutant: a connection that is not the runner's last one cleans nothing up.
OnlyLastFails(c) ==
  /\ phase[c] = "ended"
  /\ left' = [left EXCEPT ![c] = prompts]
  /\ phase' = [phase EXCEPT
                 ![c] = IF \A b \in Conns : b > c => phase[b] = "new"
                          THEN "fail" ELSE "over"]
  /\ UNCHANGED <<turn, runner, wire, hub, handling, prompts, surface,
                 grants, audit, restarts>>

\* failPendingFor starts its Range over the prompts.  They are found by the
\* runner's name, whatever connection they were asked on.
FailPendingFor(c) ==
  /\ phase[c] = "ended"
  /\ left' = [left EXCEPT ![c] = prompts]
  /\ phase' = [phase EXCEPT ![c] = "fail"]
  /\ UNCHANGED <<turn, runner, wire, hub, handling, prompts, surface,
                 grants, audit, restarts>>

\* Range reads the next prompt, which may be one stored after it started ...
VisitPrompt(c, r) ==
  /\ phase[c] = "fail"
  /\ r \in prompts
  /\ left' = [left EXCEPT ![c] = @ \ {r}]
  /\ Goto(c, "cancel", {r})
  /\ UNCHANGED <<turn, runner, wire, hub, prompts, surface, grants, audit,
                 restarts>>

\* ... deletes it, already claimed or not, and records it as denied because the
\* runner disconnected.
CancelPrompt(c) ==
  /\ phase[c] = "cancel"
  /\ prompts' = prompts \ handling[c]
  /\ audit' = [r \in Requests |->
                 IF r \in handling[c] THEN "cancelled" ELSE audit[r]]
  /\ Goto(c, "fail", {})
  /\ UNCHANGED <<turn, runner, wire, hub, left, surface, grants, restarts>>

\* Range has visited every prompt that was there when it started and still is.
FailingDone(c) ==
  /\ phase[c] = "fail"
  /\ left[c] \cap prompts = {}
  /\ left' = [left EXCEPT ![c] = {}]
  /\ phase' = [phase EXCEPT ![c] = "over"]
  /\ UNCHANGED <<turn, runner, wire, hub, handling, prompts, surface,
                 grants, audit, restarts>>

-----------------------------------------------------------------------------
(* Turns, and the gateway's life *)

\* A turn opens in a thread that has none open, and ends.
OpenTurn(t) ==
  /\ turn[t] = "new"
  /\ \A s \in Turns : ThreadOf[s] = ThreadOf[t] => turn[s] # "open"
  /\ turn' = [turn EXCEPT ![t] = "open"]
  /\ UNCHANGED <<runner, wire, server, prompts, surface, grants, audit,
                 restarts>>

EndTurn(t) ==
  /\ turn[t] = "open"
  /\ turn' = [turn EXCEPT ![t] = "ended"]
  /\ UNCHANGED <<runner, wire, server, prompts, surface, grants, audit,
                 restarts>>

\* The gateway stops and starts: prompts, grants and turns were in memory; the
\* table and clicks remain.
Restart ==
  /\ restarts < MaxRestarts
  /\ restarts' = restarts + 1
  /\ turn' = [t \in Turns |-> IF turn[t] = "open" THEN "ended" ELSE turn[t]]
  /\ alive' = [c \in Conns |-> FALSE]
  /\ up' = [c \in Conns |-> <<>>]
  /\ down' = [c \in Conns |-> <<>>]
  /\ hub' = NoConn
  /\ phase' = [c \in Conns |-> IF phase[c] = "new" THEN "new" ELSE "over"]
  /\ handling' = [c \in Conns |-> {}]
  /\ left' = [c \in Conns |-> {}]
  /\ prompts' = {}
  /\ pump' = Idle
  /\ grants' = {}
  /\ UNCHANGED <<runner, clicked, audit>>

Runner ==
  \/ \E r \in Requests : Register(r) \/ SendRequest(r) \/ Timeout(r)
  \/ ReceiveAnswer
  \/ RunnerDrops
Connection(c) ==
  \/ Connect(c) \/ Break(c)
  \/ OnPermissionRequest(c) \/ RecordUnprompted(c)
  \/ PostPrompt(c)
  \/ Unregister(c) \/ FailPendingFor(c) \/ CancelPrompt(c) \/ FailingDone(c)
  \/ \E r \in Requests : VisitPrompt(c, r)
Surface ==
  \/ \E k \in Clicks : Click(k)
  \/ Claim \/ RecordDecision \/ Reply
  \/ \E t \in Threads : NewSession(t)
Environment ==
  \/ \E t \in Turns : OpenTurn(t) \/ EndTurn(t)
  \/ Restart

Next ==
  \/ Runner
  \/ \E c \in Conns : Connection(c)
  \/ Surface
  \/ Environment

Spec == Init /\ [][Next]_vars

-----------------------------------------------------------------------------
(* Properties *)

Allows(d) == d # "deny"

\* An approver's click that lets r proceed: on its own prompt, or for the
\* session on a prompt of the same tool in the same thread.
Approved(r) ==
  \E k \in clicked :
    /\ Approvers = {} \/ k.user \in Approvers
    /\ Allows(k.decision)
    /\ \/ k.req = r
       \/ /\ k.decision = "allow_session"
          /\ ThreadOf[TurnOf[k.req]] = ThreadOf[TurnOf[r]]
          /\ ToolOf[k.req] = ToolOf[r]

Authorized(r) == r \notin Denied /\ (r \in AutoApproved \/ Approved(r))

\* A tool call proceeds only with an authority: policy, or an approver's click
\* on this request or on one whose grant covers it; and never one a deny rule
\* matches, whoever clicked what (policy.go MatchDeny, onPermissionRequest,
\* OnDecision).
AllowHasAuthor ==
  \A r \in Requests : waiter[r] = "allow" => Authorized(r)

Answering(r, d) ==
  \/ \E c \in Conns : \E i \in DOMAIN down[c] :
       down[c][i] = [req |-> r, decision |-> d]
  \/ pump # Idle /\ pump.step = "reply" /\ pump.click.req = r /\ pump.click.decision = d

\* What the table records as denied has not been allowed, and no answer on its
\* way will allow it (OnDecision claims before it acts).
DeniedNeverRuns ==
  \A r \in Requests : audit[r] = "deny" =>
    /\ waiter[r] # "allow"
    /\ \A d \in Decisions : Allows(d) => ~ Answering(r, d)

\* A prompt a click can still resolve has not been decided: nothing is
\* recorded, nothing is on its way, the harness has not been let through.
UndecidedPrompt ==
  \A r \in prompts :
    /\ audit[r] = "asked"
    /\ \A d \in Decisions : ~ Answering(r, d)
    /\ waiter[r] # "allow"

Claimed(r) == pump # Idle /\ pump.step \in {"record", "reply"} /\ pump.click.req = r

\* A request that waits on a working connection is at the gateway, asked about,
\* or being answered.
Answerable(r) ==
  \/ \E i \in DOMAIN up[link] : up[link][i] = r
  \/ r \in handling[link] /\ phase[link] # "cancel"
  \/ r \in prompts
  \/ Claimed(r)
  \/ \E d \in Decisions : Answering(r, d)

Waiting(r) == waiter[r] = "waiting" /\ link # NoConn /\ alive[link]

\* A request that waits on a working connection can be answered, unless the
\* teardown of an earlier connection cancelled its prompt.
WaitingIsAnswerable ==
  \A r \in Requests : Waiting(r) => Answerable(r) \/ audit[r] = "cancelled"

\* What the comment of failPendingFor says: prompts are resolved when the
\* runner drops, so none is cancelled while its request waits on a connection
\* that works.
CancelledWhenDropped == \A r \in Requests : Waiting(r) => Answerable(r)

\* When every connection is gone and torn down no prompt is left to click
\* (failPendingFor).
NoPromptOutlivesRunner ==
  (\A c \in Conns : phase[c] \in {"new", "over"}) => prompts = {}

\* What the README says of the audit trail: a tool call that was allowed is
\* recorded as allowed, once nobody is about to record it.
AllowedIsAudited ==
  \A r \in Requests :
    /\ waiter[r] = "allow"
    /\ \A c \in Conns : r \notin handling[c]
    /\ ~ Claimed(r)
    => audit[r] \in {"allow", "allow_session"}
=============================================================================
