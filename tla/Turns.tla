------------------------------- MODULE Turns -------------------------------
(***************************************************************************)
(* The turn lifecycle of the gateway, for one runner.                      *)
(*                                                                         *)
(* An inbound message reserves its thread's single turn slot, passes the   *)
(* runner's concurrency cap, opens a turn and is sent to the runner, or is *)
(* persisted in the offline queue when the runner is away.  A turn ends by *)
(* the runner's Done or Error frame, by the reconciler of a dropped        *)
(* connection, by the sweep of silent turns, or by being abandoned; its    *)
(* end frees the runner's slot and the thread's, which start what was      *)
(* parked behind it.                                                       *)
(*                                                                         *)
(* The gateway's goroutines interleave between the sections they execute   *)
(* under a lock and between I/O calls.  Each is a process with a stack of  *)
(* calls still to make (todo); one step executes the call on top.  A       *)
(* message and the turn it opens have the same number: dispatchTurn makes  *)
(* one turn for one message.  Routing is in Routing, permissions are in    *)
(* Permissions, output is in Streams.                                      *)
(***************************************************************************)
EXTENDS Naturals, FiniteSets, SequencesExt

CONSTANTS
  Threads,        \* conversation threads
  MaxMsgs,        \* bound: inbound messages
  MaxConns,       \* bound: connections the runner ever opens
  MaxRestarts,    \* bound: restarts of the gateway
  MaxConcurrent,  \* the runner's max_concurrent; 0 is no cap
  MaxQueueDepth,  \* maxQueueDepth (25 in the code)
  QueueLimit,     \* gateway.queue_limit of the offline queue; 0 is no limit
  OutCap,         \* capacity of a connection's send queue (256 in the code)
  StoreErrors,    \* whether store writes may fail
  StartsOnline    \* whether the runner connects before the first message

ASSUME BoundsAssumption ==
  /\ MaxMsgs \in Nat
  /\ MaxConns \in Nat
  /\ MaxRestarts \in Nat
ASSUME LimitsAssumption ==
  /\ MaxConcurrent \in Nat
  /\ MaxQueueDepth \in Nat
  /\ QueueLimit \in Nat
  /\ OutCap \in Nat
ASSUME SwitchesAssumption ==
  /\ StoreErrors \in BOOLEAN
  /\ StartsOnline \in BOOLEAN
  /\ StartsOnline => MaxConns > 0

Msgs   == 1 .. MaxMsgs
Conns  == 1 .. MaxConns
NoConn == 0

(***************************************************************************)
(* Processes: the surface's pump, which delivers inbound messages one at a *)
(* time; each connection's goroutine, which becomes its reconciler when    *)
(* the connection ends; and the ticker that sweeps stranded turns.         *)
(***************************************************************************)
Pump    == 0
Sweeper == MaxConns + 1
Procs   == 0 .. MaxConns + 1

VARIABLES
  arrived,        \* how many messages the surface has delivered
  thread,         \* message -> its thread
  threadActive,   \* threads with a turn in flight
  threadWaiting,  \* thread -> messages parked behind it
  active,         \* runnerQueue.active
  waiting,        \* runnerQueue.waiting
  turns,          \* the turns map: open turns
  queued,         \* turns whose queued flag is set
  hub,            \* the runner's registered connection, or NoConn
  closed,         \* connection -> CloseWith has run
  out,            \* connection -> messages in its send queue or on the wire
  row,            \* turns table: message -> status of its turn
  offline,        \* queued_messages table, in id order
  dropped,        \* messages given up before a turn was opened for them
  todo,           \* process -> stack of calls it has still to make
  phase,          \* connection -> where its goroutine is
  drain,          \* connection -> rows its drain has still to send
  left,           \* connection -> turns its reconciler has still to visit
  alive,          \* connection -> the socket works
  up,             \* connection -> frames the runner has sent on it
  running,        \* turns the runner's harness is working on
  restarts        \* how often the gateway has restarted

inbound  == <<arrived, thread>>
queues   == <<threadActive, threadWaiting, active, waiting, dropped>>
turnVars == <<turns, queued, row, offline>>
hubVars  == <<hub, closed, out>>
connVars == <<phase, drain, left>>
runner   == <<alive, up, running>>
vars == <<inbound, queues, turnVars, hubVars, todo, connVars, runner, restarts>>

Statuses == {"none", "running", "done", "error"}
Phases   == {"new", "hello", "drain", "read", "ended", "reconcile", "over"}
Ops      == {"admit", "open", "send", "enqueue", "mark", "abandon", "done",
             "error", "endThread", "forget", "drained"}
CallSet  == [op : Ops, msg : Msgs, conn : Conns \cup {NoConn}]
Frames   == [kind : {"done", "error"}, msg : Msgs]

InboundOK ==
  /\ arrived \in 0 .. MaxMsgs
  /\ thread \in [Msgs -> Threads]
QueuesOK ==
  /\ threadActive \in SUBSET Threads
  /\ threadWaiting \in [Threads -> Seq(Msgs)]
  /\ active \in Nat
  /\ waiting \in Seq(Msgs)
  /\ dropped \in SUBSET Msgs
TurnsOK ==
  /\ turns \in SUBSET Msgs
  /\ queued \in SUBSET Msgs
  /\ row \in [Msgs -> Statuses]
  /\ offline \in Seq(Msgs)
HubOK ==
  /\ hub \in Conns \cup {NoConn}
  /\ closed \in [Conns -> BOOLEAN]
  /\ out \in [Conns -> Seq(Msgs)]
CallsOK == todo \in [Procs -> Seq(CallSet)]
ConnsOK ==
  /\ phase \in [Conns -> Phases]
  /\ drain \in [Conns -> Seq(Msgs)]
  /\ left \in [Conns -> SUBSET Msgs]
RunnerOK ==
  /\ alive \in [Conns -> BOOLEAN]
  /\ up \in [Conns -> Seq(Frames)]
  /\ running \in SUBSET Msgs
RestartsOK == restarts \in 0 .. MaxRestarts

\* The invariant every other one builds on: the shape of the gateway's state.
TypeOK ==
  /\ InboundOK /\ QueuesOK /\ TurnsOK /\ HubOK
  /\ CallsOK /\ ConnsOK /\ RunnerOK /\ RestartsOK

-----------------------------------------------------------------------------
(* Calls *)

Call(op, m) == [op |-> op, msg |-> m, conn |-> NoConn]

\* The call on top of p's stack is op.
At(p, op) == todo[p] # <<>> /\ Head(todo[p]).op = op
Idle(p)   == todo[p] = <<>>
Msg(p)    == Head(todo[p]).msg

\* p has made the call on top of its stack, which makes these calls in turn.
Return(p, calls) == todo' = [todo EXCEPT ![p] = calls \o Tail(@)]
Start(p, calls)  == todo' = [todo EXCEPT ![p] = calls]

Init ==
  /\ arrived = 0
  /\ thread \in [Msgs -> Threads]
  /\ threadActive = {}
  /\ threadWaiting = [t \in Threads |-> <<>>]
  /\ active = 0
  /\ waiting = <<>>
  /\ dropped = {}
  /\ turns = {}
  /\ queued = {}
  /\ row = [m \in Msgs |-> "none"]
  /\ offline = <<>>
  /\ hub = IF StartsOnline THEN 1 ELSE NoConn
  /\ closed = [c \in Conns |-> FALSE]
  /\ out = [c \in Conns |-> <<>>]
  /\ todo = [p \in Procs |-> <<>>]
  /\ phase = [c \in Conns |-> IF StartsOnline /\ c = 1 THEN "read" ELSE "new"]
  /\ drain = [c \in Conns |-> <<>>]
  /\ left = [c \in Conns |-> {}]
  /\ alive = [c \in Conns |-> StartsOnline /\ c = 1]
  /\ up = [c \in Conns |-> <<>>]
  /\ running = {}
  /\ restarts = 0

-----------------------------------------------------------------------------
(* Inbound: the thread slot *)

\* beginThreadTurn reserves the thread, or parks the message behind the turn in
\* flight.
BeginThreadTurn(m, t) ==
  \/ /\ t \notin threadActive
     /\ threadActive' = threadActive \cup {t}
     /\ Start(Pump, <<Call("admit", m)>>)
     /\ UNCHANGED threadWaiting
  \/ /\ t \in threadActive
     /\ threadWaiting' = [threadWaiting EXCEPT ![t] = Append(@, m)]
     /\ UNCHANGED <<threadActive, todo>>

\* OnMessage for the next message that passes routing.
OnMessage ==
  /\ Idle(Pump)
  /\ arrived < MaxMsgs
  /\ arrived' = arrived + 1
  /\ BeginThreadTurn(arrived + 1, thread[arrived + 1])
  /\ UNCHANGED <<thread, active, waiting, dropped, turnVars, hubVars, connVars,
                 runner, restarts>>

\* Mutant: the thread is released although a message takes it over.
PromoteReleases(p, t) ==
  /\ threadWaiting[t] # <<>>
  /\ threadWaiting' = [threadWaiting EXCEPT ![t] = Tail(@)]
  /\ threadActive' = threadActive \ {t}
  /\ Return(p, <<Call("admit", Head(threadWaiting[t]))>>)

\* Mutant: the latest message is promoted.
PromoteLatest(p, t) ==
  /\ threadWaiting[t] # <<>>
  /\ threadWaiting' = [threadWaiting EXCEPT ![t] = Front(@)]
  /\ Return(p, <<Call("admit", Last(threadWaiting[t]))>>)
  /\ UNCHANGED threadActive

\* Mutant: the promoted message is not taken out of the thread's queue.
PromoteKeeps(p, t) ==
  /\ threadWaiting[t] # <<>>
  /\ Return(p, <<Call("admit", Head(threadWaiting[t]))>>)
  /\ UNCHANGED <<threadActive, threadWaiting>>

(***************************************************************************)
(* endThreadTurn: the head of the thread's parked messages becomes its     *)
(* turn in flight, or the thread is released.                              *)
(***************************************************************************)
Promote(p, t) ==
  /\ threadWaiting[t] # <<>>
  /\ threadWaiting' = [threadWaiting EXCEPT ![t] = Tail(@)]
  /\ Return(p, <<Call("admit", Head(threadWaiting[t]))>>)
  /\ UNCHANGED threadActive

Release(p, t) ==
  /\ threadWaiting[t] = <<>>
  /\ threadActive' = threadActive \ {t}
  /\ Return(p, <<>>)
  /\ UNCHANGED threadWaiting

EndThreadTurn(p) ==
  /\ At(p, "endThread")
  /\ LET t == thread[Msg(p)]
     IN Promote(p, t) \/ Release(p, t)
  /\ UNCHANGED <<inbound, active, waiting, dropped, turnVars, hubVars, connVars,
                 runner, restarts>>

-----------------------------------------------------------------------------
(* The runner's concurrency cap *)

(***************************************************************************)
(* dispatchAdmitted and admit.  An offline runner and one with no cap are  *)
(* not gated; otherwise the message takes a slot, joins the queue, or is   *)
(* refused with a notice.  A refusal returns: the thread slot OnMessage    *)
(* reserved is not given back.                                             *)
(***************************************************************************)
Gated == hub # NoConn /\ MaxConcurrent > 0
\* Mutant: one slot too many.
SlotFreeOffByOne == active <= MaxConcurrent /\ waiting = <<>>
SlotFree == active < MaxConcurrent /\ waiting = <<>>

PassUngated(p) ==
  /\ ~Gated
  /\ Return(p, <<Call("open", Msg(p))>>)
  /\ UNCHANGED <<active, waiting, dropped>>

TakeSlot(p) ==
  /\ Gated /\ SlotFree
  /\ active' = active + 1
  /\ Return(p, <<Call("open", Msg(p))>>)
  /\ UNCHANGED <<waiting, dropped>>

Refuse(p) ==
  /\ Gated /\ ~SlotFree
  /\ Len(waiting) >= MaxQueueDepth
  /\ dropped' = dropped \cup {Msg(p)}
  /\ Return(p, <<>>)
  /\ UNCHANGED <<active, waiting>>

\* Mutant: admit parks the message and lets the caller dispatch it too.
ParkAndPass(p) ==
  /\ Gated /\ ~SlotFree
  /\ Len(waiting) < MaxQueueDepth
  /\ waiting' = Append(waiting, Msg(p))
  /\ Return(p, <<Call("open", Msg(p))>>)
  /\ UNCHANGED <<active, dropped>>

Park(p) ==
  /\ Gated /\ ~SlotFree
  /\ Len(waiting) < MaxQueueDepth
  /\ waiting' = Append(waiting, Msg(p))
  /\ Return(p, <<>>)
  /\ UNCHANGED <<active, dropped>>

Admit(p) ==
  /\ At(p, "admit")
  /\ PassUngated(p) \/ TakeSlot(p) \/ Refuse(p) \/ Park(p)
  /\ UNCHANGED <<inbound, threadActive, threadWaiting, turnVars, hubVars,
                 connVars, runner, restarts>>

(***************************************************************************)
(* FinishTurn writes the row, then turnSlotFreed releases the slot and     *)
(* dispatches the head of the queue.  The call's name is the status the    *)
(* row gets.  Every ended turn gives a slot back, whether or not it took   *)
(* one.                                                                    *)
(***************************************************************************)
\* Mutants: the count goes below zero; the slot is not given back.
ReleasedUnchecked == active - 1
ReleasedNever == active
Released == IF active > 0 THEN active - 1 ELSE active

TurnSlotFreed(p) ==
  /\ At(p, "done") \/ At(p, "error")
  /\ row' = [row EXCEPT ![Msg(p)] = Head(todo[p]).op]
  /\ \/ /\ waiting = <<>>
        /\ active' = Released
        /\ Return(p, <<>>)
        /\ UNCHANGED waiting
     \/ /\ waiting # <<>>
        /\ active' = Released + 1
        /\ waiting' = Tail(waiting)
        /\ Return(p, <<Call("open", Head(waiting))>>)
  /\ UNCHANGED <<inbound, threadActive, threadWaiting, dropped, turns, queued,
                 offline, hubVars, connVars, runner, restarts>>

-----------------------------------------------------------------------------
(* Dispatch *)

(***************************************************************************)
(* dispatchTurn up to its choice of connection: the turn's row and map     *)
(* entry are made, then the hub is consulted.  A connection that is closed *)
(* or has been silent for five heartbeats is closed and counts as offline. *)
(***************************************************************************)
OpenTurn(p) ==
  /\ At(p, "open")
  /\ turns' = turns \cup {Msg(p)}
  /\ row' = [row EXCEPT ![Msg(p)] = "running"]
  /\ \/ /\ hub = NoConn
        /\ Return(p, <<Call("enqueue", Msg(p))>>)
        /\ UNCHANGED closed
     \/ /\ hub # NoConn
        /\ closed[hub] \/ ~alive[hub]
        /\ closed' = [closed EXCEPT ![hub] = TRUE]
        /\ Return(p, <<Call("enqueue", Msg(p))>>)
     \/ /\ hub # NoConn
        /\ ~closed[hub]
        /\ Return(p, <<[op |-> "send", msg |-> Msg(p), conn |-> hub]>>)
        /\ UNCHANGED closed
  /\ UNCHANGED <<inbound, queues, queued, offline, hub, out, connVars, runner,
                 restarts>>

\* StartTurn failed: dispatchTurn logs and returns, keeping both slots.
StartTurnFails(p) ==
  /\ StoreErrors
  /\ At(p, "open")
  /\ dropped' = dropped \cup {Msg(p)}
  /\ Return(p, <<>>)
  /\ UNCHANGED <<inbound, threadActive, threadWaiting, active, waiting, turnVars,
                 hubVars, connVars, runner, restarts>>

(***************************************************************************)
(* sendRaw: a closed connection refuses the frame, and a full send queue   *)
(* closes the connection.                                                  *)
(***************************************************************************)
CanSend(c) == ~closed[c] /\ Len(out[c]) < OutCap
PutOut(c, m) ==
  IF CanSend(c)
  THEN /\ out' = [out EXCEPT ![c] = Append(@, m)]
       /\ UNCHANGED <<hub, closed>>
  ELSE /\ closed' = [closed EXCEPT ![c] = TRUE]
       /\ UNCHANGED <<hub, out>>

SendTurn(p) ==
  /\ At(p, "send")
  /\ LET c == Head(todo[p]).conn
     IN /\ PutOut(c, Msg(p))
        /\ Return(p, IF CanSend(c) THEN <<>> ELSE <<Call("enqueue", Msg(p))>>)
  /\ UNCHANGED <<inbound, queues, turnVars, connVars, runner, restarts>>

\* queueMessage: the depth check, then the insert into queued_messages.
QueueFull == QueueLimit > 0 /\ Len(offline) >= QueueLimit

Enqueue(p) ==
  /\ At(p, "enqueue")
  /\ \/ /\ ~QueueFull
        /\ offline' = Append(offline, Msg(p))
        /\ Return(p, <<Call("mark", Msg(p))>>)
     \/ /\ QueueFull \/ StoreErrors
        /\ Return(p, <<Call("abandon", Msg(p))>>)
        /\ UNCHANGED offline
  /\ UNCHANGED <<inbound, queues, turns, queued, row, hubVars, connVars, runner,
                 restarts>>

\* queueMessage's last write, after the row is in the queue.
MarkQueued(p) ==
  /\ At(p, "mark")
  /\ queued' = queued \cup {Msg(p)}
  /\ Return(p, <<>>)
  /\ UNCHANGED <<inbound, queues, turns, row, offline, hubVars, connVars, runner,
                 restarts>>

(***************************************************************************)
(* abandonTurn: closes the turn and frees the thread, not the runner slot. *)
(***************************************************************************)
AbandonTurn(p) ==
  /\ At(p, "abandon")
  /\ turns' = turns \ {Msg(p)}
  /\ row' = [row EXCEPT ![Msg(p)] = "error"]
  /\ Return(p, <<Call("endThread", Msg(p))>>)
  /\ UNCHANGED <<inbound, queues, queued, offline, hubVars, connVars, runner,
                 restarts>>

-----------------------------------------------------------------------------
(* Connections *)

(***************************************************************************)
(* handshake: the runner, whose previous socket is dead to it, dials again *)
(* and its connection displaces the registered one.                        *)
(***************************************************************************)
Connect(c) ==
  /\ phase[c] = "new"
  /\ \A d \in Conns : d < c => phase[d] # "new" /\ ~alive[d]
  /\ phase' = [phase EXCEPT ![c] = "hello"]
  /\ alive' = [alive EXCEPT ![c] = TRUE]
  /\ hub' = c
  /\ closed' = [d \in Conns |-> closed[d] \/ d = hub]
  /\ UNCHANGED <<inbound, queues, turnVars, out, todo, drain, left, up, running,
                 restarts>>

\* serveConn reaches drainQueue, which reads the whole queue first.
StartDrain(c) ==
  /\ phase[c] = "hello"
  /\ phase' = [phase EXCEPT ![c] = "drain"]
  /\ drain' = [drain EXCEPT ![c] = offline]
  /\ UNCHANGED <<inbound, queues, turnVars, hubVars, todo, left, runner, restarts>>

\* One row of the drain is sent; an error ends the drain.
DrainSend(c) ==
  /\ phase[c] = "drain"
  /\ Idle(c)
  /\ drain[c] # <<>>
  /\ PutOut(c, Head(drain[c]))
  /\ IF CanSend(c)
     THEN /\ Start(c, <<Call("drained", Head(drain[c]))>>)
          /\ drain' = [drain EXCEPT ![c] = Tail(@)]
     ELSE /\ drain' = [drain EXCEPT ![c] = <<>>]
          /\ UNCHANGED todo
  /\ UNCHANGED <<inbound, queues, turnVars, phase, left, runner, restarts>>

\* After the send: the turn is no longer waiting, and its row leaves the queue.
Drained(c) ==
  /\ At(c, "drained")
  /\ queued' = queued \ {Msg(c)}
  /\ offline' = RemoveFirst(offline, Msg(c))
  /\ Return(c, <<>>)
  /\ UNCHANGED <<inbound, queues, turns, row, hubVars, connVars, runner, restarts>>

EndDrain(c) ==
  /\ phase[c] = "drain"
  /\ Idle(c)
  /\ drain[c] = <<>>
  /\ phase' = [phase EXCEPT ![c] = "read"]
  /\ UNCHANGED <<inbound, queues, turnVars, hubVars, todo, drain, left, runner,
                 restarts>>

(***************************************************************************)
(* readLoop hands the next frame to onDone or onRunnerError, which look    *)
(* the turn up and ignore a turn they do not know.  onDone forgets the     *)
(* turn last (its deferred Delete), onRunnerError before it frees slots.   *)
(* CloseWith closes the socket in the background, so what has come in can  *)
(* still be read.                                                          *)
(***************************************************************************)
\* Mutant: an error frame does not end the thread's turn.
FinishKeepsThread(m, kind) ==
  IF kind = "done"
  THEN <<Call("done", m), Call("endThread", m), Call("forget", m)>>
  ELSE <<Call("forget", m), Call("error", m)>>

Finish(m, kind) ==
  IF kind = "done"
  THEN <<Call("done", m), Call("endThread", m), Call("forget", m)>>
  ELSE <<Call("forget", m), Call("error", m), Call("endThread", m)>>

ReceiveFrame(c) ==
  /\ phase[c] = "read"
  /\ Idle(c)
  /\ up[c] # <<>>
  /\ up' = [up EXCEPT ![c] = Tail(@)]
  /\ LET f == Head(up[c])
     IN IF f.msg \in turns
        THEN Start(c, Finish(f.msg, f.kind))
        ELSE UNCHANGED todo
  /\ UNCHANGED <<inbound, queues, turnVars, hubVars, connVars, alive, running,
                 restarts>>

Forget(p) ==
  /\ At(p, "forget")
  /\ turns' = turns \ {Msg(p)}
  /\ Return(p, <<>>)
  /\ UNCHANGED <<inbound, queues, queued, row, offline, hubVars, connVars, runner,
                 restarts>>

\* heartbeat: five silent periods on a dead socket close the connection.
HeartbeatTimeout(c) ==
  /\ phase[c] \in {"hello", "drain", "read"}
  /\ ~alive[c] /\ ~closed[c]
  /\ closed' = [closed EXCEPT ![c] = TRUE]
  /\ UNCHANGED <<inbound, queues, turnVars, hub, out, todo, connVars, runner,
                 restarts>>

\* The read fails: serveConn closes and unregisters the connection, and what
\* was still in its send queue or unread on its socket is gone with it.
EndConn(c) ==
  /\ phase[c] = "read"
  /\ Idle(c)
  /\ closed[c] \/ ~alive[c]
  /\ phase' = [phase EXCEPT ![c] = "ended"]
  /\ closed' = [closed EXCEPT ![c] = TRUE]
  /\ hub' = IF hub = c THEN NoConn ELSE hub
  /\ alive' = [alive EXCEPT ![c] = FALSE]
  /\ out' = [out EXCEPT ![c] = <<>>]
  /\ up' = [up EXCEPT ![c] = <<>>]
  /\ UNCHANGED <<inbound, queues, turnVars, todo, drain, left, running, restarts>>

-----------------------------------------------------------------------------
(* Reconciler and sweep *)

\* reconcileTurns after its grace: a live connection means nothing to do.
RunnerReturned(c) ==
  /\ phase[c] = "ended"
  /\ hub # NoConn /\ ~closed[hub]
  /\ phase' = [phase EXCEPT ![c] = "over"]
  /\ UNCHANGED <<inbound, queues, turnVars, hubVars, todo, drain, left, runner,
                 restarts>>

\* No connection, or one whose closed flag CloseWith or a failed write set.
StartReconcile(c) ==
  /\ phase[c] = "ended"
  /\ hub # NoConn => closed[hub] \/ ~alive[hub]
  /\ phase' = [phase EXCEPT ![c] = "reconcile"]
  /\ left' = [left EXCEPT ![c] = turns]
  /\ UNCHANGED <<inbound, queues, turnVars, hubVars, todo, drain, runner, restarts>>

\* One key of the Range: a turn that is open and not queued is failed.
Reconcile(c) ==
  /\ phase[c] = "reconcile"
  /\ Idle(c)
  /\ \E m \in left[c] :
       /\ left' = [left EXCEPT ![c] = @ \ {m}]
       /\ IF m \in turns \ queued
          THEN /\ turns' = turns \ {m}
               /\ Start(c, <<Call("error", m), Call("endThread", m)>>)
          ELSE UNCHANGED <<turns, todo>>
  /\ UNCHANGED <<inbound, queues, queued, row, offline, hubVars, phase, drain,
                 runner, restarts>>

EndReconcile(c) ==
  /\ phase[c] = "reconcile"
  /\ Idle(c)
  /\ left[c] = {}
  /\ phase' = [phase EXCEPT ![c] = "over"]
  /\ UNCHANGED <<inbound, queues, turnVars, hubVars, todo, drain, left, runner,
                 restarts>>

(***************************************************************************)
(* A turn has been silent for strandedTurnTimeout only when nothing that   *)
(* could report on it is left: no call in progress, no copy of the message *)
(* on its way, no frame unread and the harness not working on it.          *)
(***************************************************************************)
\* Mutant: the sweep looks only at a runner that is away.
SilentOffline(m) ==
  /\ hub = NoConn
  /\ m \notin running
  /\ \A p \in Procs : \A i \in 1 .. Len(todo[p]) : todo[p][i].msg # m
  /\ \A c \in Conns : m \notin ToSet(drain[c])

Silent(m) ==
  /\ m \notin running
  /\ \A p \in Procs : \A i \in 1 .. Len(todo[p]) : todo[p][i].msg # m
  /\ \A c \in Conns :
       /\ alive[c] => m \notin ToSet(out[c])
       /\ m \notin {f.msg : f \in ToSet(up[c])}
  /\ \A c \in Conns : m \notin ToSet(drain[c])

Sweep ==
  /\ Idle(Sweeper)
  /\ \E m \in turns \ queued :
       /\ Silent(m)
       /\ turns' = turns \ {m}
       /\ Start(Sweeper, <<Call("error", m), Call("endThread", m)>>)
  /\ UNCHANGED <<inbound, queues, queued, row, offline, hubVars, connVars, runner,
                 restarts>>

-----------------------------------------------------------------------------
(* The runner and its host, as far as the gateway can tell *)

\* The write loop, which may pick a frame even after CloseWith, puts the next
\* message on the socket; its turn starts.
Deliver(c) ==
  /\ alive[c]
  /\ phase[c] # "new"
  /\ out[c] # <<>>
  /\ out' = [out EXCEPT ![c] = Tail(@)]
  /\ running' = running \cup {Head(out[c])}
  /\ UNCHANGED <<inbound, queues, turnVars, hub, closed, todo, connVars, alive, up,
                 restarts>>

\* The harness ends a turn; with no connection the frame is lost.
RunnerEnds ==
  /\ \E m \in running, kind \in {"done", "error"} :
       /\ running' = running \ {m}
       /\ up' = [c \in Conns |->
                   IF alive[c] THEN Append(up[c], [kind |-> kind, msg |-> m])
                   ELSE up[c]]
  /\ UNCHANGED <<inbound, queues, turnVars, hubVars, todo, connVars, alive, restarts>>

\* The socket dies, with the runner's host or without it.
Break(c) ==
  /\ alive[c]
  /\ MaxConns > 1
  /\ alive' = [alive EXCEPT ![c] = FALSE]
  /\ (running' = running \/ running' = {})
  /\ UNCHANGED <<inbound, queues, turnVars, hubVars, todo, connVars, up, restarts>>

(***************************************************************************)
(* The gateway process restarts: everything in memory is lost, FailOpen-   *)
(* Turns closes the rows left running, queued_messages stays.              *)
(***************************************************************************)
Restart ==
  /\ restarts < MaxRestarts
  /\ restarts' = restarts + 1
  /\ threadActive' = {}
  /\ threadWaiting' = [t \in Threads |-> <<>>]
  /\ active' = 0
  /\ waiting' = <<>>
  /\ turns' = {}
  /\ queued' = {}
  /\ row' = [m \in Msgs |-> IF row[m] = "running" THEN "error" ELSE row[m]]
  /\ hub' = NoConn
  /\ closed' = [c \in Conns |-> phase[c] # "new"]
  /\ out' = [c \in Conns |-> <<>>]
  /\ todo' = [p \in Procs |-> <<>>]
  /\ phase' = [c \in Conns |-> IF phase[c] = "new" THEN "new" ELSE "over"]
  /\ drain' = [c \in Conns |-> <<>>]
  /\ left' = [c \in Conns |-> {}]
  /\ alive' = [c \in Conns |-> FALSE]
  /\ up' = [c \in Conns |-> <<>>]
  /\ UNCHANGED <<inbound, dropped, offline, running>>

-----------------------------------------------------------------------------
(* One step of the call on top of p's stack. *)
Step(p) ==
  \/ EndThreadTurn(p)
  \/ Admit(p)
  \/ TurnSlotFreed(p)
  \/ OpenTurn(p)
  \/ StartTurnFails(p)
  \/ SendTurn(p)
  \/ Enqueue(p)
  \/ MarkQueued(p)
  \/ AbandonTurn(p)
  \/ Forget(p)

\* A step of connection c's goroutine, or of the reconciler it leaves behind.
Serve(c) ==
  \/ StartDrain(c)
  \/ DrainSend(c)
  \/ Drained(c)
  \/ EndDrain(c)
  \/ ReceiveFrame(c)
  \/ HeartbeatTimeout(c)
  \/ EndConn(c)
  \/ RunnerReturned(c)
  \/ StartReconcile(c)
  \/ Reconcile(c)
  \/ EndReconcile(c)

Next ==
  \/ OnMessage
  \/ \E p \in Procs : Step(p)
  \/ \E c \in Conns : Serve(c) \/ Connect(c) \/ Deliver(c) \/ Break(c)
  \/ Sweep
  \/ RunnerEnds
  \/ Restart

Spec == Init /\ [][Next]_vars

(***************************************************************************)
(* Every goroutine goes on (the scheduler, and calls that return), the     *)
(* write loop writes, the harness ends what it works on, and the sweep's   *)
(* ticker ticks.  Nothing makes users write, sockets break, the runner     *)
(* come back or the gateway restart.                                       *)
(***************************************************************************)
Fairness ==
  /\ \A p \in Procs : WF_vars(Step(p))
  /\ \A c \in Conns : WF_vars(Serve(c)) /\ WF_vars(Deliver(c))
  /\ WF_vars(RunnerEnds)
  /\ WF_vars(Sweep)

FairSpec == Spec /\ Fairness

-----------------------------------------------------------------------------
(* Properties *)

Opens(m) == row[m] # "running" /\ row'[m] = "running"
Ends(m)  == row[m] = "running" /\ row'[m] # "running"

\* The places a message can be between its arrival and its turn.
ParkedInThread(m) == m \in ToSet(threadWaiting[thread[m]])
ParkedAtRunner(m) == m \in ToSet(waiting)
InHand(m) ==
  \E p \in Procs : \E i \in 1 .. Len(todo[p]) :
    todo[p][i].msg = m /\ todo[p][i].op \in {"admit", "open"}

(***************************************************************************)
(* beginThreadTurn and endThreadTurn never leave a message parked behind a *)
(* thread nobody holds: such a message would wait for an end that has      *)
(* already happened.                                                       *)
(***************************************************************************)
ParkedBehindTurn ==
  \A t \in Threads : threadWaiting[t] # <<>> => t \in threadActive

(***************************************************************************)
(* admit and turnSlotFreed never leave a message waiting for the runner    *)
(* while a slot is free, or with no slot taken whose end would start it,   *)
(* never count more slots than the cap, and never let the queue outgrow    *)
(* maxQueueDepth.                                                          *)
(***************************************************************************)
NoIdleSlot ==
  /\ active <= MaxConcurrent
  /\ waiting # <<>> => active = MaxConcurrent /\ active > 0
  /\ Len(waiting) <= MaxQueueDepth

(***************************************************************************)
(* The handovers between the thread queue, the runner queue and the        *)
(* goroutines lose and duplicate nothing: a message that has arrived is in *)
(* exactly one of the places it can be until its turn opens or it is given *)
(* up.  A restart loses what was parked in memory.                         *)
(***************************************************************************)
NothingLost ==
  restarts = 0 =>
    \A m \in 1 .. arrived :
      LET places == {pl \in 1 .. 5 :
                       \/ pl = 1 /\ ParkedInThread(m)
                       \/ pl = 2 /\ ParkedAtRunner(m)
                       \/ pl = 3 /\ InHand(m)
                       \/ pl = 4 /\ row[m] # "none"
                       \/ pl = 5 /\ m \in dropped}
      IN Cardinality(places) = 1

(***************************************************************************)
(* dispatchTurn runs at most once for a message, whichever goroutine takes *)
(* it from whichever queue: a turn's row is inserted once.                 *)
(***************************************************************************)
OpenedOnce == [][\A m \in Msgs : Opens(m) => row[m] = "none"]_vars

(***************************************************************************)
(* gateway.go:57 "at most one in-flight turn per thread".                  *)
(***************************************************************************)
OneTurnPerThread ==
  \A m, n \in Msgs :
    m # n /\ row[m] = "running" /\ row[n] = "running" => thread[m] # thread[n]

(***************************************************************************)
(* gateway.go:80 "runnerQueue bounds how many turns a runner runs at once" *)
(***************************************************************************)
WithinCap ==
  MaxConcurrent > 0 =>
    Cardinality({m \in Msgs : row[m] = "running"} \ ToSet(offline)) <= MaxConcurrent

(***************************************************************************)
(* gateway.go:59 "thread key -> a turn is in flight": a held thread has a  *)
(* message that will end its hold.                                         *)
(***************************************************************************)
Holds(m, t) ==
  /\ thread[m] = t
  /\ \/ m \in turns
     \/ ParkedAtRunner(m)
     \/ \E p \in Procs : \E i \in 1 .. Len(todo[p]) : todo[p][i].msg = m
ThreadHasTurn == \A t \in threadActive : \E m \in Msgs : Holds(m, t)

(***************************************************************************)
(* DESIGN.md:360 "A queued turn is waiting, not stuck, so neither the      *)
(* disconnect reconciler nor the stranded-turn sweep finalizes it".        *)
(***************************************************************************)
QueuedTurnStaysOpen ==
  [][\A m \in ToSet(offline) : Ends(m) => restarts' # restarts]_vars

(***************************************************************************)
(* Every message is answered in the end, unless its thread was wedged by a *)
(* message given up with the thread's slot in its hands.                   *)
(***************************************************************************)
Answered ==
  \A m \in Msgs :
    m <= arrived ~> \/ row[m] \in {"done", "error"}
                    \/ \E n \in dropped : thread[n] = thread[m]

(***************************************************************************)
(* dispatch.go:378 "a lost/misattributed Done cannot strand a turn         *)
(* running forever": an open turn ends, or its flag says that it waits in  *)
(* the offline queue.  A drain that overtakes queueMessage leaves the flag *)
(* set with the row gone; that turn is not covered.                        *)
(***************************************************************************)
NoStrandedTurn ==
  \A m \in Msgs :
    row[m] = "running" ~> row[m] # "running" \/ m \in queued

\* How far the service of each message is.
Progress ==
  [m \in Msgs |->
     CASE m > arrived                  -> "new"
       [] row[m] = "running"           -> "running"
       [] row[m] \in {"done", "error"} -> "ended"
       [] m \in dropped                -> "refused"
       [] OTHER                        -> "accepted"]
(***************************************************************************)
(* What the gateway promises a thread, whatever its queues: ThreadService. *)
(***************************************************************************)
Service == INSTANCE ThreadService WITH Cap <- MaxConcurrent, served <- Progress
ServiceSpec == Service!Spec

=============================================================================
