---------------------------- MODULE Turns_proofs ----------------------------
(***************************************************************************)
(* What Turns guarantees for every number of threads, messages and         *)
(* connections, every cap and every queue bound.                           *)
(***************************************************************************)
EXTENDS Turns, SequenceTheorems, FiniteSetTheorems, WellFoundedInduction, TLAPS

-----------------------------------------------------------------------------
(* Sequences *)

(* The least element the library's Min picks from numbers is one of them.  *)
LEMMA MinIsMember ==
  ASSUME NEW S \in SUBSET Nat, S # {}
  PROVE  Min(S) \in S
  <1> DEFINE less == {ss \in Nat \X Nat : ss[1] < ss[2]}
  <1>1. IsWellFoundedOn(less, Nat)
    BY NatLessThanWellFounded, Zenon DEF OpToRel
  <1>2. PICK x \in S : \A y \in S : <<y, x>> \notin less
    <2>1. S \subseteq Nat
      OBVIOUS
    <2> HIDE DEF less
    <2> QED
      BY <1>1, <2>1, WFMin
  <1>3. ASSUME NEW y \in S PROVE x <= y
    <2>1. ~(<<y, x>>[1] < <<y, x>>[2])
      BY <1>2
    <2> QED
      BY <2>1
  <1> QED
    BY <1>3 DEF Min

(* DeleteQueued leaves a queue of messages.                                *)
LEMMA RemoveFirstType ==
  ASSUME NEW s \in Seq(Msgs), NEW m
  PROVE  RemoveFirst(s, m) \in Seq(Msgs)
  <1> DEFINE I == {i \in 1 .. Len(s) : s[i] = m}
  <1>1. CASE I = {}
    BY <1>1 DEF RemoveFirst
  <1>2. CASE I # {}
    <2>1. Min(I) \in 1 .. Len(s)
      <3>1. I \in SUBSET Nat
        OBVIOUS
      <3> HIDE DEF I
      <3>2. Min(I) \in I
        BY <1>2, <3>1, MinIsMember
      <3> QED
        BY <3>2 DEF I
    <2>2. RemoveFirst(s, m) = RemoveAt(s, Min(I))
      BY <1>2 DEF RemoveFirst, SelectInSeq
    <2>3. /\ SubSeq(s, 1, Min(I) - 1) \in Seq(Msgs)
          /\ SubSeq(s, Min(I) + 1, Len(s)) \in Seq(Msgs)
      <3> HIDE DEF I
      <3> QED
        BY <2>1, SubSeqProperties
    <2> HIDE DEF I
    <2> QED
      BY <2>2, <2>3, ConcatProperties DEF RemoveAt
  <1> QED
    BY <1>1, <1>2

-----------------------------------------------------------------------------
(* Calls *)

(* Every call made with a message and no connection is a call.             *)
LEMMA CallType ==
  ASSUME NEW op \in Ops, NEW m \in Msgs
  PROVE  Call(op, m) \in CallSet
  BY DEF Call, CallSet, NoConn

(* A process with a call to make has a message and a connection for it.    *)
LEMMA TopType ==
  ASSUME CallsOK, NEW p \in Procs, NEW op, At(p, op)
  PROVE  /\ todo[p] \in Seq(CallSet) /\ todo[p] # <<>>
         /\ Msg(p) \in Msgs
         /\ Head(todo[p]).conn \in Conns \cup {NoConn}
         /\ Head(todo[p]).op = op
  <1>1. todo[p] \in Seq(CallSet) /\ todo[p] # <<>> /\ Head(todo[p]).op = op
    BY DEF CallsOK, At
  <1>2. Head(todo[p]) \in CallSet
    BY <1>1, HeadTailProperties
  <1> QED
    BY <1>1, <1>2 DEF Msg, CallSet

(* Returning from a call into further calls leaves stacks of calls.        *)
LEMMA ReturnType ==
  ASSUME CallsOK, NEW p \in Procs, todo[p] # <<>>,
         NEW calls \in Seq(CallSet), Return(p, calls)
  PROVE  CallsOK'
  <1>1. Tail(todo[p]) \in Seq(CallSet)
    BY DEF CallsOK
  <1>2. calls \o Tail(todo[p]) \in Seq(CallSet)
    BY <1>1, ConcatProperties
  <1> QED
    BY <1>2 DEF CallsOK, Return

(* So does starting calls on an idle process.                              *)
LEMMA StartType ==
  ASSUME CallsOK, NEW p \in Procs, NEW calls \in Seq(CallSet), Start(p, calls)
  PROVE  CallsOK'
  BY DEF CallsOK, Start

(* The calls that end a turn are calls.                                    *)
LEMMA FinishType ==
  ASSUME NEW m \in Msgs, NEW kind
  PROVE  Finish(m, kind) \in Seq(CallSet)
  <1>1. \A op \in Ops : Call(op, m) \in CallSet
    BY CallType
  <1>2. {"done", "error", "endThread", "forget"} \subseteq Ops
    BY DEF Ops
  <1> HIDE DEF Ops
  <1> QED
    BY <1>1, <1>2 DEF Finish

-----------------------------------------------------------------------------
(* The type invariant, step by step *)

LEMMA InitType == Init => TypeOK
  <1> SUFFICES ASSUME Init PROVE TypeOK
    OBVIOUS
  <1> USE DEF Init
  <1>1. InboundOK
    BY BoundsAssumption DEF InboundOK
  <1>2. QueuesOK
    BY DEF QueuesOK
  <1>3. TurnsOK
    BY DEF TurnsOK, Statuses
  <1>4. HubOK
    BY BoundsAssumption, SwitchesAssumption DEF HubOK, Conns, NoConn
  <1>5. CallsOK
    BY DEF CallsOK
  <1>6. ConnsOK
    BY DEF ConnsOK, Phases
  <1>7. RunnerOK
    BY SwitchesAssumption DEF RunnerOK
  <1>8. RestartsOK
    BY BoundsAssumption DEF RestartsOK
  <1> QED
    BY <1>1, <1>2, <1>3, <1>4, <1>5, <1>6, <1>7, <1>8 DEF TypeOK

(* What a step leaves alone keeps its type. *)
LEMMA Untouched ==
  ASSUME TypeOK
  PROVE  /\ UNCHANGED inbound  => InboundOK'
         /\ UNCHANGED queues   => QueuesOK'
         /\ UNCHANGED turnVars => TurnsOK'
         /\ UNCHANGED hubVars  => HubOK'
         /\ UNCHANGED todo     => CallsOK'
         /\ UNCHANGED connVars => ConnsOK'
         /\ UNCHANGED runner   => RunnerOK'
         /\ UNCHANGED restarts => RestartsOK'
  <1>1. /\ UNCHANGED inbound  => InboundOK'
        /\ UNCHANGED queues   => QueuesOK'
        /\ UNCHANGED turnVars => TurnsOK'
        /\ UNCHANGED hubVars  => HubOK'
    BY DEF TypeOK, InboundOK, inbound, QueuesOK, queues, TurnsOK, turnVars,
           HubOK, hubVars
  <1>2. /\ UNCHANGED todo     => CallsOK'
        /\ UNCHANGED connVars => ConnsOK'
        /\ UNCHANGED runner   => RunnerOK'
        /\ UNCHANGED restarts => RestartsOK'
    BY DEF TypeOK, CallsOK, ConnsOK, connVars, RunnerOK, runner, RestartsOK
  <1> QED
    BY <1>1, <1>2

(* The surface's pump. *)
LEMMA OnMessageType == TypeOK /\ OnMessage => TypeOK'
  <1> SUFFICES ASSUME TypeOK, OnMessage PROVE TypeOK'
    OBVIOUS
  <1> USE DEF OnMessage, BeginThreadTurn
  <1>1. arrived + 1 \in Msgs /\ InboundOK'
    BY BoundsAssumption DEF TypeOK, InboundOK, Msgs
  <1>2. thread[arrived + 1] \in Threads
    BY <1>1 DEF TypeOK, InboundOK
  <1>3. QueuesOK'
    <2>1. Append(threadWaiting[thread[arrived + 1]], arrived + 1) \in Seq(Msgs)
      BY <1>1, <1>2, AppendProperties DEF TypeOK, QueuesOK
    <2> QED
      BY <1>2, <2>1 DEF TypeOK, QueuesOK
  <1>4. CallsOK'
    <2>1. Pump \in Procs
      BY BoundsAssumption DEF Pump, Procs
    <2>2. <<Call("admit", arrived + 1)>> \in Seq(CallSet)
      BY <1>1, CallType DEF Ops
    <2> QED
      BY <2>1, <2>2, StartType DEF TypeOK, CallsOK
  <1>5. TurnsOK' /\ HubOK' /\ ConnsOK' /\ RunnerOK' /\ RestartsOK'
    BY Untouched
  <1> QED
    BY <1>1, <1>3, <1>4, <1>5 DEF TypeOK

(* The calls a goroutine makes, one step each. *)
LEMMA EndThreadTurnType ==
  ASSUME TypeOK, NEW p \in Procs, EndThreadTurn(p)
  PROVE  TypeOK'
  <1> USE DEF EndThreadTurn
  <1> DEFINE t == thread[Msg(p)]
  <1>1. t \in Threads /\ todo[p] # <<>>
    BY TopType DEF TypeOK, InboundOK
  <1>2. QueuesOK' /\ CallsOK'
    <2>1. CASE Promote(p, t)
      <3>1. threadWaiting[t] \in Seq(Msgs) /\ threadWaiting[t] # <<>>
        BY <1>1, <2>1 DEF TypeOK, QueuesOK, Promote
      <3>2. /\ Tail(threadWaiting[t]) \in Seq(Msgs)
            /\ Head(threadWaiting[t]) \in Msgs
        BY <3>1, HeadTailProperties
      <3>3. <<Call("admit", Head(threadWaiting[t]))>> \in Seq(CallSet)
        BY <3>2, CallType DEF Ops
      <3>4. CallsOK'
        BY <1>1, <2>1, <3>3, ReturnType DEF Promote, TypeOK
      <3> QED
        BY <1>1, <2>1, <3>2, <3>4 DEF TypeOK, QueuesOK, Promote
    <2>2. CASE Release(p, t)
      <3>1. CallsOK'
        BY <1>1, <2>2, ReturnType, EmptySeq DEF Release, TypeOK
      <3> QED
        BY <2>2, <3>1 DEF TypeOK, QueuesOK, Release
    <2> QED
      BY <2>1, <2>2
  <1>3. /\ InboundOK' /\ TurnsOK' /\ HubOK' /\ ConnsOK' /\ RunnerOK'
        /\ RestartsOK'
    BY Untouched
  <1> QED
    BY <1>2, <1>3 DEF TypeOK

LEMMA AdmitType ==
  ASSUME TypeOK, NEW p \in Procs, Admit(p)
  PROVE  TypeOK'
  <1> USE DEF Admit
  <1>1. Msg(p) \in Msgs /\ todo[p] # <<>>
    BY TopType DEF TypeOK
  <1>2. <<Call("open", Msg(p))>> \in Seq(CallSet)
    BY <1>1, CallType DEF Ops
  <1>3. QueuesOK'
    <2>1. Append(waiting, Msg(p)) \in Seq(Msgs)
      BY <1>1, AppendProperties DEF TypeOK, QueuesOK
    <2>2. active' \in Nat
      BY DEF TypeOK, QueuesOK, PassUngated, TakeSlot, Refuse, Park
    <2>3. waiting' \in Seq(Msgs)
      BY <2>1 DEF TypeOK, QueuesOK, PassUngated, TakeSlot, Refuse, Park
    <2>4. dropped' \in SUBSET Msgs
      BY <1>1 DEF TypeOK, QueuesOK, PassUngated, TakeSlot, Refuse, Park
    <2> QED
      BY <2>2, <2>3, <2>4 DEF TypeOK, QueuesOK
  <1>4. CallsOK'
    <2>1. Return(p, <<>>) \/ Return(p, <<Call("open", Msg(p))>>)
      BY DEF PassUngated, TakeSlot, Refuse, Park
    <2> QED
      BY <1>1, <1>2, <2>1, ReturnType, EmptySeq DEF TypeOK
  <1>5. /\ InboundOK' /\ TurnsOK' /\ HubOK' /\ ConnsOK' /\ RunnerOK'
        /\ RestartsOK'
    BY Untouched
  <1> QED
    BY <1>3, <1>4, <1>5 DEF TypeOK

LEMMA TurnSlotFreedType ==
  ASSUME TypeOK, NEW p \in Procs, TurnSlotFreed(p)
  PROVE  TypeOK'
  <1>1. /\ todo[p] # <<>> /\ Msg(p) \in Msgs
        /\ Head(todo[p]).op \in {"done", "error"}
    BY TopType DEF TurnSlotFreed, TypeOK
  <1>2. QueuesOK' /\ CallsOK'
    <2>1. CASE waiting = <<>>
      <3>1. active' = Released /\ Return(p, <<>>) /\ UNCHANGED waiting
        BY <2>1 DEF TurnSlotFreed
      <3>2. CallsOK'
        BY <1>1, <3>1, ReturnType, EmptySeq DEF TypeOK
      <3> QED
        BY <3>1, <3>2 DEF TurnSlotFreed, TypeOK, QueuesOK, Released
    <2>2. CASE waiting # <<>>
      <3>1. /\ active' = Released + 1
            /\ waiting' = Tail(waiting)
            /\ Return(p, <<Call("open", Head(waiting))>>)
        BY <2>2 DEF TurnSlotFreed
      <3>2. Tail(waiting) \in Seq(Msgs) /\ Head(waiting) \in Msgs
        BY <2>2, HeadTailProperties DEF TypeOK, QueuesOK
      <3>3. <<Call("open", Head(waiting))>> \in Seq(CallSet)
        BY <3>2, CallType DEF Ops
      <3>4. CallsOK'
        BY <1>1, <3>1, <3>3, ReturnType DEF TypeOK
      <3> QED
        BY <3>1, <3>2, <3>4 DEF TurnSlotFreed, TypeOK, QueuesOK, Released
    <2> QED
      BY <2>1, <2>2
  <1>3. TurnsOK'
    BY <1>1 DEF TurnSlotFreed, TypeOK, TurnsOK, Statuses
  <1>4. InboundOK' /\ HubOK' /\ ConnsOK' /\ RunnerOK' /\ RestartsOK'
    BY Untouched DEF TurnSlotFreed
  <1> QED
    BY <1>2, <1>3, <1>4 DEF TypeOK

LEMMA OpenTurnType ==
  ASSUME TypeOK, NEW p \in Procs, OpenTurn(p)
  PROVE  TypeOK'
  <1>1. todo[p] # <<>> /\ Msg(p) \in Msgs
    BY TopType DEF OpenTurn, TypeOK
  <1>2. TurnsOK'
    BY <1>1 DEF OpenTurn, TypeOK, TurnsOK, Statuses
  <1>3. HubOK'
    BY DEF OpenTurn, TypeOK, HubOK
  <1>4. CallsOK'
    <2>1. \/ Return(p, <<Call("enqueue", Msg(p))>>)
          \/ /\ hub # NoConn
             /\ Return(p, <<[op |-> "send", msg |-> Msg(p), conn |-> hub]>>)
      BY DEF OpenTurn
    <2>2. <<Call("enqueue", Msg(p))>> \in Seq(CallSet)
      BY <1>1, CallType DEF Ops
    <2>3. hub # NoConn =>
            <<[op |-> "send", msg |-> Msg(p), conn |-> hub]>> \in Seq(CallSet)
      BY <1>1 DEF TypeOK, HubOK, CallSet, Ops
    <2> QED
      BY <1>1, <2>1, <2>2, <2>3, ReturnType DEF TypeOK
  <1>5. InboundOK' /\ QueuesOK' /\ ConnsOK' /\ RunnerOK' /\ RestartsOK'
    BY Untouched DEF OpenTurn
  <1> QED
    BY <1>2, <1>3, <1>4, <1>5 DEF TypeOK

LEMMA StartTurnFailsType ==
  ASSUME TypeOK, NEW p \in Procs, StartTurnFails(p)
  PROVE  TypeOK'
  <1>1. todo[p] # <<>> /\ Msg(p) \in Msgs
    BY TopType DEF StartTurnFails, TypeOK
  <1>2. QueuesOK'
    BY <1>1 DEF StartTurnFails, TypeOK, QueuesOK
  <1>3. CallsOK'
    BY <1>1, ReturnType, EmptySeq DEF StartTurnFails, TypeOK
  <1>4. /\ InboundOK' /\ TurnsOK' /\ HubOK' /\ ConnsOK' /\ RunnerOK'
        /\ RestartsOK'
    BY Untouched DEF StartTurnFails
  <1> QED
    BY <1>2, <1>3, <1>4 DEF TypeOK

(* A frame put out on a connection, or refused by it. *)
LEMMA PutOutType ==
  ASSUME TypeOK, NEW c, NEW m \in Msgs, PutOut(c, m)
  PROVE  HubOK'
  <1>1. c \in Conns => Append(out[c], m) \in Seq(Msgs)
    BY AppendProperties DEF TypeOK, HubOK
  <1>2. CASE CanSend(c)
    BY <1>1, <1>2 DEF PutOut, TypeOK, HubOK
  <1>3. CASE ~CanSend(c)
    BY <1>3 DEF PutOut, TypeOK, HubOK
  <1> QED
    BY <1>2, <1>3

LEMMA SendTurnType ==
  ASSUME TypeOK, NEW p \in Procs, SendTurn(p)
  PROVE  TypeOK'
  <1>1. todo[p] # <<>> /\ Msg(p) \in Msgs
    BY TopType DEF SendTurn, TypeOK
  <1>2. HubOK'
    BY <1>1, PutOutType DEF SendTurn
  <1>3. CallsOK'
    <2>1. <<Call("enqueue", Msg(p))>> \in Seq(CallSet)
      BY <1>1, CallType DEF Ops
    <2>2. Return(p, <<>>) \/ Return(p, <<Call("enqueue", Msg(p))>>)
      BY DEF SendTurn
    <2> QED
      BY <1>1, <2>1, <2>2, ReturnType, EmptySeq DEF TypeOK
  <1>4. /\ InboundOK' /\ QueuesOK' /\ TurnsOK' /\ ConnsOK' /\ RunnerOK'
        /\ RestartsOK'
    BY Untouched DEF SendTurn
  <1> QED
    BY <1>2, <1>3, <1>4 DEF TypeOK

LEMMA EnqueueType ==
  ASSUME TypeOK, NEW p \in Procs, Enqueue(p)
  PROVE  TypeOK'
  <1>1. todo[p] # <<>> /\ Msg(p) \in Msgs
    BY TopType DEF Enqueue, TypeOK
  <1>2. TurnsOK'
    <2>1. Append(offline, Msg(p)) \in Seq(Msgs)
      BY <1>1, AppendProperties DEF TypeOK, TurnsOK
    <2> QED
      BY <2>1 DEF Enqueue, TypeOK, TurnsOK
  <1>3. CallsOK'
    <2>1. /\ <<Call("mark", Msg(p))>> \in Seq(CallSet)
          /\ <<Call("abandon", Msg(p))>> \in Seq(CallSet)
      BY <1>1, CallType DEF Ops
    <2>2. \/ Return(p, <<Call("mark", Msg(p))>>)
          \/ Return(p, <<Call("abandon", Msg(p))>>)
      BY DEF Enqueue
    <2> QED
      BY <1>1, <2>1, <2>2, ReturnType DEF TypeOK
  <1>4. /\ InboundOK' /\ QueuesOK' /\ HubOK' /\ ConnsOK' /\ RunnerOK'
        /\ RestartsOK'
    BY Untouched DEF Enqueue
  <1> QED
    BY <1>2, <1>3, <1>4 DEF TypeOK

LEMMA MarkQueuedType ==
  ASSUME TypeOK, NEW p \in Procs, MarkQueued(p)
  PROVE  TypeOK'
  <1>1. todo[p] # <<>> /\ Msg(p) \in Msgs
    BY TopType DEF MarkQueued, TypeOK
  <1>2. TurnsOK'
    BY <1>1 DEF MarkQueued, TypeOK, TurnsOK
  <1>3. CallsOK'
    BY <1>1, ReturnType, EmptySeq DEF MarkQueued, TypeOK
  <1>4. /\ InboundOK' /\ QueuesOK' /\ HubOK' /\ ConnsOK' /\ RunnerOK'
        /\ RestartsOK'
    BY Untouched DEF MarkQueued
  <1> QED
    BY <1>2, <1>3, <1>4 DEF TypeOK

LEMMA AbandonTurnType ==
  ASSUME TypeOK, NEW p \in Procs, AbandonTurn(p)
  PROVE  TypeOK'
  <1>1. todo[p] # <<>> /\ Msg(p) \in Msgs
    BY TopType DEF AbandonTurn, TypeOK
  <1>2. TurnsOK'
    BY <1>1 DEF AbandonTurn, TypeOK, TurnsOK, Statuses
  <1>3. CallsOK'
    <2>1. <<Call("endThread", Msg(p))>> \in Seq(CallSet)
      BY <1>1, CallType DEF Ops
    <2> QED
      BY <1>1, <2>1, ReturnType DEF AbandonTurn, TypeOK
  <1>4. /\ InboundOK' /\ QueuesOK' /\ HubOK' /\ ConnsOK' /\ RunnerOK'
        /\ RestartsOK'
    BY Untouched DEF AbandonTurn
  <1> QED
    BY <1>2, <1>3, <1>4 DEF TypeOK

LEMMA ForgetType ==
  ASSUME TypeOK, NEW p \in Procs, Forget(p)
  PROVE  TypeOK'
  <1>1. todo[p] # <<>> /\ Msg(p) \in Msgs
    BY TopType DEF Forget, TypeOK
  <1>2. TurnsOK'
    BY <1>1 DEF Forget, TypeOK, TurnsOK
  <1>3. CallsOK'
    BY <1>1, ReturnType, EmptySeq DEF Forget, TypeOK
  <1>4. /\ InboundOK' /\ QueuesOK' /\ HubOK' /\ ConnsOK' /\ RunnerOK'
        /\ RestartsOK'
    BY Untouched DEF Forget
  <1> QED
    BY <1>2, <1>3, <1>4 DEF TypeOK

(* Any step of any call. *)
LEMMA StepType ==
  ASSUME TypeOK, NEW p \in Procs, Step(p)
  PROVE  TypeOK'
  BY EndThreadTurnType, AdmitType, TurnSlotFreedType, OpenTurnType,
     StartTurnFailsType, SendTurnType, EnqueueType, MarkQueuedType,
     AbandonTurnType, ForgetType
     DEF Step

(* Every connection's goroutine, and the sweep's ticker, is a process. *)
LEMMA ProcTypes == Conns \subseteq Procs /\ Sweeper \in Procs
  BY BoundsAssumption DEF Conns, Procs, Sweeper

LEMMA ConnectType ==
  ASSUME TypeOK, NEW c \in Conns, Connect(c)
  PROVE  TypeOK'
  <1>1. HubOK'
    <2>1. hub' = c /\ closed' = [d \in Conns |-> closed[d] \/ d = hub]
          /\ UNCHANGED out
      BY DEF Connect
    <2>2. \A d \in Conns : (closed[d] \/ d = hub) \in BOOLEAN
      BY DEF TypeOK, HubOK
    <2> QED
      BY <2>1, <2>2 DEF TypeOK, HubOK
  <1>2. ConnsOK' /\ RunnerOK'
    BY DEF Connect, TypeOK, ConnsOK, RunnerOK, Phases
  <1>3. InboundOK' /\ QueuesOK' /\ TurnsOK' /\ CallsOK' /\ RestartsOK'
    BY Untouched DEF Connect
  <1> QED
    BY <1>1, <1>2, <1>3 DEF TypeOK

LEMMA StartDrainType ==
  ASSUME TypeOK, NEW c \in Conns, StartDrain(c)
  PROVE  TypeOK'
  <1>1. ConnsOK'
    BY DEF StartDrain, TypeOK, ConnsOK, TurnsOK, Phases
  <1>2. /\ InboundOK' /\ QueuesOK' /\ TurnsOK' /\ HubOK' /\ CallsOK'
        /\ RunnerOK' /\ RestartsOK'
    BY Untouched DEF StartDrain
  <1> QED
    BY <1>1, <1>2 DEF TypeOK

LEMMA DrainSendType ==
  ASSUME TypeOK, NEW c \in Conns, DrainSend(c)
  PROVE  TypeOK'
  <1>1. drain[c] \in Seq(Msgs) /\ drain[c] # <<>>
    BY DEF DrainSend, TypeOK, ConnsOK
  <1>2. Head(drain[c]) \in Msgs /\ Tail(drain[c]) \in Seq(Msgs)
    BY <1>1, HeadTailProperties
  <1>3. HubOK'
    BY <1>2, PutOutType DEF DrainSend
  <1>4. ConnsOK'
    BY <1>2, EmptySeq DEF DrainSend, TypeOK, ConnsOK
  <1>5. CallsOK'
    <2>1. <<Call("drained", Head(drain[c]))>> \in Seq(CallSet)
      BY <1>2, CallType DEF Ops
    <2>2. Start(c, <<Call("drained", Head(drain[c]))>>) \/ UNCHANGED todo
      BY DEF DrainSend
    <2> QED
      BY <2>1, <2>2, StartType, ProcTypes, Untouched DEF TypeOK
  <1>6. InboundOK' /\ QueuesOK' /\ TurnsOK' /\ RunnerOK' /\ RestartsOK'
    BY Untouched DEF DrainSend
  <1> QED
    BY <1>3, <1>4, <1>5, <1>6 DEF TypeOK

LEMMA DrainedType ==
  ASSUME TypeOK, NEW c \in Conns, Drained(c)
  PROVE  TypeOK'
  <1>1. todo[c] # <<>> /\ c \in Procs
    BY TopType, ProcTypes DEF Drained, TypeOK
  <1>2. TurnsOK'
    BY RemoveFirstType DEF Drained, TypeOK, TurnsOK
  <1>3. CallsOK'
    BY <1>1, ReturnType, EmptySeq DEF Drained, TypeOK
  <1>4. /\ InboundOK' /\ QueuesOK' /\ HubOK' /\ ConnsOK' /\ RunnerOK'
        /\ RestartsOK'
    BY Untouched DEF Drained
  <1> QED
    BY <1>2, <1>3, <1>4 DEF TypeOK

LEMMA ReceiveFrameType ==
  ASSUME TypeOK, NEW c \in Conns, ReceiveFrame(c)
  PROVE  TypeOK'
  <1>1. up[c] \in Seq(Frames) /\ up[c] # <<>>
    BY DEF ReceiveFrame, TypeOK, RunnerOK
  <1>2. Head(up[c]) \in Frames /\ Tail(up[c]) \in Seq(Frames)
    BY <1>1, HeadTailProperties
  <1>3. RunnerOK'
    BY <1>2 DEF ReceiveFrame, TypeOK, RunnerOK
  <1>4. CallsOK'
    <2>1. Head(up[c]).msg \in Msgs
      BY <1>2 DEF Frames
    <2>2. Finish(Head(up[c]).msg, Head(up[c]).kind) \in Seq(CallSet)
      BY <2>1, FinishType
    <2>3. \/ Start(c, Finish(Head(up[c]).msg, Head(up[c]).kind))
          \/ UNCHANGED todo
      BY DEF ReceiveFrame
    <2> QED
      BY <2>2, <2>3, StartType, ProcTypes, Untouched DEF TypeOK
  <1>5. /\ InboundOK' /\ QueuesOK' /\ TurnsOK' /\ HubOK' /\ ConnsOK'
        /\ RestartsOK'
    BY Untouched DEF ReceiveFrame
  <1> QED
    BY <1>3, <1>4, <1>5 DEF TypeOK

(* EndDrain, HeartbeatTimeout and EndConn move a connection on. *)
LEMMA EndDrainType ==
  ASSUME TypeOK, NEW c \in Conns, EndDrain(c)
  PROVE  TypeOK'
  <1>1. ConnsOK'
    BY DEF EndDrain, TypeOK, ConnsOK, Phases
  <1>2. /\ InboundOK' /\ QueuesOK' /\ TurnsOK' /\ HubOK' /\ CallsOK'
        /\ RunnerOK' /\ RestartsOK'
    BY Untouched DEF EndDrain
  <1> QED
    BY <1>1, <1>2 DEF TypeOK

LEMMA HeartbeatTimeoutType ==
  ASSUME TypeOK, NEW c \in Conns, HeartbeatTimeout(c)
  PROVE  TypeOK'
  <1>1. HubOK'
    BY DEF HeartbeatTimeout, TypeOK, HubOK
  <1>2. /\ InboundOK' /\ QueuesOK' /\ TurnsOK' /\ CallsOK' /\ ConnsOK'
        /\ RunnerOK' /\ RestartsOK'
    BY Untouched DEF HeartbeatTimeout
  <1> QED
    BY <1>1, <1>2 DEF TypeOK

LEMMA EndConnType ==
  ASSUME TypeOK, NEW c \in Conns, EndConn(c)
  PROVE  TypeOK'
  <1>1. HubOK'
    BY EmptySeq DEF EndConn, TypeOK, HubOK
  <1>2. ConnsOK'
    BY DEF EndConn, TypeOK, ConnsOK, Phases
  <1>3. RunnerOK'
    BY EmptySeq DEF EndConn, TypeOK, RunnerOK
  <1>4. InboundOK' /\ QueuesOK' /\ TurnsOK' /\ CallsOK' /\ RestartsOK'
    BY Untouched DEF EndConn
  <1> QED
    BY <1>1, <1>2, <1>3, <1>4 DEF TypeOK

(* The reconciler between the turns it fails. *)
LEMMA ReconcilerType ==
  ASSUME TypeOK, NEW c \in Conns,
         RunnerReturned(c) \/ StartReconcile(c) \/ EndReconcile(c)
  PROVE  TypeOK'
  <1>1. ConnsOK'
    BY DEF RunnerReturned, StartReconcile, EndReconcile, TypeOK, ConnsOK,
           TurnsOK, Phases
  <1>2. /\ InboundOK' /\ QueuesOK' /\ TurnsOK' /\ HubOK' /\ CallsOK'
        /\ RunnerOK' /\ RestartsOK'
    BY Untouched DEF RunnerReturned, StartReconcile, EndReconcile
  <1> QED
    BY <1>1, <1>2 DEF TypeOK

(* The two calls with which the reconciler and the sweep fail a turn. *)
LEMMA FailType ==
  ASSUME NEW m \in Msgs
  PROVE  <<Call("error", m), Call("endThread", m)>> \in Seq(CallSet)
  <1>1. Call("error", m) \in CallSet /\ Call("endThread", m) \in CallSet
    BY CallType DEF Ops
  <1> QED
    BY <1>1

LEMMA ReconcileType ==
  ASSUME TypeOK, NEW c \in Conns, Reconcile(c)
  PROVE  TypeOK'
  <1>1. PICK m \in left[c] :
          /\ left' = [left EXCEPT ![c] = @ \ {m}]
          /\ IF m \in turns \ queued
             THEN /\ turns' = turns \ {m}
                  /\ Start(c, <<Call("error", m), Call("endThread", m)>>)
             ELSE UNCHANGED <<turns, todo>>
    BY DEF Reconcile
  <1>2. m \in Msgs
    BY <1>1 DEF TypeOK, ConnsOK
  <1>3. ConnsOK'
    BY <1>1 DEF Reconcile, TypeOK, ConnsOK
  <1>4. TurnsOK'
    BY <1>1 DEF Reconcile, TypeOK, TurnsOK
  <1>5. CallsOK'
    BY <1>1, <1>2, FailType, StartType, ProcTypes, Untouched DEF TypeOK
  <1>6. InboundOK' /\ QueuesOK' /\ HubOK' /\ RunnerOK' /\ RestartsOK'
    BY Untouched DEF Reconcile
  <1> QED
    BY <1>3, <1>4, <1>5, <1>6 DEF TypeOK

LEMMA SweepType ==
  ASSUME TypeOK, Sweep
  PROVE  TypeOK'
  <1>1. PICK m \in turns \ queued :
          /\ turns' = turns \ {m}
          /\ Start(Sweeper, <<Call("error", m), Call("endThread", m)>>)
    BY DEF Sweep
  <1>2. m \in Msgs
    BY <1>1 DEF TypeOK, TurnsOK
  <1>3. TurnsOK'
    BY <1>1 DEF Sweep, TypeOK, TurnsOK
  <1>4. CallsOK'
    BY <1>1, <1>2, FailType, StartType, ProcTypes DEF TypeOK
  <1>5. /\ InboundOK' /\ QueuesOK' /\ HubOK' /\ ConnsOK' /\ RunnerOK'
        /\ RestartsOK'
    BY Untouched DEF Sweep
  <1> QED
    BY <1>3, <1>4, <1>5 DEF TypeOK

(* A step of a connection's goroutine. *)
LEMMA ServeType ==
  ASSUME TypeOK, NEW c \in Conns, Serve(c)
  PROVE  TypeOK'
  BY StartDrainType, DrainSendType, DrainedType, ReceiveFrameType, EndDrainType,
     HeartbeatTimeoutType, EndConnType, ReconcilerType, ReconcileType
     DEF Serve

(* The runner and its host. *)
LEMMA DeliverType ==
  ASSUME TypeOK, NEW c \in Conns, Deliver(c)
  PROVE  TypeOK'
  <1>1. out[c] \in Seq(Msgs) /\ out[c] # <<>>
    BY DEF Deliver, TypeOK, HubOK
  <1>2. Head(out[c]) \in Msgs /\ Tail(out[c]) \in Seq(Msgs)
    BY <1>1, HeadTailProperties
  <1>3. HubOK' /\ RunnerOK'
    BY <1>2 DEF Deliver, TypeOK, HubOK, RunnerOK
  <1>4. /\ InboundOK' /\ QueuesOK' /\ TurnsOK' /\ CallsOK' /\ ConnsOK'
        /\ RestartsOK'
    BY Untouched DEF Deliver
  <1> QED
    BY <1>3, <1>4 DEF TypeOK

LEMMA RunnerEndsType ==
  ASSUME TypeOK, RunnerEnds
  PROVE  TypeOK'
  <1>1. PICK m \in running, kind \in {"done", "error"} :
          /\ running' = running \ {m}
          /\ up' = [c \in Conns |->
                      IF alive[c] THEN Append(up[c], [kind |-> kind, msg |-> m])
                      ELSE up[c]]
    BY DEF RunnerEnds
  <1>2. [kind |-> kind, msg |-> m] \in Frames
    BY <1>1 DEF TypeOK, RunnerOK, Frames
  <1>3. \A c \in Conns : Append(up[c], [kind |-> kind, msg |-> m]) \in Seq(Frames)
    BY <1>2, AppendProperties DEF TypeOK, RunnerOK
  <1>4. RunnerOK'
    BY <1>1, <1>3 DEF RunnerEnds, TypeOK, RunnerOK
  <1>5. /\ InboundOK' /\ QueuesOK' /\ TurnsOK' /\ HubOK' /\ CallsOK' /\ ConnsOK'
        /\ RestartsOK'
    BY Untouched DEF RunnerEnds
  <1> QED
    BY <1>4, <1>5 DEF TypeOK

LEMMA BreakType ==
  ASSUME TypeOK, NEW c \in Conns, Break(c)
  PROVE  TypeOK'
  <1>1. RunnerOK'
    BY DEF Break, TypeOK, RunnerOK
  <1>2. /\ InboundOK' /\ QueuesOK' /\ TurnsOK' /\ HubOK' /\ CallsOK' /\ ConnsOK'
        /\ RestartsOK'
    BY Untouched DEF Break
  <1> QED
    BY <1>1, <1>2 DEF TypeOK

LEMMA RestartType ==
  ASSUME TypeOK, Restart
  PROVE  TypeOK'
  <1>1. InboundOK' /\ QueuesOK'
    BY EmptySeq DEF Restart, TypeOK, InboundOK, inbound, QueuesOK
  <1>2. TurnsOK'
    BY DEF Restart, TypeOK, TurnsOK, Statuses
  <1>3. HubOK'
    BY EmptySeq DEF Restart, TypeOK, HubOK
  <1>4. CallsOK'
    BY EmptySeq DEF Restart, TypeOK, CallsOK
  <1>5. ConnsOK'
    BY EmptySeq DEF Restart, TypeOK, ConnsOK, Phases
  <1>6. RunnerOK'
    BY EmptySeq DEF Restart, TypeOK, RunnerOK
  <1>7. RestartsOK'
    BY BoundsAssumption DEF Restart, TypeOK, RestartsOK
  <1> QED
    BY <1>1, <1>2, <1>3, <1>4, <1>5, <1>6, <1>7 DEF TypeOK

(***************************************************************************)
(* The shape of the gateway's state, whatever its goroutines, the runner   *)
(* and the store do.                                                       *)
(***************************************************************************)
THEOREM TypeCorrect == Spec => []TypeOK
  <1>1. Init => TypeOK
    BY InitType
  <1>2. TypeOK /\ [Next]_vars => TypeOK'
    <2> SUFFICES ASSUME TypeOK, [Next]_vars PROVE TypeOK'
      OBVIOUS
    <2>1. CASE OnMessage
      BY <2>1, OnMessageType
    <2>2. CASE \E p \in Procs : Step(p)
      BY <2>2, StepType
    <2>3. CASE \E c \in Conns : Serve(c) \/ Connect(c) \/ Deliver(c) \/ Break(c)
      BY <2>3, ServeType, ConnectType, DeliverType, BreakType
    <2>4. CASE Sweep
      BY <2>4, SweepType
    <2>5. CASE RunnerEnds
      BY <2>5, RunnerEndsType
    <2>6. CASE Restart
      BY <2>6, RestartType
    <2>7. CASE UNCHANGED vars
      BY <2>7, Untouched DEF vars, TypeOK
    <2> QED
      BY <2>1, <2>2, <2>3, <2>4, <2>5, <2>6, <2>7 DEF Next
  <1> QED
    BY <1>1, <1>2, PTL DEF Spec

-----------------------------------------------------------------------------
(* Nothing waits for an end that has happened *)

(* Both invariants read only the queues. *)
LEMMA QueuesOnly ==
  ASSUME UNCHANGED <<threadActive, threadWaiting, active, waiting>>
  PROVE  /\ ParkedBehindTurn => ParkedBehindTurn'
         /\ NoIdleSlot => NoIdleSlot'
  BY DEF ParkedBehindTurn, NoIdleSlot

(* The steps that touch none of the queues. *)
LEMMA OtherSteps ==
  ASSUME Next,
         ~OnMessage, ~Restart,
         ~\E p \in Procs : EndThreadTurn(p) \/ Admit(p) \/ TurnSlotFreed(p)
  PROVE  UNCHANGED <<threadActive, threadWaiting, active, waiting>>
  <1>1. ASSUME NEW p \in Procs, Step(p)
        PROVE  UNCHANGED <<threadActive, threadWaiting, active, waiting>>
    BY <1>1 DEF Step, OpenTurn, StartTurnFails, SendTurn, Enqueue, MarkQueued,
                AbandonTurn, Forget, queues
  <1>2. ASSUME NEW c \in Conns, Serve(c)
        PROVE  UNCHANGED queues
    BY <1>2 DEF Serve, StartDrain, DrainSend, Drained, EndDrain, ReceiveFrame,
                HeartbeatTimeout, EndConn, RunnerReturned, StartReconcile,
                Reconcile, EndReconcile
  <1>3. ASSUME NEW c \in Conns, Connect(c) \/ Deliver(c) \/ Break(c)
        PROVE  UNCHANGED queues
    BY <1>3 DEF Connect, Deliver, Break
  <1>4. Sweep \/ RunnerEnds => UNCHANGED queues
    BY DEF Sweep, RunnerEnds
  <1> QED
    BY <1>1, <1>2, <1>3, <1>4 DEF Next, queues

(***************************************************************************)
(* beginThreadTurn and endThreadTurn never strand a parked message: it is  *)
(* always behind a thread whose end will promote it.                       *)
(***************************************************************************)
THEOREM ParkedBehindTurnCorrect == Spec => []ParkedBehindTurn
  <1>1. Init => ParkedBehindTurn
    BY DEF Init, ParkedBehindTurn
  <1>2. TypeOK /\ ParkedBehindTurn /\ [Next]_vars => ParkedBehindTurn'
    <2> SUFFICES ASSUME TypeOK, ParkedBehindTurn, [Next]_vars
                 PROVE  ParkedBehindTurn'
      OBVIOUS
    <2>1. CASE OnMessage
      BY <2>1 DEF OnMessage, BeginThreadTurn, ParkedBehindTurn, TypeOK, QueuesOK
    <2>2. ASSUME NEW p \in Procs, EndThreadTurn(p)
          PROVE  ParkedBehindTurn'
      <3> DEFINE t == thread[Msg(p)]
      <3>1. CASE Promote(p, t)
        <4>1. threadActive' = threadActive /\ threadWaiting[t] # <<>>
          BY <3>1 DEF Promote
        <4>2. \A u \in Threads :
                threadWaiting'[u] # <<>> => threadWaiting[u] # <<>>
          BY <3>1 DEF Promote, TypeOK, QueuesOK
        <4> QED
          BY <4>1, <4>2 DEF ParkedBehindTurn
      <3>2. CASE Release(p, t)
        BY <3>2 DEF Release, ParkedBehindTurn
      <3> QED
        BY <2>2, <3>1, <3>2 DEF EndThreadTurn
    <2>3. ASSUME NEW p \in Procs, Admit(p) \/ TurnSlotFreed(p)
          PROVE  ParkedBehindTurn'
      BY <2>3 DEF Admit, TurnSlotFreed, ParkedBehindTurn
    <2>4. CASE Restart
      BY <2>4 DEF Restart, ParkedBehindTurn
    <2>5. CASE UNCHANGED vars
      BY <2>5, QueuesOnly DEF vars, queues
    <2> QED
      BY <2>1, <2>2, <2>3, <2>4, <2>5, OtherSteps, QueuesOnly
  <1> QED
    BY <1>1, <1>2, TypeCorrect, PTL DEF Spec

(***************************************************************************)
(* admit and turnSlotFreed keep the runner busy: while anything waits,     *)
(* every slot of the cap is counted as taken, and at least one is.         *)
(***************************************************************************)
THEOREM NoIdleSlotCorrect == Spec => []NoIdleSlot
  <1>1. Init => NoIdleSlot
    BY LimitsAssumption DEF Init, NoIdleSlot
  <1>2. TypeOK /\ NoIdleSlot /\ [Next]_vars => NoIdleSlot'
    <2> SUFFICES ASSUME TypeOK, NoIdleSlot, [Next]_vars
                 PROVE  NoIdleSlot'
      OBVIOUS
    <2> USE LimitsAssumption
    <2>1. active \in Nat /\ waiting \in Seq(Msgs)
      BY DEF TypeOK, QueuesOK
    <2>2. CASE OnMessage
      BY <2>2 DEF OnMessage, NoIdleSlot
    <2>3. ASSUME NEW p \in Procs, EndThreadTurn(p)
          PROVE  NoIdleSlot'
      BY <2>3 DEF EndThreadTurn, NoIdleSlot
    <2>4. ASSUME NEW p \in Procs, Admit(p)
          PROVE  NoIdleSlot'
      <3>1. Msg(p) \in Msgs
        BY <2>4, TopType DEF Admit, TypeOK
      <3>2. CASE PassUngated(p) \/ Refuse(p)
        BY <3>2 DEF PassUngated, Refuse, NoIdleSlot
      <3>3. CASE TakeSlot(p)
        BY <2>1, <3>3 DEF TakeSlot, SlotFree, NoIdleSlot
      <3>4. CASE Park(p)
        <4>1. active = MaxConcurrent /\ active > 0
          BY <2>1, <3>4 DEF Park, Gated, SlotFree, NoIdleSlot
        <4>2. Len(Append(waiting, Msg(p))) = Len(waiting) + 1
          BY <2>1, <3>1, AppendProperties
        <4>3. Len(waiting) + 1 <= MaxQueueDepth
          BY <2>1, <3>4, LenProperties DEF Park
        <4> QED
          BY <3>4, <4>1, <4>2, <4>3 DEF Park, NoIdleSlot
      <3> QED
        BY <2>4, <3>2, <3>3, <3>4 DEF Admit
    <2>5. ASSUME NEW p \in Procs, TurnSlotFreed(p)
          PROVE  NoIdleSlot'
      <3>1. CASE waiting = <<>>
        BY <2>1, <2>5, <3>1 DEF TurnSlotFreed, Released, NoIdleSlot
      <3>2. CASE waiting # <<>>
        <4>1. active' = active /\ waiting' = Tail(waiting)
          BY <2>1, <2>5, <3>2 DEF TurnSlotFreed, Released, NoIdleSlot
        <4>2. Len(Tail(waiting)) = Len(waiting) - 1 /\ Len(waiting) \in Nat
          BY <2>1, <3>2, HeadTailProperties, LenProperties
        <4> QED
          BY <3>2, <4>1, <4>2 DEF NoIdleSlot
      <3> QED
        BY <3>1, <3>2
    <2>6. CASE Restart
      BY <2>6 DEF Restart, NoIdleSlot
    <2>7. CASE UNCHANGED vars
      BY <2>7, QueuesOnly DEF vars, queues
    <2> QED
      BY <2>2, <2>3, <2>4, <2>5, <2>6, <2>7, OtherSteps, QueuesOnly
  <1> QED
    BY <1>1, <1>2, TypeCorrect, PTL DEF Spec

-----------------------------------------------------------------------------
(* What queues and stacks hold *)

(* The first element of a sequence and the rest are all it holds.          *)
LEMMA HeadAndTail ==
  ASSUME NEW S, NEW s \in Seq(S), s # <<>>
  PROVE  ToSet(s) = {Head(s)} \cup ToSet(Tail(s))
  <1>1. /\ Tail(s) \in Seq(S) /\ Len(Tail(s)) = Len(s) - 1 /\ Len(s) \in Nat
        /\ Head(s) = s[1] /\ Len(s) >= 1
        /\ \A i \in 1 .. Len(Tail(s)) : Tail(s)[i] = s[i + 1]
    BY HeadTailProperties, LenProperties, EmptySeq
  <1>2. DOMAIN s = 1 .. Len(s) /\ DOMAIN Tail(s) = 1 .. Len(Tail(s))
    BY <1>1, LenProperties
  <1>3. ASSUME NEW x \in ToSet(s) PROVE x = Head(s) \/ x \in ToSet(Tail(s))
    <2>1. PICK i \in 1 .. Len(s) : x = s[i]
      BY <1>2 DEF ToSet
    <2>2. CASE i = 1
      BY <1>1, <2>1, <2>2
    <2>3. CASE i # 1
      <3>1. i - 1 \in 1 .. Len(Tail(s)) /\ i = (i - 1) + 1
        BY <1>1, <2>3
      <3>2. Tail(s)[i - 1] = s[i]
        BY <1>1, <3>1
      <3> QED
        BY <1>2, <2>1, <3>1, <3>2 DEF ToSet
    <2> QED
      BY <2>2, <2>3
  <1>4. ASSUME NEW x \in ToSet(Tail(s)) PROVE x \in ToSet(s)
    <2>1. PICK i \in 1 .. Len(Tail(s)) : x = Tail(s)[i]
      BY <1>2 DEF ToSet
    <2>2. x = s[i + 1] /\ i + 1 \in 1 .. Len(s)
      BY <1>1, <2>1
    <2> QED
      BY <1>2, <2>2 DEF ToSet
  <1>5. Head(s) \in ToSet(s)
    BY <1>1, <1>2 DEF ToSet
  <1> QED
    BY <1>3, <1>4, <1>5

(* Taking the first element of a queue that holds nothing twice removes it. *)
LEMMA TakeFirst ==
  ASSUME NEW S, NEW s \in Seq(S), s # <<>>, IsInjective(s)
  PROVE  /\ Head(s) \in ToSet(s)
         /\ ToSet(Tail(s)) = ToSet(s) \ {Head(s)}
         /\ IsInjective(Tail(s))
  <1>1. /\ Tail(s) \in Seq(S) /\ Len(Tail(s)) = Len(s) - 1 /\ Len(s) \in Nat
        /\ Head(s) = s[1] /\ Len(s) >= 1
        /\ \A i \in 1 .. Len(Tail(s)) : Tail(s)[i] = s[i + 1]
    BY HeadTailProperties, LenProperties, EmptySeq
  <1>2. DOMAIN s = 1 .. Len(s) /\ DOMAIN Tail(s) = 1 .. Len(Tail(s))
    BY <1>1, LenProperties
  <1>3. Head(s) \notin ToSet(Tail(s))
    <2> SUFFICES ASSUME NEW i \in 1 .. Len(Tail(s)), Head(s) = Tail(s)[i]
                 PROVE  FALSE
      BY <1>2 DEF ToSet
    <2>1. s[1] = s[i + 1] /\ i + 1 \in 1 .. Len(s) /\ 1 \in 1 .. Len(s)
      BY <1>1
    <2> QED
      BY <1>2, <2>1 DEF IsInjective
  <1>4. IsInjective(Tail(s))
    <2> SUFFICES ASSUME NEW i \in 1 .. Len(Tail(s)), NEW j \in 1 .. Len(Tail(s)),
                        Tail(s)[i] = Tail(s)[j]
                 PROVE  i = j
      BY <1>2 DEF IsInjective
    <2>1. s[i + 1] = s[j + 1] /\ i + 1 \in 1 .. Len(s) /\ j + 1 \in 1 .. Len(s)
      BY <1>1
    <2>2. i + 1 = j + 1
      BY <1>2, <2>1 DEF IsInjective
    <2> QED
      BY <2>2
  <1> QED
    BY <1>3, <1>4, HeadAndTail

(* Appending adds one element, and keeps a queue from holding one twice.   *)
LEMMA AddLast ==
  ASSUME NEW S, NEW s \in Seq(S), NEW x \in S
  PROVE  /\ ToSet(Append(s, x)) = ToSet(s) \cup {x}
         /\ IsInjective(s) /\ x \notin ToSet(s) => IsInjective(Append(s, x))
  <1>1. /\ Append(s, x) \in Seq(S) /\ Len(Append(s, x)) = Len(s) + 1
        /\ \A i \in 1 .. Len(s) : Append(s, x)[i] = s[i]
        /\ Append(s, x)[Len(s) + 1] = x /\ Len(s) \in Nat
    BY AppendProperties, LenProperties
  <1>2. DOMAIN s = 1 .. Len(s) /\ DOMAIN Append(s, x) = 1 .. Len(s) + 1
    BY <1>1, LenProperties
  <1>3. ToSet(Append(s, x)) = ToSet(s) \cup {x}
    <2>1. ASSUME NEW y \in ToSet(Append(s, x)) PROVE y \in ToSet(s) \cup {x}
      <3>1. PICK i \in 1 .. Len(s) + 1 : y = Append(s, x)[i]
        BY <1>2 DEF ToSet
      <3>2. i \in 1 .. Len(s) \/ i = Len(s) + 1
        BY <1>1
      <3> QED
        BY <1>1, <1>2, <3>1, <3>2 DEF ToSet
    <2>2. ASSUME NEW y \in ToSet(s) \cup {x} PROVE y \in ToSet(Append(s, x))
      <3>1. CASE y = x
        <4>1. Len(s) + 1 \in 1 .. Len(s) + 1
          BY <1>1
        <4> QED
          BY <1>1, <1>2, <3>1, <4>1 DEF ToSet
      <3>2. CASE y \in ToSet(s)
        <4>1. PICK i \in 1 .. Len(s) : y = s[i]
          BY <1>2, <3>2 DEF ToSet
        <4>2. i \in 1 .. Len(s) + 1 /\ y = Append(s, x)[i]
          BY <1>1, <4>1
        <4> QED
          BY <1>2, <4>2 DEF ToSet
      <3> QED
        BY <3>1, <3>2
    <2> QED
      BY <2>1, <2>2
  <1>4. ASSUME IsInjective(s), x \notin ToSet(s),
               NEW i \in 1 .. Len(s) + 1, NEW j \in 1 .. Len(s) + 1,
               Append(s, x)[i] = Append(s, x)[j]
        PROVE  i = j
    <2>1. /\ i \in 1 .. Len(s) \/ i = Len(s) + 1
          /\ j \in 1 .. Len(s) \/ j = Len(s) + 1
      BY <1>1
    <2>2. \A k \in 1 .. Len(s) : s[k] # x
      BY <1>2, <1>4 DEF ToSet
    <2>3. \A k, l \in 1 .. Len(s) : s[k] = s[l] => k = l
      BY <1>2, <1>4 DEF IsInjective
    <2> QED
      BY <1>1, <1>4, <2>1, <2>2, <2>3
  <1> QED
    BY <1>2, <1>3, <1>4 DEF IsInjective

(* One call before the rest of a stack.                                    *)
LEMMA PutOnTop ==
  ASSUME NEW S, NEW s \in Seq(S), NEW k \in S
  PROVE  /\ <<k>> \o s \in Seq(S) /\ <<k>> \o s # <<>>
         /\ Head(<<k>> \o s) = k /\ Tail(<<k>> \o s) = s
         /\ ToSet(<<k>> \o s) = {k} \cup ToSet(s)
  <1>1. /\ <<k>> \o s \in Seq(S) /\ <<k>> \o s # <<>>
        /\ Head(<<k>> \o s) = k /\ Tail(<<k>> \o s) = s
    <2>1. <<k>> \in Seq(S) /\ Len(<<k>>) = 1 /\ <<k>>[1] = k
      OBVIOUS
    <2>2. /\ <<k>> \o s \in Seq(S)
          /\ Len(<<k>> \o s) = 1 + Len(s) /\ Len(s) \in Nat
          /\ \A i \in 1 .. 1 + Len(s) :
               (<<k>> \o s)[i] = IF i <= 1 THEN <<k>>[i] ELSE s[i - 1]
      BY <2>1, ConcatProperties, LenProperties
    <2>3. <<k>> \o s # <<>>
      BY <2>2, EmptySeq
    <2>4. Head(<<k>> \o s) = k
      BY <2>1, <2>2, <2>3, HeadTailProperties
    <2>5. Tail(<<k>> \o s) = s
      <3>1. /\ Tail(<<k>> \o s) \in Seq(S) /\ Len(Tail(<<k>> \o s)) = Len(s)
            /\ \A i \in 1 .. Len(s) : Tail(<<k>> \o s)[i] = (<<k>> \o s)[i + 1]
        BY <2>2, <2>3, HeadTailProperties
      <3>2. \A i \in 1 .. Len(s) : Tail(<<k>> \o s)[i] = s[i]
        BY <2>1, <2>2, <3>1
      <3> QED
        BY <3>1, <3>2, SeqEqual
    <2> QED
      BY <2>2, <2>3, <2>4, <2>5
  <1> QED
    BY <1>1, HeadAndTail

(* Nothing before the rest of a stack is the rest.                         *)
LEMMA PutNothing ==
  ASSUME NEW S, NEW s \in Seq(S)
  PROVE  <<>> \o s = s
  BY ConcatEmptySeq

(* Two sequences one after the other hold what both hold.                  *)
LEMMA JoinSets ==
  ASSUME NEW S, NEW r \in Seq(S), NEW s \in Seq(S)
  PROVE  ToSet(r \o s) = ToSet(r) \cup ToSet(s)
  <1>1. /\ r \o s \in Seq(S) /\ Len(r \o s) = Len(r) + Len(s)
        /\ Len(r) \in Nat /\ Len(s) \in Nat
        /\ \A i \in 1 .. Len(r) + Len(s) :
             (r \o s)[i] = IF i <= Len(r) THEN r[i] ELSE s[i - Len(r)]
    BY ConcatProperties, LenProperties
  <1>2. /\ DOMAIN r = 1 .. Len(r) /\ DOMAIN s = 1 .. Len(s)
        /\ DOMAIN (r \o s) = 1 .. Len(r) + Len(s)
    BY <1>1, LenProperties
  <1>3. ASSUME NEW x \in ToSet(r \o s) PROVE x \in ToSet(r) \cup ToSet(s)
    <2>1. PICK i \in 1 .. Len(r) + Len(s) : x = (r \o s)[i]
      BY <1>2 DEF ToSet
    <2>2. CASE i <= Len(r)
      <3>1. i \in 1 .. Len(r) /\ x = r[i]
        BY <1>1, <2>1, <2>2
      <3> QED
        BY <1>2, <3>1 DEF ToSet
    <2>3. CASE ~(i <= Len(r))
      <3>1. i - Len(r) \in 1 .. Len(s) /\ x = s[i - Len(r)]
        BY <1>1, <2>1, <2>3
      <3> QED
        BY <1>2, <3>1 DEF ToSet
    <2> QED
      BY <2>2, <2>3
  <1>4. ASSUME NEW x \in ToSet(r) PROVE x \in ToSet(r \o s)
    <2>1. PICK i \in 1 .. Len(r) : x = r[i]
      BY <1>2, <1>4 DEF ToSet
    <2>2. i \in 1 .. Len(r) + Len(s) /\ x = (r \o s)[i]
      BY <1>1, <2>1
    <2> QED
      BY <1>2, <2>2 DEF ToSet
  <1>5. ASSUME NEW x \in ToSet(s) PROVE x \in ToSet(r \o s)
    <2>1. PICK i \in 1 .. Len(s) : x = s[i]
      BY <1>2, <1>5 DEF ToSet
    <2>2. /\ Len(r) + i \in 1 .. Len(r) + Len(s) /\ ~(Len(r) + i <= Len(r))
          /\ (Len(r) + i) - Len(r) = i
      BY <1>1, <2>1
    <2>3. x = (r \o s)[Len(r) + i]
      BY <1>1, <2>1, <2>2
    <2> QED
      BY <1>2, <2>2, <2>3 DEF ToSet
  <1> QED
    BY <1>3, <1>4, <1>5
-----------------------------------------------------------------------------
(* Where a message is *)

(***************************************************************************)
(* A process whose next call is to admit a message or to open its turn has *)
(* that message in its hand; 0 is an empty hand.  The message is then in   *)
(* no queue, and no other process has it.                                  *)
(***************************************************************************)
Taking == {"admit", "open"}
Taken(stack) ==
  IF stack # <<>> /\ Head(stack).op \in Taking THEN Head(stack).msg ELSE 0
Hand == [p \in Procs |-> Taken(todo[p])]

InThreads == UNION {ToSet(threadWaiting[t]) : t \in Threads}
AtRunner  == ToSet(waiting)
InHands   == {Hand[p] : p \in Procs} \ {0}
Opened    == {m \in Msgs : row[m] # "none"}

\* Messages some process has a call about that needs their turn's row.
Serves == Ops \ {"admit", "open", "drained"}
Served(stack) == {k.msg : k \in {c \in ToSet(stack) : c.op \in Serves}}
Serving       == UNION {Served(todo[p]) : p \in Procs}

\* No call to take a message waits below another call.
TakesOnTop ==
  \A p \in Procs : todo[p] # <<>> =>
    \A k \in ToSet(Tail(todo[p])) : k.op \notin Taking

\* What is being served, or is open, has a row.
RowsFirst == Serving \subseteq Opened /\ turns \subseteq Opened

\* A thread's queue holds messages of that thread, and no queue holds one twice.
QueuesApart ==
  /\ \A t \in Threads :
       /\ IsInjective(threadWaiting[t])
       /\ \A m \in ToSet(threadWaiting[t]) : thread[m] = t
  /\ IsInjective(waiting)

OneHand == \A p, q \in Procs : Hand[p] = Hand[q] /\ Hand[p] # 0 => p = q

\* No message is in two places.
PlacesApart ==
  /\ InThreads \cap (AtRunner \cup InHands \cup Opened \cup dropped) = {}
  /\ AtRunner \cap (InHands \cup Opened \cup dropped) = {}
  /\ InHands \cap (Opened \cup dropped) = {}
  /\ Opened \cap dropped = {}

\* Only messages that have arrived are anywhere.
Arrived == InThreads \cup AtRunner \cup InHands \cup Opened \cup dropped
             \subseteq 1 .. arrived

\* Until a restart, every one of them is somewhere.
Somewhere ==
  restarts = 0 =>
    1 .. arrived \subseteq
      InThreads \cup AtRunner \cup InHands \cup Opened \cup dropped

PlacesInv ==
  /\ TakesOnTop /\ RowsFirst /\ QueuesApart /\ OneHand
  /\ PlacesApart /\ Arrived /\ Somewhere

-----------------------------------------------------------------------------
(* Who will end a thread's hold *)

\* Messages that wait for a process or for the runner, and those that were given
\* up beside: no step takes one back.
Waits == InHands \cup AtRunner
Ahead == Waits \cup dropped

\* Messages whose thread some process is still to release, and messages some
\* process is still to forget after it has released their thread.
EndsThread(stack) == {k.msg : k \in {c \in ToSet(stack) : c.op = "endThread"}}
Forgets(stack)    == {k.msg : k \in {c \in ToSet(stack) : c.op = "forget"}}
Closing    == UNION {EndsThread(todo[p]) : p \in Procs}
Forgetting == UNION {Forgets(todo[p]) \ EndsThread(todo[p]) : p \in Procs}

\* Messages that still have the end of their thread's turn before them, or were
\* given up on the way to it.
Holders == Ahead \cup Closing \cup (turns \ Forgetting)

HeldOK == \A t \in threadActive : \E m \in Holders : thread[m] = t
-----------------------------------------------------------------------------
(* What a step of one process does to the hands and the stacks *)

(* A call that returns leaves its process with empty hands.                *)
LEMMA ReturnNothing ==
  ASSUME CallsOK, TakesOnTop, NEW p \in Procs, todo[p] # <<>>, Return(p, <<>>)
  PROVE  /\ Hand' = [Hand EXCEPT ![p] = 0]
         /\ TakesOnTop' /\ Serving' \subseteq Serving
  <1> DEFINE rest == Tail(todo[p])
  <1>1. todo[p] \in Seq(CallSet) /\ rest \in Seq(CallSet)
    BY HeadTailProperties DEF CallsOK
  <1>2. todo' = [todo EXCEPT ![p] = rest]
    BY <1>1, PutNothing DEF Return
  <1>3. ToSet(todo[p]) = {Head(todo[p])} \cup ToSet(rest)
    BY <1>1, HeadAndTail
  <1>4. rest # <<>> => ToSet(rest) = {Head(rest)} \cup ToSet(Tail(rest))
    BY <1>1, HeadAndTail
  <1>5. \A k \in ToSet(rest) : k.op \notin Taking
    BY DEF TakesOnTop
  <1> HIDE DEF rest
  <1>6. Taken(rest) = 0
    BY <1>4, <1>5 DEF Taken
  <1>7. \A q \in Procs : todo'[q] = IF q = p THEN rest ELSE todo[q]
    BY <1>2 DEF CallsOK
  <1>8. Hand' = [Hand EXCEPT ![p] = 0]
    BY <1>6, <1>7 DEF Hand
  <1>9. TakesOnTop'
    BY <1>4, <1>5, <1>7 DEF TakesOnTop
  <1>10. Serving' \subseteq Serving
    <2>1. Served(rest) \subseteq Served(todo[p])
      BY <1>3 DEF Served
    <2>2. \A q \in Procs : Served(todo'[q]) \subseteq Served(todo[q])
      BY <1>7, <2>1
    <2> QED
      BY <2>2 DEF Serving
  <1> QED
    BY <1>8, <1>9, <1>10

(* A call that makes one other leaves its process with that one's message  *)
(* in its hand, or about to serve it.                                      *)
LEMMA ReturnCall ==
  ASSUME CallsOK, TakesOnTop, NEW p \in Procs, todo[p] # <<>>,
         NEW k \in CallSet, Return(p, <<k>>)
  PROVE  /\ Hand' = [Hand EXCEPT ![p] = IF k.op \in Taking THEN k.msg ELSE 0]
         /\ TakesOnTop'
         /\ Serving' \subseteq
              Serving \cup (IF k.op \in Serves THEN {k.msg} ELSE {})
  <1> DEFINE rest == Tail(todo[p])
             stack == <<k>> \o rest
  <1>1. todo[p] \in Seq(CallSet) /\ rest \in Seq(CallSet)
    BY HeadTailProperties DEF CallsOK
  <1>2. todo' = [todo EXCEPT ![p] = stack]
    BY DEF Return
  <1>3. ToSet(todo[p]) = {Head(todo[p])} \cup ToSet(rest)
    BY <1>1, HeadAndTail
  <1>4. /\ stack # <<>> /\ Head(stack) = k /\ Tail(stack) = rest
        /\ ToSet(stack) = {k} \cup ToSet(rest)
    BY <1>1, PutOnTop
  <1>5. \A c \in ToSet(rest) : c.op \notin Taking
    BY DEF TakesOnTop
  <1> HIDE DEF rest, stack
  <1>6. Taken(stack) = IF k.op \in Taking THEN k.msg ELSE 0
    BY <1>4 DEF Taken
  <1>7. \A q \in Procs : todo'[q] = IF q = p THEN stack ELSE todo[q]
    BY <1>2 DEF CallsOK
  <1>8. Hand' = [Hand EXCEPT ![p] = IF k.op \in Taking THEN k.msg ELSE 0]
    BY <1>6, <1>7 DEF Hand
  <1>9. TakesOnTop'
    BY <1>4, <1>5, <1>7 DEF TakesOnTop
  <1>10. Serving' \subseteq
           Serving \cup (IF k.op \in Serves THEN {k.msg} ELSE {})
    <2> DEFINE new == IF k.op \in Serves THEN {k.msg} ELSE {}
    <2>1. Served(stack) \subseteq Served(todo[p]) \cup new
      BY <1>3, <1>4 DEF Served
    <2>2. \A q \in Procs : Served(todo'[q]) \subseteq Served(todo[q]) \cup new
      BY <1>7, <2>1
    <2> QED
      BY <2>2 DEF Serving
  <1> QED
    BY <1>8, <1>9, <1>10

(* A process that starts calls that serve messages takes none.             *)
LEMMA StartServing ==
  ASSUME CallsOK, TakesOnTop, NEW p \in Procs, todo[p] = <<>>,
         NEW calls \in Seq(CallSet), Start(p, calls),
         \A k \in ToSet(calls) : k.op \notin Taking
  PROVE  /\ Hand' = Hand /\ TakesOnTop'
         /\ Serving' \subseteq Serving \cup {k.msg : k \in ToSet(calls)}
  <1>1. \A q \in Procs : todo'[q] = IF q = p THEN calls ELSE todo[q]
    BY DEF Start, CallsOK
  <1>2. calls # <<>> => ToSet(calls) = {Head(calls)} \cup ToSet(Tail(calls))
    BY HeadAndTail
  <1>3. Taken(calls) = 0
    BY <1>2 DEF Taken
  <1>4. Hand' = Hand
    BY <1>1, <1>3 DEF Hand, Taken
  <1>5. TakesOnTop'
    BY <1>1, <1>2 DEF TakesOnTop
  <1>6. Serving' \subseteq Serving \cup {k.msg : k \in ToSet(calls)}
    <2>1. Served(calls) \subseteq {k.msg : k \in ToSet(calls)}
      BY DEF Served
    <2>2. \A q \in Procs : q = p \/ Served(todo'[q]) = Served(todo[q])
      BY <1>1
    <2> QED
      BY <1>1, <2>1, <2>2 DEF Serving
  <1> QED
    BY <1>4, <1>5, <1>6

(* A process that starts to take a message has it in its hand.             *)
LEMMA StartTaking ==
  ASSUME CallsOK, TakesOnTop, NEW p \in Procs, todo[p] = <<>>,
         NEW k \in CallSet, k.op \in Taking, Start(p, <<k>>)
  PROVE  /\ Hand' = [Hand EXCEPT ![p] = k.msg] /\ Hand[p] = 0
         /\ TakesOnTop' /\ Serving' \subseteq Serving
  <1>1. \A q \in Procs : todo'[q] = IF q = p THEN <<k>> ELSE todo[q]
    BY DEF Start, CallsOK
  <1>2. /\ <<k>> # <<>> /\ Head(<<k>>) = k /\ Tail(<<k>>) = <<>>
        /\ ToSet(<<k>>) = {k} /\ ToSet(<<>>) = {}
    <2>1. <<k>> = <<k>> \o <<>>
      OBVIOUS
    <2>2. ToSet(<<>>) = {}
      BY DEF ToSet
    <2>3. /\ <<k>> \o <<>> # <<>> /\ Head(<<k>> \o <<>>) = k
          /\ Tail(<<k>> \o <<>>) = <<>>
          /\ ToSet(<<k>> \o <<>>) = {k} \cup ToSet(<<>>)
      BY PutOnTop, EmptySeq, Zenon
    <2> QED
      BY <2>1, <2>2, <2>3
  <1>3. Hand' = [Hand EXCEPT ![p] = k.msg] /\ Hand[p] = 0
    BY <1>1, <1>2 DEF Hand, Taken
  <1>4. TakesOnTop'
    BY <1>1, <1>2 DEF TakesOnTop
  <1>5. Serving' \subseteq Serving
    <2>1. Served(<<k>>) = {}
      BY <1>2 DEF Served, Serves, Taking
    <2>2. \A q \in Procs : Served(todo'[q]) \subseteq Served(todo[q])
      BY <1>1, <2>1
    <2> QED
      BY <2>2 DEF Serving
  <1> QED
    BY <1>3, <1>4, <1>5

(* The message of a call that takes it is in its process's hand; that of a *)
(* call that needs its turn's row is being served.                         *)
LEMMA CallsMessage ==
  ASSUME CallsOK, NEW p \in Procs, todo[p] # <<>>
  PROVE  /\ Head(todo[p]).op \in Taking => Hand[p] = Msg(p)
         /\ Head(todo[p]).op \notin Taking => Hand[p] = 0
         /\ Head(todo[p]).op \in Serves => Msg(p) \in Serving
  <1>1. Hand[p] = Taken(todo[p])
    BY DEF Hand
  <1>2. Head(todo[p]).op \in Serves => Msg(p) \in Serving
    <2>1. Head(todo[p]) \in ToSet(todo[p])
      BY HeadAndTail DEF CallsOK
    <2> QED
      BY <2>1 DEF Serving, Served, Msg
  <1> QED
    BY <1>1, <1>2 DEF Taken, Msg
-----------------------------------------------------------------------------
(* What a step does to the places *)

(* A process's hand is emptied or filled with what nobody else has.        *)
LEMMA HandChange ==
  ASSUME OneHand, NEW p \in Procs, NEW new,
         Hand' = [Hand EXCEPT ![p] = new],
         new = 0 \/ new \notin InHands \ {Hand[p]}
  PROVE  /\ OneHand'
         /\ InHands' = (InHands \ {Hand[p]}) \cup ({new} \ {0})
  <1>1. Hand = [q \in Procs |-> Hand[q]]
    BY DEF Hand
  <1>2. \A q \in Procs : Hand'[q] = IF q = p THEN new ELSE Hand[q]
    BY <1>1
  <1>3. \A q \in Procs : q # p /\ Hand[q] # 0 => Hand[q] # Hand[p]
    BY DEF OneHand
  <1>4. \A q \in Procs : q # p /\ Hand[q] # 0 => Hand[q] # new
    BY <1>3 DEF InHands
  <1> HIDE DEF Hand
  <1>5. OneHand'
    BY <1>2, <1>4 DEF OneHand
  <1>6. InHands' = (InHands \ {Hand[p]}) \cup ({new} \ {0})
    BY <1>2, <1>3 DEF InHands
  <1> QED
    BY <1>5, <1>6

(* A hand holds a message, or nothing.                                     *)
LEMMA HandHolds ==
  ASSUME NEW p \in Procs, Hand[p] # 0
  PROVE  Hand[p] \in InHands
  BY DEF InHands

(* A step that moves no message from one place to another.                 *)
LEMMA NothingMoves ==
  ASSUME PlacesInv,
         UNCHANGED <<inbound, threadWaiting, waiting, dropped, restarts>>,
         Hand' = Hand, Opened' = Opened, TakesOnTop',
         Serving' \subseteq Opened, turns' \subseteq Opened
  PROVE  PlacesInv' /\ Ahead' = Ahead /\ Waits' = Waits
  <1>1. InThreads' = InThreads /\ AtRunner' = AtRunner /\ InHands' = InHands
    BY DEF InThreads, AtRunner, InHands
  <1>2. QueuesApart' /\ OneHand'
    BY DEF PlacesInv, QueuesApart, OneHand, inbound
  <1>3. RowsFirst'
    BY DEF RowsFirst
  <1>4. PlacesApart' /\ Arrived' /\ Somewhere'
    BY <1>1 DEF PlacesInv, PlacesApart, Arrived, Somewhere, inbound
  <1>5. Ahead' = Ahead /\ Waits' = Waits
    BY <1>1 DEF Ahead, Waits
  <1> QED
    BY <1>2, <1>3, <1>4, <1>5 DEF PlacesInv

(* The calls that neither take nor hand on a message.                      *)
LEMMA PlainCall ==
  ASSUME CallsOK, PlacesInv, NEW p \in Procs, todo[p] # <<>>,
         Head(todo[p]).op \in Serves,
         UNCHANGED <<inbound, threadWaiting, waiting, dropped, restarts>>,
         \A m \in Msgs \ {Msg(p)} : row'[m] = row[m],
         row'[Msg(p)] # "none",
         turns' \subseteq turns,
         \/ Return(p, <<>>)
         \/ \E k \in CallSet :
              k.op \notin Taking /\ k.msg = Msg(p) /\ Return(p, <<k>>)
  PROVE  PlacesInv' /\ Ahead' = Ahead /\ Waits' = Waits
  <1>1. /\ Hand[p] = 0 /\ Msg(p) \in Serving
        /\ Hand = [Hand EXCEPT ![p] = 0]
    <2>1. Serves \cap Taking = {}
      BY DEF Serves, Taking
    <2>2. Hand[p] = 0 /\ Msg(p) \in Serving
      BY <2>1, CallsMessage
    <2>3. Hand = [Hand EXCEPT ![p] = Hand[p]]
      BY DEF Hand
    <2> QED
      BY <2>2, <2>3
  <1>2. Hand' = Hand /\ TakesOnTop' /\ Serving' \subseteq Serving
    <2>1. CASE Return(p, <<>>)
      BY <1>1, <2>1, ReturnNothing DEF PlacesInv
    <2>2. ASSUME NEW k \in CallSet, k.op \notin Taking, k.msg = Msg(p),
                 Return(p, <<k>>)
          PROVE  Hand' = Hand /\ TakesOnTop' /\ Serving' \subseteq Serving
      <3>1. /\ Hand' = [Hand EXCEPT ![p] = IF k.op \in Taking THEN k.msg ELSE 0]
            /\ TakesOnTop'
            /\ Serving' \subseteq
                 Serving \cup (IF k.op \in Serves THEN {k.msg} ELSE {})
        BY <2>2, ReturnCall DEF PlacesInv
      <3> QED
        BY <1>1, <2>2, <3>1
    <2> QED
      BY <2>1, <2>2
  <1>3. Msg(p) \in Opened /\ Serving \subseteq Opened /\ turns \subseteq Opened
    BY <1>1 DEF PlacesInv, RowsFirst
  <1>4. Opened' = Opened
    BY <1>3 DEF Opened
  <1> QED
    BY <1>2, <1>3, <1>4, NothingMoves
-----------------------------------------------------------------------------
(* The places, step by step *)

(* Nothing has arrived.                                                    *)
LEMMA InitPlaces == Init => PlacesInv
  <1> SUFFICES ASSUME Init PROVE PlacesInv
    OBVIOUS
  <1>1. /\ \A p \in Procs : todo[p] = <<>>
        /\ \A t \in Threads : threadWaiting[t] = <<>>
        /\ waiting = <<>> /\ dropped = {} /\ turns = {} /\ arrived = 0
        /\ \A m \in Msgs : row[m] = "none"
    BY DEF Init
  <1>2. ToSet(<<>>) = {} /\ IsInjective(<<>>)
    BY DEF ToSet, IsInjective
  <1>3. \A p \in Procs : Hand[p] = 0
    BY <1>1 DEF Hand, Taken
  <1>4. InHands = {} /\ OneHand
    BY <1>3 DEF InHands, OneHand
  <1>5. InThreads = {} /\ AtRunner = {} /\ Opened = {}
    BY <1>1, <1>2 DEF InThreads, AtRunner, Opened
  <1>6. TakesOnTop
    BY <1>1 DEF TakesOnTop
  <1>7. RowsFirst
    <2>1. Serving = {}
      BY <1>1, <1>2 DEF Serving, Served
    <2> QED
      BY <1>1, <2>1 DEF RowsFirst
  <1>8. QueuesApart
    BY <1>1, <1>2 DEF QueuesApart
  <1>9. PlacesApart /\ Arrived
    BY <1>1, <1>4, <1>5 DEF PlacesApart, Arrived
  <1>10. Somewhere
    <2>1. 1 .. arrived = {}
      BY <1>1
    <2> QED
      BY <2>1 DEF Somewhere
  <1> QED
    BY <1>4, <1>6, <1>7, <1>8, <1>9, <1>10 DEF PlacesInv

(* A message that arrives is in the pump's hand, or behind its thread.     *)
LEMMA OnMessagePlaces ==
  ASSUME TypeOK, PlacesInv, OnMessage
  PROVE  /\ PlacesInv'
         /\ \/ /\ thread[arrived + 1] \in threadActive
               /\ threadWaiting' = [threadWaiting EXCEPT
                                     ![thread[arrived + 1]] = Append(@, arrived + 1)]
               /\ UNCHANGED threadActive /\ Ahead' = Ahead /\ Waits' = Waits
            \/ /\ thread[arrived + 1] \notin threadActive
               /\ threadActive' = threadActive \cup {thread[arrived + 1]}
               /\ UNCHANGED threadWaiting
               /\ Ahead' = Ahead \cup {arrived + 1}
               /\ Waits' = Waits \cup {arrived + 1}
  <1> DEFINE m == arrived + 1
             t == thread[m]
  <1>1. m \in Msgs /\ m \in 1 .. m /\ m # 0 /\ arrived \in Nat
    BY BoundsAssumption DEF OnMessage, TypeOK, InboundOK, Msgs
  <1>2. t \in Threads
    BY <1>1 DEF TypeOK, InboundOK
  <1>3. /\ arrived' = m /\ UNCHANGED <<thread, waiting, dropped, row, turns>>
        /\ restarts' = restarts /\ BeginThreadTurn(m, t) /\ todo[Pump] = <<>>
    BY DEF OnMessage, turnVars, Idle
  <1>4. m \notin InThreads \cup AtRunner \cup InHands \cup Opened \cup dropped
    <2>1. m \notin 1 .. arrived
      BY <1>1
    <2> QED
      BY <2>1 DEF PlacesInv, Arrived
  <1>5. 1 .. m = (1 .. arrived) \cup {m}
    BY <1>1
  <1>6. AtRunner' = AtRunner /\ Opened' = Opened
    BY <1>3 DEF AtRunner, Opened
  <1>7. Pump \in Procs /\ CallsOK /\ Call("admit", m) \in CallSet
    BY <1>1, BoundsAssumption, CallType DEF Pump, Procs, TypeOK, Ops
  <1> HIDE DEF m, t
  <1>8. CASE /\ t \notin threadActive
             /\ threadActive' = threadActive \cup {t}
             /\ Start(Pump, <<Call("admit", m)>>) /\ UNCHANGED threadWaiting
    <2>1. Call("admit", m).op \in Taking /\ Call("admit", m).msg = m
      BY DEF Call, Taking
    <2>2. /\ Hand' = [Hand EXCEPT ![Pump] = m] /\ Hand[Pump] = 0
          /\ TakesOnTop' /\ Serving' \subseteq Serving
      BY <1>3, <1>7, <1>8, <2>1, StartTaking DEF PlacesInv
    <2>3. OneHand' /\ InHands' = (InHands \ {Hand[Pump]}) \cup ({m} \ {0})
      BY <1>4, <1>7, <2>2, HandChange DEF PlacesInv
    <2>4. InHands' = InHands \cup {m} /\ InThreads' = InThreads
      BY <1>1, <1>8, <2>2, <2>3 DEF InHands, InThreads
    <2>5. QueuesApart'
      BY <1>3, <1>8 DEF PlacesInv, QueuesApart
    <2>6. RowsFirst'
      BY <1>3, <1>6, <2>2 DEF PlacesInv, RowsFirst
    <2>7. PlacesApart' /\ Arrived' /\ Somewhere'
      BY <1>3, <1>4, <1>5, <1>6, <2>4
         DEF PlacesInv, PlacesApart, Arrived, Somewhere
    <2>8. Ahead' = Ahead \cup {m} /\ Waits' = Waits \cup {m}
      BY <1>3, <1>6, <2>4 DEF Ahead, Waits
    <2>9. PlacesInv'
      BY <2>2, <2>3, <2>5, <2>6, <2>7 DEF PlacesInv
    <2> QED
      BY <1>8, <2>8, <2>9 DEF m, t
  <1>9. CASE /\ t \in threadActive
             /\ threadWaiting' = [threadWaiting EXCEPT ![t] = Append(@, m)]
             /\ UNCHANGED <<threadActive, todo>>
    <2>1. threadWaiting \in [Threads -> Seq(Msgs)]
      BY DEF TypeOK, QueuesOK
    <2>2. \A u \in Threads : threadWaiting'[u] =
            IF u = t THEN Append(threadWaiting[t], m) ELSE threadWaiting[u]
      BY <1>9, <2>1
    <2>3. m \notin ToSet(threadWaiting[t])
      BY <1>2, <1>4 DEF InThreads
    <2>4. /\ ToSet(Append(threadWaiting[t], m)) = ToSet(threadWaiting[t]) \cup {m}
          /\ IsInjective(Append(threadWaiting[t], m))
      BY <1>1, <1>2, <2>1, <2>3, AddLast DEF PlacesInv, QueuesApart
    <2>5. InThreads' = InThreads \cup {m}
      BY <1>2, <2>2, <2>4 DEF InThreads
    <2>6. QueuesApart'
      <3>1. thread[m] = t
        BY DEF t
      <3>2. ASSUME NEW u \in Threads
            PROVE  /\ IsInjective(threadWaiting'[u])
                   /\ \A n \in ToSet(threadWaiting'[u]) : thread[n] = u
        BY <2>2, <2>4, <3>1 DEF PlacesInv, QueuesApart
      <3> QED
        BY <1>3, <3>2 DEF PlacesInv, QueuesApart
    <2>7. Hand' = Hand /\ TakesOnTop' /\ Serving' = Serving
      BY <1>9 DEF PlacesInv, Hand, TakesOnTop, Serving
    <2>8. InHands' = InHands /\ OneHand'
      BY <2>7 DEF PlacesInv, InHands, OneHand
    <2>9. RowsFirst'
      BY <1>3, <1>6, <2>7 DEF PlacesInv, RowsFirst
    <2>10. PlacesApart' /\ Arrived' /\ Somewhere'
      BY <1>3, <1>4, <1>5, <1>6, <2>5, <2>8
         DEF PlacesInv, PlacesApart, Arrived, Somewhere
    <2>11. Ahead' = Ahead /\ Waits' = Waits
      BY <1>3, <1>6, <2>8 DEF Ahead, Waits
    <2>12. PlacesInv'
      BY <2>6, <2>7, <2>8, <2>9, <2>10 DEF PlacesInv
    <2> QED
      BY <1>9, <2>11, <2>12 DEF m, t
  <1> QED
    BY <1>3, <1>8, <1>9 DEF BeginThreadTurn

(* The end of a thread's turn hands its next message to the process.       *)
LEMMA EndThreadTurnPlaces ==
  ASSUME TypeOK, PlacesInv, NEW p \in Procs, EndThreadTurn(p)
  PROVE  /\ PlacesInv' /\ Ahead \subseteq Ahead'
         /\ thread[Msg(p)] \in threadActive' =>
              \E h \in Ahead' : thread[h] = thread[Msg(p)]
         /\ \/ /\ Release(p, thread[Msg(p)])
               /\ Ahead' = Ahead /\ Waits' = Waits
            \/ \E h \in Msgs :
                 /\ Promote(p, thread[Msg(p)])
                 /\ h = Head(threadWaiting[thread[Msg(p)]])
                 /\ thread[h] = thread[Msg(p)] /\ h \in InThreads
                 /\ Ahead' = Ahead \cup {h} /\ Waits' = Waits \cup {h}
  <1> DEFINE t == thread[Msg(p)]
  <1>1. /\ todo[p] # <<>> /\ Head(todo[p]).op = "endThread" /\ CallsOK
        /\ t \in Threads
    BY TopType DEF EndThreadTurn, At, TypeOK, InboundOK
  <1>2. "endThread" \in Serves /\ "endThread" \notin Taking
    BY DEF Serves, Taking, Ops
  <1>3. Hand[p] = 0 /\ Msg(p) \in Serving
    BY <1>1, <1>2, CallsMessage
  <1>4. /\ UNCHANGED inbound /\ UNCHANGED <<waiting, dropped, row, turns>>
        /\ restarts' = restarts
    BY DEF EndThreadTurn, turnVars
  <1>5. Promote(p, t) \/ Release(p, t)
    BY DEF EndThreadTurn
  <1>6. AtRunner' = AtRunner /\ Opened' = Opened
    BY <1>4 DEF AtRunner, Opened
  <1> HIDE DEF t
  <1>7. CASE Promote(p, t)
    <2> DEFINE h == Head(threadWaiting[t])
    <2>1. /\ threadWaiting \in [Threads -> Seq(Msgs)] /\ threadWaiting[t] # <<>>
          /\ threadWaiting[t] \in Seq(Msgs)
      BY <1>1, <1>7 DEF TypeOK, QueuesOK, Promote
    <2>2. h \in Msgs /\ h # 0
      <3>1. h \in Msgs
        BY <2>1, HeadTailProperties
      <3> QED
        BY <3>1 DEF Msgs
    <2>3. /\ h \in ToSet(threadWaiting[t])
          /\ ToSet(Tail(threadWaiting[t])) = ToSet(threadWaiting[t]) \ {h}
          /\ IsInjective(Tail(threadWaiting[t]))
      BY <1>1, <2>1, TakeFirst DEF PlacesInv, QueuesApart
    <2>4. \A u \in Threads : threadWaiting'[u] =
            IF u = t THEN Tail(threadWaiting[t]) ELSE threadWaiting[u]
      BY <1>7, <2>1 DEF Promote
    <2>5. Return(p, <<Call("admit", h)>>)
      BY <1>7 DEF Promote
    <2>6. /\ Call("admit", h) \in CallSet
          /\ Call("admit", h).op = "admit" /\ Call("admit", h).msg = h
      BY <2>2, CallType DEF Ops, Call
    <2>7. "admit" \in Taking /\ "admit" \notin Serves
      BY DEF Taking, Serves
    <2> HIDE DEF h
    <2>8. /\ Hand' = [Hand EXCEPT ![p] = h]
          /\ TakesOnTop' /\ Serving' \subseteq Serving
      BY <1>1, <2>5, <2>6, <2>7, ReturnCall DEF PlacesInv
    <2>9. h \in InThreads /\ h \notin InHands
      BY <1>1, <2>3 DEF InThreads, PlacesInv, PlacesApart
    <2>10. OneHand' /\ InHands' = (InHands \ {Hand[p]}) \cup ({h} \ {0})
      BY <2>8, <2>9, HandChange DEF PlacesInv
    <2>11. InHands' = InHands \cup {h}
      BY <1>3, <2>2, <2>10 DEF InHands
    <2>12. InThreads' = InThreads \ {h}
      <3>1. \A u \in Threads : h \in ToSet(threadWaiting[u]) => u = t
        BY <1>1, <2>3 DEF PlacesInv, QueuesApart
      <3>2. \A u \in Threads : ToSet(threadWaiting'[u]) = ToSet(threadWaiting[u]) \ {h}
        BY <2>3, <2>4, <3>1
      <3> QED
        BY <3>2 DEF InThreads
    <2>13. QueuesApart'
      <3>1. ASSUME NEW u \in Threads
            PROVE  /\ IsInjective(threadWaiting'[u])
                   /\ \A n \in ToSet(threadWaiting'[u]) : thread[n] = u
        BY <2>3, <2>4 DEF PlacesInv, QueuesApart
      <3> QED
        BY <1>4, <3>1 DEF PlacesInv, QueuesApart, inbound
    <2>14. RowsFirst'
      BY <1>4, <1>6, <2>8 DEF PlacesInv, RowsFirst
    <2>15. PlacesApart' /\ Arrived' /\ Somewhere'
      BY <1>4, <1>6, <2>9, <2>11, <2>12
         DEF PlacesInv, PlacesApart, Arrived, Somewhere, inbound
    <2>16. /\ Ahead' = Ahead \cup {h} /\ Waits' = Waits \cup {h}
           /\ thread[h] = t
      BY <1>1, <1>4, <1>6, <2>3, <2>11 DEF Ahead, Waits, PlacesInv, QueuesApart
    <2>17. PlacesInv'
      BY <2>8, <2>10, <2>13, <2>14, <2>15 DEF PlacesInv
    <2> QED
      BY <1>7, <2>2, <2>9, <2>16, <2>17 DEF t, h
  <1>8. CASE Release(p, t)
    <2>1. UNCHANGED threadWaiting /\ Return(p, <<>>)
      BY <1>8 DEF Release
    <2>2. Msg(p) \in Opened
      BY <1>3 DEF PlacesInv, RowsFirst
    <2>3. row'[Msg(p)] # "none"
      BY <1>4, <2>2 DEF Opened
    <2>4. PlacesInv' /\ Ahead' = Ahead /\ Waits' = Waits
      BY <1>1, <1>2, <1>4, <2>1, <2>3, PlainCall
    <2>5. t \notin threadActive'
      BY <1>8 DEF Release
    <2> QED
      BY <1>8, <2>4, <2>5 DEF t
  <1> QED
    BY <1>5, <1>7, <1>8
(* The cap passes a message on, parks it or refuses it.                    *)
LEMMA AdmitPlaces ==
  ASSUME TypeOK, PlacesInv, NEW p \in Procs, Admit(p)
  PROVE  PlacesInv' /\ Ahead' = Ahead /\ Waits' \subseteq Waits
  <1> DEFINE m == Msg(p)
  <1>1. /\ todo[p] # <<>> /\ Head(todo[p]).op = "admit" /\ m \in Msgs /\ CallsOK
    BY TopType DEF Admit, At, TypeOK
  <1>2. Hand[p] = m
    BY <1>1, CallsMessage DEF Taking
  <1>3. m # 0 /\ m \in InHands
    <2>1. m # 0
      BY <1>1 DEF Msgs
    <2> QED
      BY <1>2, <2>1, HandHolds
  <1>4. /\ UNCHANGED <<inbound, threadWaiting, row, turns, restarts>>
    BY DEF Admit, turnVars
  <1>5. InThreads' = InThreads /\ Opened' = Opened
    BY <1>4 DEF InThreads, Opened
  <1>6. PassUngated(p) \/ TakeSlot(p) \/ Refuse(p) \/ Park(p)
    BY DEF Admit
  <1>7. waiting \in Seq(Msgs)
    BY DEF TypeOK, QueuesOK
  <1>8. CASE PassUngated(p) \/ TakeSlot(p)
    <2>1. Return(p, <<Call("open", m)>>) /\ UNCHANGED <<waiting, dropped>>
      BY <1>8 DEF PassUngated, TakeSlot
    <2>2. /\ Call("open", m) \in CallSet
          /\ Call("open", m).op = "open" /\ Call("open", m).msg = m
      BY <1>1, CallType DEF Ops, Call
    <2>3. "open" \in Taking /\ "open" \notin Serves
      BY DEF Taking, Serves
    <2> HIDE DEF m
    <2>4. /\ Hand' = [Hand EXCEPT ![p] = m]
          /\ TakesOnTop' /\ Serving' \subseteq Serving
      BY <1>1, <2>1, <2>2, <2>3, ReturnCall DEF PlacesInv
    <2>5. Hand' = Hand
      BY <1>2, <2>4 DEF Hand
    <2> QED
      BY <1>4, <1>5, <2>1, <2>4, <2>5, NothingMoves DEF PlacesInv, RowsFirst
  <1>9. CASE Refuse(p) \/ Park(p)
    <2>1. Return(p, <<>>)
      BY <1>9 DEF Refuse, Park
    <2>2. /\ Hand' = [Hand EXCEPT ![p] = 0]
          /\ TakesOnTop' /\ Serving' \subseteq Serving
      BY <1>1, <2>1, ReturnNothing DEF PlacesInv
    <2>3. OneHand' /\ InHands' = InHands \ {m}
      <3>1. OneHand' /\ InHands' = (InHands \ {Hand[p]}) \cup ({0} \ {0})
        BY <2>2, HandChange DEF PlacesInv
      <3> QED
        BY <1>2, <3>1
    <2>4. RowsFirst'
      BY <1>4, <1>5, <2>2 DEF PlacesInv, RowsFirst
    <2>5. m \notin InThreads \cup AtRunner \cup Opened \cup dropped
      BY <1>3 DEF PlacesInv, PlacesApart
    <2> HIDE DEF m
    <2>6. CASE Refuse(p)
      <3>1. dropped' = dropped \cup {m} /\ UNCHANGED waiting
        BY <2>6 DEF Refuse, m
      <3>2. AtRunner' = AtRunner /\ QueuesApart'
        BY <1>4, <3>1 DEF AtRunner, PlacesInv, QueuesApart, inbound
      <3>3. PlacesApart' /\ Arrived' /\ Somewhere'
        BY <1>3, <1>4, <1>5, <2>3, <2>5, <3>1, <3>2
           DEF PlacesInv, PlacesApart, Arrived, Somewhere, inbound
      <3>4. Ahead' = Ahead /\ Waits' \subseteq Waits
        BY <1>3, <2>3, <3>1, <3>2 DEF Ahead, Waits
      <3> QED
        BY <2>2, <2>3, <2>4, <3>2, <3>3, <3>4 DEF PlacesInv
    <2>7. CASE Park(p)
      <3>1. waiting' = Append(waiting, m) /\ UNCHANGED dropped
        BY <2>7 DEF Park, m
      <3>2. m \notin ToSet(waiting)
        BY <2>5 DEF AtRunner
      <3>3. /\ ToSet(Append(waiting, m)) = ToSet(waiting) \cup {m}
            /\ IsInjective(Append(waiting, m))
        BY <1>1, <1>7, <3>2, AddLast DEF PlacesInv, QueuesApart
      <3>4. AtRunner' = AtRunner \cup {m}
        BY <3>1, <3>3 DEF AtRunner
      <3>5. QueuesApart'
        BY <1>4, <3>1, <3>3 DEF PlacesInv, QueuesApart, inbound
      <3>6. PlacesApart' /\ Arrived' /\ Somewhere'
        BY <1>3, <1>4, <1>5, <2>3, <2>5, <3>1, <3>4
           DEF PlacesInv, PlacesApart, Arrived, Somewhere, inbound
      <3>7. Ahead' = Ahead /\ Waits' \subseteq Waits
        BY <1>3, <2>3, <3>1, <3>4 DEF Ahead, Waits
      <3> QED
        BY <2>2, <2>3, <2>4, <3>5, <3>6, <3>7 DEF PlacesInv
    <2> QED
      BY <1>9, <2>6, <2>7
  <1> QED
    BY <1>6, <1>8, <1>9

(* A freed slot hands the next message of the runner's queue to the        *)
(* process that freed it.                                                  *)
LEMMA TurnSlotFreedPlaces ==
  ASSUME TypeOK, PlacesInv, NEW p \in Procs, TurnSlotFreed(p)
  PROVE  PlacesInv' /\ Ahead' = Ahead /\ Waits' \subseteq Waits
  <1> DEFINE m == Msg(p)
  <1>1. /\ todo[p] # <<>> /\ Head(todo[p]).op \in {"done", "error"}
        /\ m \in Msgs /\ CallsOK
    BY TopType DEF TurnSlotFreed, At, TypeOK
  <1>2. Head(todo[p]).op \in Serves /\ Head(todo[p]).op \notin Taking
    BY <1>1 DEF Serves, Taking, Ops
  <1>3. Hand[p] = 0 /\ m \in Opened
    BY <1>1, <1>2, CallsMessage DEF PlacesInv, RowsFirst
  <1>4. /\ UNCHANGED <<inbound, threadWaiting, dropped, turns, restarts>>
        /\ row' = [row EXCEPT ![m] = Head(todo[p]).op]
    BY DEF TurnSlotFreed
  <1>5. /\ \A n \in Msgs \ {m} : row'[n] = row[n]
        /\ row'[m] # "none"
    BY <1>1, <1>4 DEF TypeOK, TurnsOK
  <1>6. InThreads' = InThreads /\ Opened' = Opened
    BY <1>3, <1>4, <1>5 DEF InThreads, Opened
  <1>7. CASE waiting = <<>>
    <2>1. Return(p, <<>>) /\ UNCHANGED waiting
      BY <1>7 DEF TurnSlotFreed
    <2> QED
      BY <1>1, <1>2, <1>4, <1>5, <2>1, PlainCall
  <1>8. CASE waiting # <<>>
    <2> DEFINE h == Head(waiting)
    <2>1. waiting' = Tail(waiting) /\ Return(p, <<Call("open", h)>>)
      BY <1>8 DEF TurnSlotFreed
    <2>2. h \in Msgs /\ h # 0
      <3>1. h \in Msgs
        BY <1>8, HeadTailProperties DEF TypeOK, QueuesOK
      <3> QED
        BY <3>1 DEF Msgs
    <2>3. /\ h \in ToSet(waiting) /\ ToSet(Tail(waiting)) = ToSet(waiting) \ {h}
          /\ IsInjective(Tail(waiting))
      BY <1>8, TakeFirst DEF PlacesInv, QueuesApart, TypeOK, QueuesOK
    <2>4. /\ Call("open", h) \in CallSet
          /\ Call("open", h).op = "open" /\ Call("open", h).msg = h
      BY <2>2, CallType DEF Ops, Call
    <2>5. "open" \in Taking /\ "open" \notin Serves
      BY DEF Taking, Serves
    <2> HIDE DEF h, m
    <2>6. /\ Hand' = [Hand EXCEPT ![p] = h]
          /\ TakesOnTop' /\ Serving' \subseteq Serving
      BY <1>1, <2>1, <2>4, <2>5, ReturnCall DEF PlacesInv
    <2>7. h \in AtRunner /\ h \notin InHands
      BY <2>3 DEF AtRunner, PlacesInv, PlacesApart
    <2>8. OneHand' /\ InHands' = (InHands \ {Hand[p]}) \cup ({h} \ {0})
      BY <2>6, <2>7, HandChange DEF PlacesInv
    <2>9. InHands' = InHands \cup {h}
      BY <1>3, <2>2, <2>8 DEF InHands
    <2>10. AtRunner' = AtRunner \ {h}
      BY <2>1, <2>3 DEF AtRunner
    <2>11. QueuesApart'
      BY <1>4, <2>1, <2>3 DEF PlacesInv, QueuesApart, inbound
    <2>12. RowsFirst'
      BY <1>4, <1>6, <2>6 DEF PlacesInv, RowsFirst
    <2>13. PlacesApart' /\ Arrived' /\ Somewhere'
      BY <1>4, <1>6, <2>7, <2>9, <2>10
         DEF PlacesInv, PlacesApart, Arrived, Somewhere, inbound
    <2>14. Ahead' = Ahead /\ Waits' \subseteq Waits
      BY <1>4, <2>7, <2>9, <2>10 DEF Ahead, Waits
    <2> QED
      BY <2>6, <2>8, <2>11, <2>12, <2>13, <2>14 DEF PlacesInv
  <1> QED
    BY <1>7, <1>8

(* The hand that opens a turn is emptied, into the turn's row or, when the *)
(* store fails, of a message that is given up.                             *)
LEMMA OpenTurnPlaces ==
  ASSUME TypeOK, PlacesInv, NEW p \in Procs, OpenTurn(p) \/ StartTurnFails(p)
  PROVE  /\ PlacesInv'
         /\ Ahead \subseteq Ahead' \cup (IF OpenTurn(p) THEN {Msg(p)} ELSE {})
         /\ Ahead' \subseteq Ahead /\ Waits' \subseteq Waits
  <1> DEFINE m == Msg(p)
  <1>1. /\ todo[p] # <<>> /\ Head(todo[p]).op = "open" /\ m \in Msgs /\ CallsOK
    BY TopType DEF OpenTurn, StartTurnFails, At, TypeOK
  <1>2. Hand[p] = m
    BY <1>1, CallsMessage DEF Taking
  <1>3. m # 0 /\ m \in InHands
    <2>1. m # 0
      BY <1>1 DEF Msgs
    <2> QED
      BY <1>2, <2>1, HandHolds
  <1>4. /\ UNCHANGED <<inbound, threadWaiting, waiting, restarts>>
    BY DEF OpenTurn, StartTurnFails, queues
  <1>5. InThreads' = InThreads /\ AtRunner' = AtRunner /\ QueuesApart'
    BY <1>4 DEF InThreads, AtRunner, PlacesInv, QueuesApart, inbound
  <1>6. m \notin InThreads \cup AtRunner \cup Opened \cup dropped
    BY <1>3 DEF PlacesInv, PlacesApart
  <1>7. CASE OpenTurn(p)
    <2>1. /\ turns' = turns \cup {m} /\ UNCHANGED dropped
          /\ row' = [row EXCEPT ![m] = "running"]
      BY <1>7 DEF OpenTurn, queues
    <2>2. Opened' = Opened \cup {m}
      BY <1>1, <2>1 DEF Opened, TypeOK, TurnsOK
    <2>3. \E k \in CallSet : /\ k.op \in {"enqueue", "send"} /\ k.msg = m
                             /\ Return(p, <<k>>)
      <3>1. CASE Return(p, <<Call("enqueue", m)>>)
        <4>1. Call("enqueue", m) \in CallSet
          BY <1>1, CallType DEF Ops
        <4> QED
          BY <3>1, <4>1 DEF Call
      <3>2. CASE Return(p, <<[op |-> "send", msg |-> m, conn |-> hub]>>)
        <4>1. [op |-> "send", msg |-> m, conn |-> hub] \in CallSet
          BY <1>1 DEF TypeOK, HubOK, CallSet, Ops
        <4> QED
          BY <3>2, <4>1
      <3> QED
        BY <1>7, <3>1, <3>2 DEF OpenTurn
    <2>4. PICK k \in CallSet : /\ k.op \in {"enqueue", "send"} /\ k.msg = m
                               /\ Return(p, <<k>>)
      BY <2>3
    <2>5. k.op \notin Taking
      BY <2>4 DEF Taking
    <2> HIDE DEF m
    <2>6. /\ Hand' = [Hand EXCEPT ![p] = 0]
          /\ TakesOnTop' /\ Serving' \subseteq Serving \cup {m}
      <3>1. /\ Hand' = [Hand EXCEPT ![p] = IF k.op \in Taking THEN k.msg ELSE 0]
            /\ TakesOnTop'
            /\ Serving' \subseteq
                 Serving \cup (IF k.op \in Serves THEN {k.msg} ELSE {})
        BY <1>1, <2>4, ReturnCall DEF PlacesInv
      <3> QED
        BY <2>4, <2>5, <3>1
    <2>7. OneHand' /\ InHands' = InHands \ {m}
      <3>1. OneHand' /\ InHands' = (InHands \ {Hand[p]}) \cup ({0} \ {0})
        BY <2>6, HandChange DEF PlacesInv
      <3> QED
        BY <1>2, <3>1
    <2>8. RowsFirst'
      BY <2>1, <2>2, <2>6 DEF PlacesInv, RowsFirst
    <2>9. PlacesApart' /\ Arrived' /\ Somewhere'
      BY <1>3, <1>4, <1>5, <1>6, <2>1, <2>2, <2>7
         DEF PlacesInv, PlacesApart, Arrived, Somewhere, inbound
    <2>10. /\ Ahead \subseteq Ahead' \cup {m}
           /\ Ahead' \subseteq Ahead /\ Waits' \subseteq Waits
      BY <1>5, <2>1, <2>7 DEF Ahead, Waits
    <2> QED
      BY <1>5, <1>7, <2>6, <2>7, <2>8, <2>9, <2>10 DEF PlacesInv, m
  <1>8. CASE StartTurnFails(p)
    <2>1. /\ dropped' = dropped \cup {m} /\ UNCHANGED <<row, turns>>
          /\ Return(p, <<>>)
      BY <1>8 DEF StartTurnFails, turnVars
    <2>2. Opened' = Opened
      BY <2>1 DEF Opened
    <2> HIDE DEF m
    <2>3. /\ Hand' = [Hand EXCEPT ![p] = 0]
          /\ TakesOnTop' /\ Serving' \subseteq Serving
      BY <1>1, <2>1, ReturnNothing DEF PlacesInv
    <2>4. OneHand' /\ InHands' = InHands \ {m}
      <3>1. OneHand' /\ InHands' = (InHands \ {Hand[p]}) \cup ({0} \ {0})
        BY <2>3, HandChange DEF PlacesInv
      <3> QED
        BY <1>2, <3>1
    <2>5. RowsFirst'
      BY <2>1, <2>2, <2>3 DEF PlacesInv, RowsFirst
    <2>6. PlacesApart' /\ Arrived' /\ Somewhere'
      BY <1>3, <1>4, <1>5, <1>6, <2>1, <2>2, <2>4
         DEF PlacesInv, PlacesApart, Arrived, Somewhere, inbound
    <2>7. Ahead' = Ahead /\ Waits' \subseteq Waits
      BY <1>3, <1>5, <2>1, <2>4 DEF Ahead, Waits
    <2> QED
      BY <1>5, <2>3, <2>4, <2>5, <2>6, <2>7 DEF PlacesInv
  <1> QED
    BY <1>7, <1>8
(* The calls of a process that has no message in its hand.                 *)
LEMMA PlainCallPlaces ==
  ASSUME TypeOK, PlacesInv, NEW p \in Procs,
         \/ SendTurn(p) \/ Enqueue(p) \/ MarkQueued(p)
         \/ AbandonTurn(p) \/ Forget(p)
  PROVE  PlacesInv' /\ Ahead' = Ahead /\ Waits' = Waits
  <1> DEFINE m == Msg(p)
  <1>1. /\ todo[p] # <<>> /\ m \in Msgs /\ CallsOK
        /\ Head(todo[p]).op \in {"send", "enqueue", "mark", "abandon", "forget"}
    BY TopType DEF SendTurn, Enqueue, MarkQueued, AbandonTurn, Forget, At, TypeOK
  <1>2. Head(todo[p]).op \in Serves
    BY <1>1 DEF Serves, Ops
  <1>3. m \in Opened
    BY <1>1, <1>2, CallsMessage DEF PlacesInv, RowsFirst
  <1>4. UNCHANGED <<inbound, threadWaiting, waiting, dropped, restarts>>
    BY DEF SendTurn, Enqueue, MarkQueued, AbandonTurn, Forget, queues
  <1>5. row' = row \/ row' = [row EXCEPT ![m] = "error"]
    BY DEF SendTurn, Enqueue, MarkQueued, AbandonTurn, Forget, turnVars
  <1>6. (\A n \in Msgs \ {m} : row'[n] = row[n]) /\ row'[m] # "none"
    BY <1>1, <1>3, <1>5 DEF TypeOK, TurnsOK, Opened
  <1>7. turns' \subseteq turns
    BY DEF SendTurn, Enqueue, MarkQueued, AbandonTurn, Forget, turnVars
  <1>8. \/ Return(p, <<>>)
        \/ \E op \in {"enqueue", "mark", "abandon", "endThread"} :
             Return(p, <<Call(op, m)>>)
    BY DEF SendTurn, Enqueue, MarkQueued, AbandonTurn, Forget
  <1>9. ASSUME NEW op \in {"enqueue", "mark", "abandon", "endThread"},
               Return(p, <<Call(op, m)>>)
        PROVE  \E k \in CallSet :
                 k.op \notin Taking /\ k.msg = m /\ Return(p, <<k>>)
    <2>1. Call(op, m) \in CallSet /\ Call(op, m).op = op /\ Call(op, m).msg = m
      BY <1>1, CallType DEF Ops, Call
    <2> QED
      BY <1>9, <2>1 DEF Taking
  <1>10. \/ Return(p, <<>>)
         \/ \E k \in CallSet :
              k.op \notin Taking /\ k.msg = m /\ Return(p, <<k>>)
    BY <1>8, <1>9
  <1> QED
    BY <1>1, <1>2, <1>4, <1>6, <1>7, <1>10, PlainCall

(* Any step of any call.                                                   *)
LEMMA StepPlaces ==
  ASSUME TypeOK, PlacesInv, NEW p \in Procs, Step(p)
  PROVE  PlacesInv'
  BY EndThreadTurnPlaces, AdmitPlaces, TurnSlotFreedPlaces, OpenTurnPlaces,
     PlainCallPlaces DEF Step

(* Steps that make no call and open no turn.                               *)
LEMMA QuietPlaces ==
  ASSUME PlacesInv, UNCHANGED <<inbound, queues, row, todo, restarts>>,
         turns' \subseteq turns
  PROVE  PlacesInv' /\ Ahead' = Ahead /\ Waits' = Waits
  <1>1. Hand' = Hand /\ Opened' = Opened /\ TakesOnTop' /\ Serving' = Serving
    BY DEF Hand, Opened, PlacesInv, TakesOnTop, Serving
  <1> QED
    BY <1>1, NothingMoves DEF PlacesInv, RowsFirst, queues

(* Steps of an idle process that starts calls about turns that are open.   *)
LEMMA StartPlaces ==
  ASSUME CallsOK, PlacesInv, NEW p \in Procs, todo[p] = <<>>,
         UNCHANGED <<inbound, queues, row, restarts>>,
         turns' \subseteq turns,
         NEW calls \in Seq(CallSet), Start(p, calls),
         \A k \in ToSet(calls) : k.op \notin Taking /\ k.msg \in Opened
  PROVE  PlacesInv' /\ Ahead' = Ahead /\ Waits' = Waits
  <1>1. /\ Hand' = Hand /\ TakesOnTop'
        /\ Serving' \subseteq Serving \cup {k.msg : k \in ToSet(calls)}
    BY StartServing DEF PlacesInv
  <1>2. Opened' = Opened
    BY DEF Opened
  <1>3. Serving' \subseteq Opened /\ turns' \subseteq Opened
    BY <1>1 DEF PlacesInv, RowsFirst
  <1> QED
    BY <1>1, <1>2, <1>3, NothingMoves DEF queues

(* The calls of a list are about its message.                              *)
LEMMA FinishCalls ==
  ASSUME NEW m \in Msgs, NEW kind
  PROVE  /\ \A k \in ToSet(Finish(m, kind)) : k.op \notin Taking /\ k.msg = m
         /\ \A k \in ToSet(<<Call("error", m), Call("endThread", m)>>) :
              k.op \notin Taking /\ k.msg = m
  <1>1. \A op : Call(op, m).op = op /\ Call(op, m).msg = m
    BY DEF Call
  <1>2. {"done", "error", "endThread", "forget"} \cap Taking = {}
    BY DEF Taking
  <1>3. \A a, b, c : ToSet(<<a, b, c>>) = {a, b, c}
    BY DEF ToSet
  <1>4. \A a, b : ToSet(<<a, b>>) = {a, b}
    BY DEF ToSet
  <1>5. \/ ToSet(Finish(m, kind)) =
             {Call("done", m), Call("endThread", m), Call("forget", m)}
        \/ ToSet(Finish(m, kind)) =
             {Call("forget", m), Call("error", m), Call("endThread", m)}
    BY <1>3 DEF Finish
  <1>6. ToSet(<<Call("error", m), Call("endThread", m)>>) =
          {Call("error", m), Call("endThread", m)}
    BY <1>4
  <1> QED
    BY <1>1, <1>2, <1>5, <1>6

(* A step of a connection's goroutine: it starts to end turns that are open. *)
LEMMA ServePlaces ==
  ASSUME TypeOK, PlacesInv, NEW c \in Conns, Serve(c)
  PROVE  PlacesInv' /\ Ahead' = Ahead /\ Waits' = Waits
  <1>1. c \in Procs /\ CallsOK
    BY ProcTypes DEF TypeOK
  <1>2. CASE \/ StartDrain(c) \/ EndDrain(c) \/ HeartbeatTimeout(c) \/ EndConn(c)
             \/ RunnerReturned(c) \/ StartReconcile(c) \/ EndReconcile(c)
    <2>1. /\ UNCHANGED <<inbound, queues, row, todo, restarts>>
          /\ turns' = turns
      BY <1>2 DEF StartDrain, EndDrain, HeartbeatTimeout, EndConn, RunnerReturned,
                  StartReconcile, EndReconcile, turnVars
    <2> QED
      BY <2>1, QuietPlaces
  <1>3. CASE DrainSend(c)
    <2>1. /\ UNCHANGED <<inbound, queues, row, restarts>> /\ turns' = turns
          /\ todo[c] = <<>>
      BY <1>3 DEF DrainSend, turnVars, Idle
    <2>2. CASE UNCHANGED todo
      BY <2>1, <2>2, QuietPlaces
    <2> DEFINE k == Call("drained", Head(drain[c]))
    <2>3. CASE Start(c, <<k>>)
      <3>1. Head(drain[c]) \in Msgs
        BY <1>3, HeadTailProperties DEF DrainSend, TypeOK, ConnsOK
      <3>2. k \in CallSet /\ k.op = "drained"
        BY <3>1, CallType DEF Ops, Call
      <3>3. ToSet(<<k>>) = {k} /\ <<k>> \in Seq(CallSet)
        BY <3>2 DEF ToSet
      <3> HIDE DEF k
      <3>4. "drained" \notin Taking /\ "drained" \notin Serves
        BY DEF Taking, Serves
      <3>5. Hand' = Hand /\ TakesOnTop'
        BY <1>1, <2>1, <2>3, <3>2, <3>3, <3>4, StartServing DEF PlacesInv
      <3>6. Serving' \subseteq Serving
        <4>1. Served(<<k>>) = {}
          BY <3>2, <3>3, <3>4 DEF Served
        <4>2. \A q \in Procs : todo'[q] = IF q = c THEN <<k>> ELSE todo[q]
          BY <1>1, <2>3 DEF Start, CallsOK
        <4>3. \A q \in Procs : Served(todo'[q]) \subseteq Served(todo[q])
          BY <4>1, <4>2
        <4> QED
          BY <4>3 DEF Serving
      <3>7. Opened' = Opened
        BY <2>1 DEF Opened
      <3> QED
        BY <2>1, <3>5, <3>6, <3>7, NothingMoves DEF PlacesInv, RowsFirst, queues
    <2> QED
      BY <1>3, <2>2, <2>3 DEF DrainSend
  <1>4. CASE Drained(c)
    <2>1. /\ UNCHANGED <<inbound, queues, row, restarts>> /\ turns' = turns
          /\ Return(c, <<>>) /\ todo[c] # <<>> /\ Head(todo[c]).op = "drained"
      BY <1>4 DEF Drained, At
    <2>2. /\ Hand' = [Hand EXCEPT ![c] = 0]
          /\ TakesOnTop' /\ Serving' \subseteq Serving
      BY <1>1, <2>1, ReturnNothing DEF PlacesInv
    <2>3. Hand' = Hand
      <3>1. Hand[c] = 0
        BY <1>1, <2>1, CallsMessage DEF Taking
      <3> QED
        BY <2>2, <3>1 DEF Hand
    <2>4. Opened' = Opened
      BY <2>1 DEF Opened
    <2> QED
      BY <2>1, <2>2, <2>3, <2>4, NothingMoves DEF PlacesInv, RowsFirst, queues
  <1>5. CASE ReceiveFrame(c)
    <2> DEFINE f == Head(up[c])
    <2>1. /\ UNCHANGED <<inbound, queues, row, restarts>> /\ turns' = turns
          /\ todo[c] = <<>>
          /\ IF f.msg \in turns THEN Start(c, Finish(f.msg, f.kind))
                                ELSE UNCHANGED todo
      BY <1>5 DEF ReceiveFrame, turnVars, Idle
    <2> HIDE DEF f
    <2>2. CASE f.msg \in turns
      <3>1. f.msg \in Opened /\ f.msg \in Msgs
        BY <2>2 DEF PlacesInv, RowsFirst, TypeOK, TurnsOK
      <3>2. Finish(f.msg, f.kind) \in Seq(CallSet)
        BY <3>1, FinishType
      <3>3. \A k \in ToSet(Finish(f.msg, f.kind)) :
              k.op \notin Taking /\ k.msg \in Opened
        BY <3>1, FinishCalls
      <3> QED
        BY <1>1, <2>1, <2>2, <3>2, <3>3, StartPlaces
    <2>3. CASE f.msg \notin turns
      BY <2>1, <2>3, QuietPlaces
    <2> QED
      BY <2>2, <2>3
  <1>6. CASE Reconcile(c)
    <2>1. PICK m \in left[c] :
            IF m \in turns \ queued
            THEN /\ turns' = turns \ {m}
                 /\ Start(c, <<Call("error", m), Call("endThread", m)>>)
            ELSE UNCHANGED <<turns, todo>>
      BY <1>6 DEF Reconcile
    <2>2. UNCHANGED <<inbound, queues, row, restarts>> /\ todo[c] = <<>>
      BY <1>6 DEF Reconcile, Idle
    <2>3. CASE m \in turns \ queued
      <3>1. m \in Opened /\ m \in Msgs
        BY <2>3 DEF PlacesInv, RowsFirst, TypeOK, TurnsOK
      <3>2. \A k \in ToSet(<<Call("error", m), Call("endThread", m)>>) :
              k.op \notin Taking /\ k.msg \in Opened
        BY <3>1, FinishCalls
      <3>3. <<Call("error", m), Call("endThread", m)>> \in Seq(CallSet)
        BY <3>1, FailType
      <3> QED
        BY <1>1, <2>1, <2>2, <2>3, <3>2, <3>3, StartPlaces
    <2>4. CASE m \notin turns \ queued
      BY <2>1, <2>2, <2>4, QuietPlaces
    <2> QED
      BY <2>3, <2>4
  <1> QED
    BY <1>2, <1>3, <1>4, <1>5, <1>6 DEF Serve

(* So does the sweep of silent turns.                                      *)
LEMMA SweepPlaces ==
  ASSUME TypeOK, PlacesInv, Sweep
  PROVE  PlacesInv' /\ Ahead' = Ahead /\ Waits' = Waits
  <1>1. PICK m \in turns \ queued :
          /\ turns' = turns \ {m}
          /\ Start(Sweeper, <<Call("error", m), Call("endThread", m)>>)
    BY DEF Sweep
  <1>2. /\ UNCHANGED <<inbound, queues, row, restarts>> /\ todo[Sweeper] = <<>>
        /\ Sweeper \in Procs /\ CallsOK
    BY ProcTypes DEF Sweep, Idle, TypeOK
  <1>3. m \in Opened /\ m \in Msgs
    BY <1>1 DEF PlacesInv, RowsFirst, TypeOK, TurnsOK
  <1>4. \A k \in ToSet(<<Call("error", m), Call("endThread", m)>>) :
          k.op \notin Taking /\ k.msg \in Opened
    BY <1>3, FinishCalls
  <1>5. <<Call("error", m), Call("endThread", m)>> \in Seq(CallSet)
    BY <1>3, FailType
  <1> QED
    BY <1>1, <1>2, <1>4, <1>5, StartPlaces

(* A restart empties the queues and the hands; rows and what was given up  *)
(* stay.                                                                   *)
LEMMA RestartPlaces ==
  ASSUME TypeOK, PlacesInv, Restart
  PROVE  PlacesInv'
  <1>1. /\ \A p \in Procs : todo'[p] = <<>>
        /\ \A t \in Threads : threadWaiting'[t] = <<>>
        /\ waiting' = <<>> /\ turns' = {} /\ restarts' = restarts + 1
        /\ UNCHANGED <<inbound, dropped>>
        /\ \A m \in Msgs :
             row'[m] = IF row[m] = "running" THEN "error" ELSE row[m]
    BY DEF Restart
  <1>2. ToSet(<<>>) = {} /\ IsInjective(<<>>)
    BY DEF ToSet, IsInjective
  <1>3. \A p \in Procs : Hand'[p] = 0
    BY <1>1 DEF Hand, Taken
  <1>4. InHands' = {} /\ OneHand'
    BY <1>3 DEF InHands, OneHand
  <1>5. InThreads' = {} /\ AtRunner' = {} /\ Opened' = Opened
    BY <1>1, <1>2 DEF InThreads, AtRunner, Opened
  <1>6. TakesOnTop'
    BY <1>1 DEF TakesOnTop
  <1>7. RowsFirst'
    <2>1. Serving' = {}
      BY <1>1, <1>2 DEF Serving, Served
    <2> QED
      BY <1>1, <2>1 DEF RowsFirst
  <1>8. QueuesApart'
    BY <1>1, <1>2 DEF QueuesApart
  <1>9. PlacesApart' /\ Arrived'
    BY <1>1, <1>4, <1>5 DEF PlacesInv, PlacesApart, Arrived, inbound
  <1>10. Somewhere'
    BY <1>1 DEF Somewhere, TypeOK, RestartsOK
  <1> QED
    BY <1>4, <1>6, <1>7, <1>8, <1>9, <1>10 DEF PlacesInv

(* Every step keeps a message in one place.                                *)
LEMMA NextPlaces == TypeOK /\ PlacesInv /\ [Next]_vars => PlacesInv'
  <1> SUFFICES ASSUME TypeOK, PlacesInv, [Next]_vars PROVE PlacesInv'
    OBVIOUS
  <1>1. CASE OnMessage
    BY <1>1, OnMessagePlaces
  <1>2. CASE \E p \in Procs : Step(p)
    BY <1>2, StepPlaces
  <1>3. ASSUME NEW c \in Conns, Serve(c) \/ Connect(c) \/ Deliver(c) \/ Break(c)
        PROVE  PlacesInv'
    <2>1. CASE Serve(c)
      BY <2>1, ServePlaces
    <2>2. CASE Connect(c) \/ Deliver(c) \/ Break(c)
      <3>1. /\ UNCHANGED <<inbound, queues, row, todo, restarts>>
            /\ turns' = turns
        BY <2>2 DEF Connect, Deliver, Break, turnVars
      <3> QED
        BY <3>1, QuietPlaces
    <2> QED
      BY <1>3, <2>1, <2>2
  <1>4. CASE Sweep
    BY <1>4, SweepPlaces
  <1>5. CASE RunnerEnds \/ UNCHANGED vars
    <2>1. UNCHANGED <<inbound, queues, row, todo, restarts>> /\ turns' = turns
      BY <1>5 DEF RunnerEnds, vars, turnVars
    <2> QED
      BY <2>1, QuietPlaces
  <1>6. CASE Restart
    BY <1>6, RestartPlaces
  <1> QED
    BY <1>1, <1>2, <1>3, <1>4, <1>5, <1>6 DEF Next
(***************************************************************************)
(* Wherever a message is, it is there once and nowhere else: the inductive *)
(* invariant of the handovers between beginThreadTurn, admit,              *)
(* turnSlotFreed, endThreadTurn and dispatchTurn, which a restart keeps.   *)
(***************************************************************************)
THEOREM PlacesInvariant == Spec => []PlacesInv
  <1>1. Init => PlacesInv
    BY InitPlaces
  <1>2. TypeOK /\ PlacesInv /\ [Next]_vars => PlacesInv'
    BY NextPlaces
  <1> QED
    BY <1>1, <1>2, TypeCorrect, PTL DEF Spec

(* A message is in a hand if and only if a stack has a call to take it.    *)
LEMMA HandsAreCalls ==
  ASSUME TypeOK, PlacesInv, NEW m \in Msgs
  PROVE  InHand(m) <=> m \in InHands
  <1>1. ASSUME NEW p \in Procs, NEW i \in 1 .. Len(todo[p]),
               todo[p][i].msg = m, todo[p][i].op \in Taking
        PROVE  m \in InHands
    <2>1. /\ todo[p] \in Seq(CallSet) /\ todo[p] # <<>>
          /\ todo[p][i] \in ToSet(todo[p])
      BY <1>1, LenProperties, EmptySeq DEF TypeOK, CallsOK, ToSet
    <2>2. todo[p][i] = Head(todo[p]) \/ todo[p][i] \in ToSet(Tail(todo[p]))
      BY <2>1, HeadAndTail
    <2>3. todo[p][i] = Head(todo[p])
      BY <1>1, <2>1, <2>2 DEF PlacesInv, TakesOnTop
    <2>4. Hand[p] = m
      BY <1>1, <2>1, <2>3 DEF Hand, Taken
    <2>5. m # 0
      BY DEF Msgs
    <2> QED
      BY <2>4, <2>5 DEF InHands
  <1>2. ASSUME m \in InHands PROVE InHand(m)
    <2>1. PICK p \in Procs : Hand[p] = m /\ m # 0
      BY <1>2 DEF InHands
    <2>2. /\ todo[p] # <<>> /\ Head(todo[p]).op \in Taking
          /\ Head(todo[p]).msg = m
      BY <2>1 DEF Hand, Taken
    <2>3. todo[p] \in Seq(CallSet)
      BY DEF TypeOK, CallsOK
    <2>4. 1 \in 1 .. Len(todo[p]) /\ Head(todo[p]) = todo[p][1]
      BY <2>2, <2>3, HeadTailProperties, LenProperties, EmptySeq
    <2> QED
      BY <2>2, <2>4 DEF InHand, Taking
  <1>3. InHand(m) => m \in InHands
    BY <1>1 DEF InHand, Taking
  <1> QED
    BY <1>2, <1>3

(***************************************************************************)
(* The handovers lose and duplicate nothing: until a restart every message *)
(* that has arrived is in exactly one place, whatever goroutines finish    *)
(* turns twice, connections fail or the store refuses.                     *)
(***************************************************************************)
THEOREM NothingLostCorrect == Spec => []NothingLost
  <1>1. TypeOK /\ PlacesInv => NothingLost
    <2> SUFFICES ASSUME TypeOK, PlacesInv, restarts = 0, NEW m \in 1 .. arrived
                 PROVE  Cardinality({pl \in 1 .. 5 :
                          \/ pl = 1 /\ ParkedInThread(m)
                          \/ pl = 2 /\ ParkedAtRunner(m)
                          \/ pl = 3 /\ InHand(m)
                          \/ pl = 4 /\ row[m] # "none"
                          \/ pl = 5 /\ m \in dropped}) = 1
      BY DEF NothingLost
    <2>1. m \in Msgs
      BY BoundsAssumption DEF TypeOK, InboundOK, Msgs
    <2>2. ParkedInThread(m) <=> m \in InThreads
      BY <2>1 DEF PlacesInv, QueuesApart, ParkedInThread, InThreads, TypeOK,
                  InboundOK
    <2>3. /\ ParkedAtRunner(m) <=> m \in AtRunner
          /\ row[m] # "none" <=> m \in Opened
      BY <2>1 DEF ParkedAtRunner, AtRunner, Opened
    <2>4. InHand(m) <=> m \in InHands
      BY <2>1, HandsAreCalls
    <2>5. m \in InThreads \cup AtRunner \cup InHands \cup Opened \cup dropped
      BY DEF PlacesInv, Somewhere
    <2>6. \E k \in 1 .. 5 :
            {pl \in 1 .. 5 : \/ pl = 1 /\ m \in InThreads
                             \/ pl = 2 /\ m \in AtRunner
                             \/ pl = 3 /\ m \in InHands
                             \/ pl = 4 /\ m \in Opened
                             \/ pl = 5 /\ m \in dropped} = {k}
      BY <2>5 DEF PlacesInv, PlacesApart
    <2>7. \A k : Cardinality({k}) = 1
      BY FS_Singleton
    <2> QED
      BY <2>2, <2>3, <2>4, <2>6, <2>7
  <1> QED
    BY <1>1, TypeCorrect, PlacesInvariant, PTL

(***************************************************************************)
(* dispatchTurn opens a turn at most once for a message, also across       *)
(* restarts: what a hand holds has no row yet.                             *)
(***************************************************************************)
THEOREM OpenedOnceCorrect == Spec => OpenedOnce
  <1>1. ASSUME TypeOK, PlacesInv, [Next]_vars
        PROVE  [\A m \in Msgs : Opens(m) => row[m] = "none"]_vars
    <2> SUFFICES ASSUME Next, NEW m \in Msgs, Opens(m)
                 PROVE  row[m] = "none"
      BY <1>1
    <2>1. row[m] # "running" /\ row'[m] = "running"
      BY DEF Opens
    <2>2. row \in [Msgs -> Statuses]
      BY <1>1 DEF TypeOK, TurnsOK
    <2>3. ASSUME NEW p \in Procs, OpenTurn(p)
          PROVE  row[m] = "none"
      <3>1. /\ todo[p] # <<>> /\ Head(todo[p]).op = "open" /\ Msg(p) \in Msgs
            /\ CallsOK
        BY <1>1, <2>3, TopType DEF OpenTurn, At, TypeOK
      <3>2. Msg(p) = m
        BY <2>1, <2>2, <2>3 DEF OpenTurn
      <3>3. Hand[p] = m /\ m # 0
        <4>1. m # 0
          BY DEF Msgs
        <4> QED
          BY <3>1, <3>2, <4>1, CallsMessage DEF Taking
      <3>4. m \in InHands
        BY <3>3, HandHolds
      <3>5. m \notin Opened
        BY <1>1, <3>4 DEF PlacesInv, PlacesApart
      <3> QED
        BY <3>5 DEF Opened
    <2>4. ASSUME NEW p \in Procs, TurnSlotFreed(p)
          PROVE  FALSE
      <3>1. Head(todo[p]).op \in {"done", "error"}
        BY <2>4 DEF TurnSlotFreed, At
      <3>2. row'[m] = row[m] \/ row'[m] \in {"done", "error"}
        BY <2>2, <2>4, <3>1 DEF TurnSlotFreed
      <3> QED
        BY <2>1, <3>2
    <2>5. ASSUME NEW p \in Procs, AbandonTurn(p)
          PROVE  FALSE
      BY <2>1, <2>2, <2>5 DEF AbandonTurn
    <2>6. ASSUME Restart PROVE FALSE
      BY <2>1, <2>6 DEF Restart
    <2>7. ASSUME NEW p \in Procs,
                 \/ EndThreadTurn(p) \/ Admit(p) \/ StartTurnFails(p)
                 \/ SendTurn(p) \/ Enqueue(p) \/ MarkQueued(p) \/ Forget(p)
          PROVE  row' = row
      BY <2>7 DEF EndThreadTurn, Admit, StartTurnFails, SendTurn, Enqueue,
                  MarkQueued, Forget, turnVars
    <2>8. ASSUME NEW c \in Conns, Serve(c)
          PROVE  row' = row
      BY <2>8 DEF Serve, StartDrain, DrainSend, Drained, EndDrain, ReceiveFrame,
                  HeartbeatTimeout, EndConn, RunnerReturned, StartReconcile,
                  Reconcile, EndReconcile, turnVars
    <2>9. ASSUME NEW c \in Conns, Connect(c) \/ Deliver(c) \/ Break(c)
          PROVE  row' = row
      BY <2>9 DEF Connect, Deliver, Break, turnVars
    <2>10. OnMessage \/ Sweep \/ RunnerEnds => row' = row
      BY DEF OnMessage, Sweep, RunnerEnds, turnVars
    <2> QED
      BY <2>1, <2>3, <2>4, <2>5, <2>6, <2>7, <2>8, <2>9, <2>10 DEF Next, Step
  <1> QED
    BY <1>1, TypeCorrect, PlacesInvariant, PTL DEF Spec, OpenedOnce
-----------------------------------------------------------------------------
(* Who ends a thread's hold, step by step *)

(* A step of a process that returns into at most one call, which forgets   *)
(* nothing, leaves every thread to be released but the one it released.    *)
LEMMA ReturnHolds ==
  ASSUME CallsOK, NEW p \in Procs, todo[p] # <<>>,
         NEW calls \in Seq(CallSet), Return(p, calls),
         Forgets(calls) = {}
  PROVE  /\ \A m \in Closing : m \in Closing' \/ (At(p, "endThread") /\ m = Msg(p))
         /\ \A m \in Forgetting' :
              m \in Forgetting \/ (At(p, "endThread") /\ m = Msg(p))
         /\ EndsThread(calls) \subseteq Closing'
         /\ At(p, "forget") => Msg(p) \in Closing' \/ Msg(p) \in Forgetting
  <1> DEFINE rest == Tail(todo[p])
             stack == calls \o rest
             gone == IF At(p, "endThread") THEN {Msg(p)} ELSE {}
  <1>1. todo[p] \in Seq(CallSet) /\ rest \in Seq(CallSet)
    BY HeadTailProperties DEF CallsOK
  <1>2. ToSet(todo[p]) = {Head(todo[p])} \cup ToSet(rest)
    BY <1>1, HeadAndTail
  <1>3. ToSet(stack) = ToSet(calls) \cup ToSet(rest)
    <2>1. calls \in Seq(CallSet) /\ rest \in Seq(CallSet)
      BY <1>1
    <2> HIDE DEF rest
    <2> QED
      BY <2>1, JoinSets
  <1>4. \A q \in Procs : todo'[q] = IF q = p THEN stack ELSE todo[q]
    BY DEF Return, CallsOK
  <1> HIDE DEF rest, stack
  <1>5. EndsThread(stack) = EndsThread(calls) \cup EndsThread(rest)
    BY <1>3 DEF EndsThread
  <1>6. Forgets(stack) = Forgets(rest)
    <2>1. Forgets(stack) = Forgets(calls) \cup Forgets(rest)
      BY <1>3 DEF Forgets
    <2> QED
      BY <2>1
  <1>7. EndsThread(todo[p]) = gone \cup EndsThread(rest)
    BY <1>2 DEF EndsThread, At, Msg
  <1>8. Forgets(rest) \subseteq Forgets(todo[p])
    BY <1>2 DEF Forgets
  <1>9. /\ \A m \in Closing : m \in Closing' \/ m \in gone
        /\ EndsThread(calls) \subseteq Closing'
    <2>1. \A q \in Procs : EndsThread(todo[q]) \subseteq EndsThread(todo'[q]) \cup gone
      BY <1>4, <1>5, <1>7
    <2>2. EndsThread(calls) \subseteq EndsThread(todo'[p])
      BY <1>4, <1>5
    <2> HIDE DEF gone
    <2> QED
      BY <2>1, <2>2 DEF Closing
  <1>10. \A m \in Forgetting' : m \in Forgetting \/ m \in gone
    <2>1. \A q \in Procs :
            Forgets(todo'[q]) \ EndsThread(todo'[q])
              \subseteq (Forgets(todo[q]) \ EndsThread(todo[q])) \cup gone
      BY <1>4, <1>5, <1>6, <1>7, <1>8
    <2> HIDE DEF gone
    <2> QED
      BY <2>1 DEF Forgetting
  <1>11. At(p, "forget") => Msg(p) \in Closing' \/ Msg(p) \in Forgetting
    <2> SUFFICES ASSUME At(p, "forget"), Msg(p) \notin Forgetting
                 PROVE  Msg(p) \in Closing'
      OBVIOUS
    <2>1. Msg(p) \in Forgets(todo[p])
      BY <1>2 DEF Forgets, At, Msg
    <2>2. Msg(p) \in EndsThread(todo[p])
      BY <2>1 DEF Forgetting
    <2>3. gone = {}
      BY DEF At
    <2>4. Msg(p) \in EndsThread(todo'[p])
      BY <1>4, <1>5, <1>7, <2>2, <2>3
    <2> QED
      BY <2>4 DEF Closing
  <1> QED
    BY <1>9, <1>10, <1>11

(* A process that starts calls that release a thread before they forget a  *)
(* message, or after, takes no release away.                               *)
LEMMA StartHolds ==
  ASSUME CallsOK, NEW p \in Procs, todo[p] = <<>>, NEW calls, Start(p, calls),
         Forgets(calls) \subseteq EndsThread(calls)
  PROVE  /\ Closing \subseteq Closing' /\ EndsThread(calls) \subseteq Closing'
         /\ Forgetting' \subseteq Forgetting
  <1>1. \A q \in Procs : todo'[q] = IF q = p THEN calls ELSE todo[q]
    BY DEF Start, CallsOK
  <1>2. EndsThread(<<>>) = {}
    BY DEF EndsThread, ToSet
  <1>3. /\ \A q \in Procs : EndsThread(todo[q]) \subseteq EndsThread(todo'[q])
        /\ EndsThread(calls) \subseteq EndsThread(todo'[p])
    BY <1>1, <1>2
  <1>4. \A q \in Procs : Forgets(todo'[q]) \ EndsThread(todo'[q])
                           \subseteq Forgets(todo[q]) \ EndsThread(todo[q])
    BY <1>1
  <1> QED
    BY <1>3, <1>4 DEF Closing, Forgetting

(* What is forgotten is being served.                                      *)
LEMMA ForgettingServed == Forgetting \subseteq Serving
  <1>1. "forget" \in Serves
    BY DEF Serves, Ops
  <1> QED
    BY <1>1 DEF Forgetting, Serving, Forgets, Served

(* While no thread is held anew and no holder is lost, held threads have a *)
(* holder.                                                                 *)
LEMMA HoldersKept ==
  ASSUME HeldOK, UNCHANGED thread, threadActive' \subseteq threadActive,
         Holders \subseteq Holders'
  PROVE  HeldOK'
  BY DEF HeldOK

(* What a single call, and no call at all, releases and forgets.           *)
LEMMA CallEnds ==
  ASSUME NEW op, NEW m
  PROVE  /\ EndsThread(<<Call(op, m)>>) = IF op = "endThread" THEN {m} ELSE {}
         /\ Forgets(<<Call(op, m)>>) = IF op = "forget" THEN {m} ELSE {}
  <1>1. ToSet(<<Call(op, m)>>) = {Call(op, m)}
    BY DEF ToSet
  <1>2. Call(op, m).op = op /\ Call(op, m).msg = m
    BY DEF Call
  <1> QED
    BY <1>1, <1>2 DEF EndsThread, Forgets

(* No call at all is a list of calls, and forgets nothing.                 *)
LEMMA NoCalls == <<>> \in Seq(CallSet) /\ Forgets(<<>>) = {}
  <1>1. ToSet(<<>>) = {}
    BY DEF ToSet
  <1> QED
    BY <1>1 DEF Forgets
(* A process's call that releases no thread loses no holder, if it forgets *)
(* no open turn.                                                           *)
LEMMA ReturnKeepsHolders ==
  ASSUME CallsOK, NEW p \in Procs, todo[p] # <<>>, ~At(p, "endThread"),
         NEW calls \in Seq(CallSet), Return(p, calls), Forgets(calls) = {},
         Ahead \subseteq Ahead',
         \A m \in turns : m \in turns' \/ m \in Closing' \/ m \in Forgetting
  PROVE  Holders \subseteq Holders'
  <1>1. Closing \subseteq Closing' /\ Forgetting' \subseteq Forgetting
    BY ReturnHolds
  <1> QED
    BY <1>1 DEF Holders

(* The end of a turn releases its thread, or leaves it to the next message. *)
LEMMA EndThreadTurnHeld ==
  ASSUME TypeOK, PlacesInv, HeldOK, NEW p \in Procs, EndThreadTurn(p)
  PROVE  HeldOK'
  <1> DEFINE t == thread[Msg(p)]
  <1>1. /\ todo[p] # <<>> /\ CallsOK /\ At(p, "endThread") /\ t \in Threads
    BY TopType DEF EndThreadTurn, At, TypeOK, InboundOK
  <1>2. /\ Ahead \subseteq Ahead'
        /\ t \in threadActive' => \E h \in Ahead' : thread[h] = t
    BY EndThreadTurnPlaces
  <1>3. /\ turns' = turns /\ thread' = thread
        /\ Promote(p, t) \/ Release(p, t)
    BY DEF EndThreadTurn, turnVars, inbound
  <1>4. threadActive' \subseteq threadActive
    BY <1>3 DEF Promote, Release
  <1>5. \E calls \in Seq(CallSet) : Return(p, calls) /\ Forgets(calls) = {}
    <2>1. CASE Promote(p, t)
      <3> DEFINE h == Head(threadWaiting[t])
      <3>1. h \in Msgs
        BY <1>1, <2>1, HeadTailProperties DEF TypeOK, QueuesOK, Promote
      <3>2. Return(p, <<Call("admit", h)>>)
        BY <2>1 DEF Promote
      <3> HIDE DEF h
      <3>3. <<Call("admit", h)>> \in Seq(CallSet)
        BY <3>1, CallType DEF Ops
      <3>4. Forgets(<<Call("admit", h)>>) = {}
        BY CallEnds
      <3> QED
        BY <3>2, <3>3, <3>4
    <2>2. CASE Release(p, t)
      <3>1. Return(p, <<>>)
        BY <2>2 DEF Release
      <3>2. <<>> \in Seq(CallSet) /\ Forgets(<<>>) = {}
        BY NoCalls
      <3> QED
        BY <3>1, <3>2
    <2> QED
      BY <1>3, <2>1, <2>2
  <1>6. /\ \A m \in Closing : m \in Closing' \/ m = Msg(p)
        /\ \A m \in Forgetting' : m \in Forgetting \/ m = Msg(p)
    BY <1>1, <1>5, ReturnHolds
  <1>7. ASSUME NEW u \in threadActive'
        PROVE  \E m \in Holders' : thread[m] = u
    <2>1. CASE u = t
      BY <1>2, <1>7, <2>1 DEF Holders
    <2>2. CASE u # t
      <3>1. PICK m \in Holders : thread[m] = u
        BY <1>4, <1>7 DEF HeldOK
      <3>2. m # Msg(p)
        BY <2>2, <3>1
      <3>3. m \in Holders'
        BY <1>2, <1>3, <1>6, <3>1, <3>2 DEF Holders
      <3> QED
        BY <3>1, <3>3
    <2> QED
      BY <2>1, <2>2
  <1> QED
    BY <1>3, <1>7 DEF HeldOK

(* The turn a hand opens is not being forgotten.                           *)
LEMMA OpenTurnHeld ==
  ASSUME TypeOK, PlacesInv, HeldOK, NEW p \in Procs, OpenTurn(p)
  PROVE  HeldOK'
  <1> DEFINE m == Msg(p)
  <1>1. /\ todo[p] # <<>> /\ Head(todo[p]).op = "open" /\ m \in Msgs /\ CallsOK
    BY TopType DEF OpenTurn, At, TypeOK
  <1>2. Ahead \subseteq Ahead' \cup {m}
    BY OpenTurnPlaces
  <1>3. /\ turns' = turns \cup {m} /\ UNCHANGED <<thread, threadActive>>
    BY DEF OpenTurn, queues, inbound
  <1>4. PICK k \in CallSet : k.op \in {"enqueue", "send"} /\ Return(p, <<k>>)
    <2>1. \/ Return(p, <<Call("enqueue", m)>>)
          \/ Return(p, <<[op |-> "send", msg |-> m, conn |-> hub]>>)
      BY DEF OpenTurn
    <2>2. Call("enqueue", m) \in CallSet /\ Call("enqueue", m).op = "enqueue"
      BY <1>1, CallType DEF Ops, Call
    <2>3. [op |-> "send", msg |-> m, conn |-> hub] \in CallSet
      BY <1>1 DEF TypeOK, HubOK, CallSet, Ops
    <2> QED
      BY <2>1, <2>2, <2>3
  <1>5. <<k>> \in Seq(CallSet) /\ Forgets(<<k>>) = {}
    <2>1. ToSet(<<k>>) = {k}
      BY DEF ToSet
    <2> QED
      BY <1>4, <2>1 DEF Forgets
  <1>6. ~At(p, "endThread")
    BY <1>1 DEF At
  <1>7. Closing \subseteq Closing' /\ Forgetting' \subseteq Forgetting
    BY <1>1, <1>4, <1>5, <1>6, ReturnHolds
  <1>8. m \notin Forgetting
    <2>1. Hand[p] = m /\ m # 0
      <3>1. m # 0
        BY <1>1 DEF Msgs
      <3> QED
        BY <1>1, <3>1, CallsMessage DEF Taking
    <2>2. m \notin Opened
      BY <2>1, HandHolds DEF PlacesInv, PlacesApart
    <2> QED
      BY <2>2, ForgettingServed DEF PlacesInv, RowsFirst
  <1>9. Holders \subseteq Holders'
    BY <1>2, <1>3, <1>7, <1>8 DEF Holders
  <1> QED
    BY <1>3, <1>9, HoldersKept

(* The other calls.                                                        *)
LEMMA CallHeld ==
  ASSUME TypeOK, PlacesInv, HeldOK, NEW p \in Procs,
         \/ Admit(p) \/ TurnSlotFreed(p) \/ StartTurnFails(p) \/ SendTurn(p)
         \/ Enqueue(p) \/ MarkQueued(p) \/ AbandonTurn(p) \/ Forget(p)
  PROVE  HeldOK'
  <1> DEFINE m == Msg(p)
  <1>1. /\ todo[p] # <<>> /\ m \in Msgs /\ CallsOK /\ ~At(p, "endThread")
    BY TopType DEF Admit, TurnSlotFreed, StartTurnFails, SendTurn, Enqueue,
                   MarkQueued, AbandonTurn, Forget, At, TypeOK
  <1>2. Ahead \subseteq Ahead'
    <2>1. CASE StartTurnFails(p)
      <3>1. ~OpenTurn(p)
        BY <1>1, <2>1 DEF StartTurnFails, OpenTurn, turnVars, TypeOK, TurnsOK,
                          Return, CallsOK
      <3> QED
        BY <2>1, <3>1, OpenTurnPlaces
    <2>2. CASE Admit(p) \/ TurnSlotFreed(p)
      BY <2>2, AdmitPlaces, TurnSlotFreedPlaces
    <2>3. CASE \/ SendTurn(p) \/ Enqueue(p) \/ MarkQueued(p)
               \/ AbandonTurn(p) \/ Forget(p)
      BY <2>3, PlainCallPlaces
    <2> QED
      BY <2>1, <2>2, <2>3
  <1>3. UNCHANGED <<thread, threadActive>>
    BY DEF Admit, TurnSlotFreed, StartTurnFails, SendTurn, Enqueue, MarkQueued,
           AbandonTurn, Forget, queues, inbound
  <1>4. PICK calls \in Seq(CallSet) :
          /\ Return(p, calls) /\ Forgets(calls) = {}
          /\ AbandonTurn(p) => EndsThread(calls) = {m}
    <2>1. ASSUME NEW op \in {"open", "enqueue", "mark", "abandon", "endThread"},
                 NEW n \in Msgs
          PROVE  /\ <<Call(op, n)>> \in Seq(CallSet)
                 /\ Forgets(<<Call(op, n)>>) = {}
      <3>1. op \in Ops
        BY <2>1 DEF Ops
      <3>2. Call(op, n) \in CallSet
        BY <3>1, CallType
      <3>3. <<Call(op, n)>> \in Seq(CallSet)
        BY <3>2
      <3> QED
        BY <3>3, CallEnds
    <2>2. <<>> \in Seq(CallSet) /\ Forgets(<<>>) = {}
      BY NoCalls
    <2>3. CASE AbandonTurn(p)
      <3>1. Return(p, <<Call("endThread", m)>>)
        BY <2>3 DEF AbandonTurn
      <3>2. EndsThread(<<Call("endThread", m)>>) = {m}
        BY CallEnds
      <3> QED
        BY <1>1, <2>1, <3>1, <3>2
    <2>4. CASE ~AbandonTurn(p)
      <3>1. \/ Return(p, <<>>)
            \/ \E op \in {"open", "enqueue", "mark", "abandon"} :
                 Return(p, <<Call(op, m)>>)
            \/ waiting # <<>> /\ Return(p, <<Call("open", Head(waiting))>>)
        BY <2>4 DEF Admit, PassUngated, TakeSlot, Refuse, Park, TurnSlotFreed,
                    StartTurnFails, SendTurn, Enqueue, MarkQueued, Forget
      <3>2. waiting # <<>> => Head(waiting) \in Msgs
        BY HeadTailProperties DEF TypeOK, QueuesOK
      <3> QED
        BY <1>1, <2>1, <2>2, <2>4, <3>1, <3>2
    <2> QED
      BY <2>3, <2>4
  <1>5. \A n \in turns : n \in turns' \/ n \in Closing' \/ n \in Forgetting
    <2>1. /\ EndsThread(calls) \subseteq Closing'
          /\ At(p, "forget") => m \in Closing' \/ m \in Forgetting
      BY <1>1, <1>4, ReturnHolds
    <2>2. CASE AbandonTurn(p)
      BY <1>4, <2>1, <2>2 DEF AbandonTurn
    <2>3. CASE Forget(p)
      BY <2>1, <2>3 DEF Forget
    <2>4. CASE \/ Admit(p) \/ TurnSlotFreed(p) \/ StartTurnFails(p)
               \/ SendTurn(p) \/ Enqueue(p) \/ MarkQueued(p)
      BY <2>4 DEF Admit, TurnSlotFreed, StartTurnFails, SendTurn, Enqueue,
                  MarkQueued, turnVars
    <2> QED
      BY <2>2, <2>3, <2>4
  <1>6. Holders \subseteq Holders'
    BY <1>1, <1>2, <1>4, <1>5, ReturnKeepsHolders
  <1> QED
    BY <1>3, <1>6, HoldersKept

(* A thread that is reserved has its message in the pump's hand.           *)
LEMMA OnMessageHeld ==
  ASSUME TypeOK, PlacesInv, HeldOK, OnMessage
  PROVE  HeldOK'
  <1> DEFINE m == arrived + 1
  <1>1. Ahead \subseteq Ahead' /\ (UNCHANGED threadActive \/ m \in Ahead')
    BY OnMessagePlaces, Zenon
  <1>2. /\ threadActive' \subseteq threadActive \cup {thread[m]}
        /\ UNCHANGED <<thread, turns>>
        /\ (UNCHANGED todo \/ Start(Pump, <<Call("admit", m)>>))
        /\ todo[Pump] = <<>>
    BY DEF OnMessage, BeginThreadTurn, turnVars, Idle
  <1>3. Pump \in Procs /\ CallsOK
    BY BoundsAssumption DEF Pump, Procs, TypeOK
  <1>4. Closing \subseteq Closing' /\ Forgetting' \subseteq Forgetting
    <2>1. CASE UNCHANGED todo
      BY <2>1 DEF Closing, Forgetting
    <2>2. CASE Start(Pump, <<Call("admit", m)>>)
      <3>1. Forgets(<<Call("admit", m)>>) = {}
        BY CallEnds
      <3> QED
        BY <1>2, <1>3, <2>2, <3>1, StartHolds
    <2> QED
      BY <1>2, <2>1, <2>2
  <1>5. Holders \subseteq Holders'
    BY <1>1, <1>2, <1>4 DEF Holders
  <1>6. ASSUME NEW u \in threadActive'
        PROVE  \E n \in Holders' : thread[n] = u
    <2>1. CASE u \in threadActive
      BY <1>5, <2>1 DEF HeldOK
    <2>2. CASE u \notin threadActive
      BY <1>1, <1>2, <1>6, <2>2 DEF Holders
    <2> QED
      BY <2>1, <2>2
  <1> QED
    BY <1>2, <1>6 DEF HeldOK

(* Steps that make no call and end no turn, and steps that start the calls *)
(* with which a turn ends.                                                 *)
LEMMA QuietHeld ==
  ASSUME HeldOK, UNCHANGED <<thread, threadActive, turns, todo>>, Ahead' = Ahead
  PROVE  HeldOK'
  <1>1. Holders' = Holders
    BY DEF Holders, Closing, Forgetting
  <1> QED
    BY <1>1, HoldersKept

\* A process that starts to end turns keeps what is held.
LEMMA StartHeld ==
  ASSUME CallsOK, HeldOK, NEW p \in Procs, todo[p] = <<>>, NEW calls,
         Start(p, calls), UNCHANGED <<thread, threadActive>>, Ahead' = Ahead,
         Forgets(calls) \subseteq EndsThread(calls),
         \A m \in turns : m \in turns' \/ m \in EndsThread(calls)
  PROVE  HeldOK'
  <1>1. /\ Closing \subseteq Closing' /\ EndsThread(calls) \subseteq Closing'
        /\ Forgetting' \subseteq Forgetting
    BY StartHolds
  <1>2. Holders \subseteq Holders'
    BY <1>1 DEF Holders
  <1> QED
    BY <1>2, HoldersKept

(* The calls with which a turn ends release its thread.                    *)
LEMMA FinishEnds ==
  ASSUME NEW m, NEW kind
  PROVE  /\ Forgets(Finish(m, kind)) \subseteq EndsThread(Finish(m, kind))
         /\ Forgets(<<Call("error", m), Call("endThread", m)>>) = {}
         /\ EndsThread(<<Call("error", m), Call("endThread", m)>>) = {m}
  <1>1. \A op : Call(op, m).op = op /\ Call(op, m).msg = m
    BY DEF Call
  <1>2. \A a, b, c : ToSet(<<a, b, c>>) = {a, b, c}
    BY DEF ToSet
  <1>3. \A a, b : ToSet(<<a, b>>) = {a, b}
    BY DEF ToSet
  <1>4. \/ ToSet(Finish(m, kind)) =
             {Call("done", m), Call("endThread", m), Call("forget", m)}
        \/ ToSet(Finish(m, kind)) =
             {Call("forget", m), Call("error", m), Call("endThread", m)}
    BY <1>2 DEF Finish
  <1>5. ToSet(<<Call("error", m), Call("endThread", m)>>) =
          {Call("error", m), Call("endThread", m)}
    BY <1>3
  <1> QED
    BY <1>1, <1>4, <1>5 DEF Forgets, EndsThread

(* A step of a connection's goroutine.                                     *)
LEMMA ServeHeld ==
  ASSUME TypeOK, PlacesInv, HeldOK, NEW c \in Conns, Serve(c)
  PROVE  HeldOK'
  <1>1. c \in Procs /\ CallsOK /\ Ahead' = Ahead
    BY ProcTypes, ServePlaces DEF TypeOK
  <1>2. UNCHANGED <<thread, threadActive>>
    BY DEF Serve, StartDrain, DrainSend, Drained, EndDrain, ReceiveFrame,
           HeartbeatTimeout, EndConn, RunnerReturned, StartReconcile, Reconcile,
           EndReconcile, inbound, queues
  <1>3. CASE \/ StartDrain(c) \/ EndDrain(c) \/ HeartbeatTimeout(c) \/ EndConn(c)
             \/ RunnerReturned(c) \/ StartReconcile(c) \/ EndReconcile(c)
    <2>1. UNCHANGED <<turns, todo>>
      BY <1>3 DEF StartDrain, EndDrain, HeartbeatTimeout, EndConn, RunnerReturned,
                  StartReconcile, EndReconcile, turnVars
    <2> QED
      BY <1>1, <1>2, <2>1, QuietHeld
  <1>4. CASE DrainSend(c)
    <2>1. turns' = turns /\ todo[c] = <<>>
      BY <1>4 DEF DrainSend, turnVars, Idle
    <2>2. CASE UNCHANGED todo
      BY <1>1, <1>2, <2>1, <2>2, QuietHeld
    <2>3. CASE Start(c, <<Call("drained", Head(drain[c]))>>)
      <3>1. Forgets(<<Call("drained", Head(drain[c]))>>) = {}
        BY CallEnds
      <3> QED
        BY <1>1, <1>2, <2>1, <2>3, <3>1, StartHeld
    <2> QED
      BY <1>4, <2>2, <2>3 DEF DrainSend
  <1>5. CASE Drained(c)
    <2>1. /\ turns' = turns /\ Return(c, <<>>) /\ todo[c] # <<>>
          /\ ~At(c, "endThread")
      BY <1>5 DEF Drained, At
    <2>2. <<>> \in Seq(CallSet) /\ Forgets(<<>>) = {}
      BY NoCalls
    <2>3. Holders \subseteq Holders'
      BY <1>1, <2>1, <2>2, ReturnKeepsHolders
    <2> QED
      BY <1>2, <2>3, HoldersKept
  <1>6. CASE ReceiveFrame(c)
    <2> DEFINE f == Head(up[c])
    <2>1. /\ turns' = turns /\ todo[c] = <<>>
          /\ UNCHANGED todo \/ Start(c, Finish(f.msg, f.kind))
      BY <1>6 DEF ReceiveFrame, turnVars, Idle
    <2> HIDE DEF f
    <2>2. CASE UNCHANGED todo
      BY <1>1, <1>2, <2>1, <2>2, QuietHeld
    <2>3. CASE Start(c, Finish(f.msg, f.kind))
      <3>1. Forgets(Finish(f.msg, f.kind)) \subseteq EndsThread(Finish(f.msg, f.kind))
        BY FinishEnds
      <3> QED
        BY <1>1, <1>2, <2>1, <2>3, <3>1, StartHeld
    <2> QED
      BY <2>1, <2>2, <2>3
  <1>7. CASE Reconcile(c)
    <2>1. PICK m \in left[c] :
            IF m \in turns \ queued
            THEN /\ turns' = turns \ {m}
                 /\ Start(c, <<Call("error", m), Call("endThread", m)>>)
            ELSE UNCHANGED <<turns, todo>>
      BY <1>7 DEF Reconcile
    <2>2. todo[c] = <<>>
      BY <1>7 DEF Reconcile, Idle
    <2>3. CASE m \in turns \ queued
      <3>1. /\ Forgets(<<Call("error", m), Call("endThread", m)>>) = {}
            /\ EndsThread(<<Call("error", m), Call("endThread", m)>>) = {m}
        BY FinishEnds
      <3> QED
        BY <1>1, <1>2, <2>1, <2>2, <2>3, <3>1, StartHeld
    <2>4. CASE m \notin turns \ queued
      BY <1>1, <1>2, <2>1, <2>4, QuietHeld
    <2> QED
      BY <2>3, <2>4
  <1> QED
    BY <1>3, <1>4, <1>5, <1>6, <1>7 DEF Serve

(* The sweep of silent turns.                                              *)
LEMMA SweepHeld ==
  ASSUME TypeOK, PlacesInv, HeldOK, Sweep
  PROVE  HeldOK'
  <1>1. PICK m \in turns \ queued :
          /\ turns' = turns \ {m}
          /\ Start(Sweeper, <<Call("error", m), Call("endThread", m)>>)
    BY DEF Sweep
  <1>2. /\ UNCHANGED <<thread, threadActive>> /\ todo[Sweeper] = <<>>
        /\ Sweeper \in Procs /\ CallsOK /\ Ahead' = Ahead
    BY ProcTypes, SweepPlaces DEF Sweep, Idle, TypeOK, inbound, queues
  <1>3. /\ Forgets(<<Call("error", m), Call("endThread", m)>>) = {}
        /\ EndsThread(<<Call("error", m), Call("endThread", m)>>) = {m}
    BY FinishEnds
  <1> QED
    BY <1>1, <1>2, <1>3, StartHeld
(***************************************************************************)
(* endThreadTurn is still to come for a message of every held thread, or   *)
(* one of its messages was given up before that.                           *)
(***************************************************************************)
THEOREM HeldInvariant == Spec => []HeldOK
  <1>1. Init => HeldOK
    BY DEF Init, HeldOK
  <1>2. TypeOK /\ PlacesInv /\ HeldOK /\ [Next]_vars => HeldOK'
    <2> SUFFICES ASSUME TypeOK, PlacesInv, HeldOK, [Next]_vars PROVE HeldOK'
      OBVIOUS
    <2>1. CASE OnMessage
      BY <2>1, OnMessageHeld
    <2>2. CASE \E p \in Procs : Step(p)
      BY <2>2, EndThreadTurnHeld, OpenTurnHeld, CallHeld DEF Step
    <2>3. ASSUME NEW c \in Conns, Serve(c) \/ Connect(c) \/ Deliver(c) \/ Break(c)
          PROVE  HeldOK'
      <3>1. CASE Serve(c)
        BY <3>1, ServeHeld
      <3>2. CASE Connect(c) \/ Deliver(c) \/ Break(c)
        <4>1. /\ UNCHANGED <<inbound, queues, row, todo, restarts>>
              /\ turns' = turns
          BY <3>2 DEF Connect, Deliver, Break, turnVars
        <4> QED
          BY <4>1, QuietPlaces, QuietHeld DEF inbound, queues
      <3> QED
        BY <2>3, <3>1, <3>2
    <2>4. CASE Sweep
      BY <2>4, SweepHeld
    <2>5. CASE RunnerEnds \/ UNCHANGED vars
      <3>1. UNCHANGED <<inbound, queues, row, todo, restarts>> /\ turns' = turns
        BY <2>5 DEF RunnerEnds, vars, turnVars
      <3> QED
        BY <3>1, QuietPlaces, QuietHeld DEF inbound, queues
    <2>6. CASE Restart
      BY <2>6 DEF Restart, HeldOK
    <2> QED
      BY <2>1, <2>2, <2>3, <2>4, <2>5, <2>6 DEF Next
  <1> QED
    BY <1>1, <1>2, TypeCorrect, PlacesInvariant, PTL DEF Spec

(* A message that has the end of its thread's turn before it holds the     *)
(* thread, unless it was given up.                                         *)
LEMMA HolderHolds ==
  ASSUME TypeOK, PlacesInv, NEW m \in Holders \ dropped
  PROVE  m \in Msgs /\ Holds(m, thread[m])
  <1>1. CASE m \in InHands
    <2>1. m \in Msgs
      BY <1>1, BoundsAssumption DEF PlacesInv, Arrived, TypeOK, InboundOK, Msgs
    <2>2. InHand(m)
      BY <1>1, <2>1, HandsAreCalls
    <2> QED
      BY <2>1, <2>2 DEF InHand, Holds
  <1>2. CASE m \in AtRunner
    <2>1. m \in Msgs
      BY <1>2, BoundsAssumption DEF PlacesInv, Arrived, TypeOK, InboundOK, Msgs
    <2> QED
      BY <1>2, <2>1 DEF AtRunner, ParkedAtRunner, Holds
  <1>3. CASE m \in Closing
    <2>1. PICK p \in Procs : m \in EndsThread(todo[p])
      BY <1>3 DEF Closing
    <2>2. PICK k \in ToSet(todo[p]) : k.msg = m
      BY <2>1 DEF EndsThread
    <2>3. todo[p] \in Seq(CallSet)
      BY DEF TypeOK, CallsOK
    <2>4. PICK i \in 1 .. Len(todo[p]) : todo[p][i] = k
      BY <2>2, <2>3, LenProperties DEF ToSet
    <2>5. k \in CallSet
      BY <2>3, <2>4, ElementOfSeq
    <2>6. m \in Msgs
      BY <2>2, <2>5 DEF CallSet
    <2> QED
      BY <2>2, <2>4, <2>6 DEF Holds
  <1>4. CASE m \in turns
    BY <1>4 DEF Holds, TypeOK, TurnsOK
  <1> QED
    BY <1>1, <1>2, <1>3, <1>4 DEF Holders, Ahead, Waits

(***************************************************************************)
(* A thread is held by a message that will end its turn: as long as admit  *)
(* has refused no message and no turn's row failed to be written, whatever *)
(* finishes turns twice, breaks or restarts.  The messages those two give  *)
(* up are the only ones that wedge a thread.                               *)
(***************************************************************************)
THEOREM ThreadHasTurnCorrect == Spec => [](dropped = {} => ThreadHasTurn)
  <1>1. TypeOK /\ PlacesInv /\ HeldOK => (dropped = {} => ThreadHasTurn)
    <2> SUFFICES ASSUME TypeOK, PlacesInv, HeldOK, dropped = {},
                        NEW t \in threadActive
                 PROVE  \E m \in Msgs : Holds(m, t)
      BY DEF ThreadHasTurn
    <2>1. PICK m \in Holders : thread[m] = t
      BY DEF HeldOK
    <2> QED
      BY <2>1, HolderHolds
  <1> QED
    BY <1>1, TypeCorrect, PlacesInvariant, HeldInvariant, PTL

(***************************************************************************)
(* Thread by thread: a held thread no message of which was given up has a  *)
(* message that will end its turn.                                         *)
(***************************************************************************)
THEOREM OnlyGivenUpWedges ==
  Spec => [](\A t \in threadActive :
               \/ \E m \in dropped : thread[m] = t
               \/ \E m \in Msgs : Holds(m, t))
  <1> DEFINE Wedged == \A t \in threadActive :
                         \/ \E m \in dropped : thread[m] = t
                         \/ \E m \in Msgs : Holds(m, t)
  <1>1. TypeOK /\ PlacesInv /\ HeldOK => Wedged
    <2> SUFFICES ASSUME TypeOK, PlacesInv, HeldOK, NEW t \in threadActive,
                        ~\E m \in dropped : thread[m] = t
                 PROVE  \E m \in Msgs : Holds(m, t)
      OBVIOUS
    <2>1. PICK m \in Holders : thread[m] = t
      BY DEF HeldOK
    <2>2. m \notin dropped
      BY <2>1
    <2> QED
      BY <2>1, <2>2, HolderHolds
  <1> HIDE DEF Wedged
  <1>2. Spec => []Wedged
    BY <1>1, TypeCorrect, PlacesInvariant, HeldInvariant, PTL
  <1> QED
    BY <1>2 DEF Wedged
-----------------------------------------------------------------------------
(* While the runner stays connected *)

(***************************************************************************)
(* The runner is connected from the start and stays so, the gateway does   *)
(* not restart, there is a cap, and a connection's send queue has room for *)
(* every turn the cap allows.  A connection that nobody displaces has the  *)
(* number 1.                                                               *)
(***************************************************************************)
Steady ==
  /\ StartsOnline /\ MaxConns = 1 /\ MaxRestarts = 0
  /\ MaxConcurrent > 0 /\ MaxConcurrent <= OutCap

LinkOK ==
  hub = 1 /\ closed[1] = FALSE /\ alive[1] = TRUE /\ phase[1] = "read"

\* The calls with which the connection's goroutine ends a turn: those that have
\* the turn's row still to write, those that have its thread still to release.
Unwritten(m) ==
  { <<Call("done", m), Call("endThread", m), Call("forget", m)>>,
    <<Call("forget", m), Call("error", m), Call("endThread", m)>>,
    <<Call("error", m), Call("endThread", m)>> }
Written(m) ==
  { <<Call("endThread", m), Call("forget", m)>>, <<Call("endThread", m)>> }
Forgotten(m) ==
  { <<Call("error", m), Call("endThread", m)>>, <<Call("endThread", m)>> }
Endings(m) == Unwritten(m) \cup Written(m) \cup {<<Call("forget", m)>>}

\* Below at most one call to take or to send a message, the connection's stack
\* is what is left of the end of one turn, and every other stack is empty.
Light == {"admit", "open", "send"}
Below(stack) == IF stack # <<>> /\ Head(stack).op \in Light THEN Tail(stack)
                                                           ELSE stack
Base == Below(todo[1])

ShapeOK ==
  /\ \A p \in Procs \ {1} : Below(todo[p]) = <<>>
  /\ Base # <<>> => \E m \in Msgs : Base \in Endings(m)
  /\ \A p \in Procs : At(p, "send") => Head(todo[p]).conn = 1

\* What the processes are about to send and to open.
ToSend(stack) ==
  IF stack # <<>> /\ Head(stack).op = "send" THEN Head(stack).msg ELSE 0
ToOpen(stack) ==
  IF stack # <<>> /\ Head(stack).op = "open" THEN Head(stack).msg ELSE 0
Senders == [p \in Procs |-> ToSend(todo[p])]
Openers == [p \in Procs |-> ToOpen(todo[p])]
Sending == {Senders[p] : p \in Procs} \ {0}
Opening == {Openers[p] : p \in Procs} \ {0}

\* The stages of a running turn after that.
OnWire    == ToSet(out[1])
MsgsOf(frames) == {f.msg : f \in ToSet(frames)}
Reported  == MsgsOf(up[1])
Ending    == {m \in Msgs : Base \in Unwritten(m)}
Releasing == {m \in Msgs : Base \in Unwritten(m) \cup Written(m)}
Running   == {m \in Msgs : row[m] = "running"}

OneSender == \A p, q \in Procs : Senders[p] = Senders[q] /\ Senders[p] # 0 => p = q
Once(frames) ==
  \A i, j \in DOMAIN frames : frames[i].msg = frames[j].msg => i = j

\* A running turn is in exactly one of them, once.
StagesOK ==
  /\ Running = Sending \cup OnWire \cup running \cup Reported \cup Ending
  /\ Sending \cap (OnWire \cup running \cup Reported \cup Ending) = {}
  /\ OnWire \cap (running \cup Reported \cup Ending) = {}
  /\ running \cap (Reported \cup Ending) = {}
  /\ Reported \cap Ending = {}
  /\ OneSender /\ IsInjective(out[1]) /\ Once(up[1])

\* An open turn is in the map until its end has begun, and out of it in the end.
MapOK ==
  /\ Running \ Ending \subseteq turns
  /\ \A m \in turns : m \in Running \/ Base \in Endings(m)
  /\ \A m \in Msgs : Base \in Forgotten(m) => m \notin turns
  /\ \A m \in Msgs : Base \in Written(m) \cup {<<Call("forget", m)>>} =>
       row[m] \in {"done", "error"}

\* Every running turn and every turn about to be opened has its slot.
SlotsOK == Cardinality(Running \cup Opening) <= active

\* A thread has one message under way, behind all that came before it and ahead
\* of what is parked, in the order it came.
Current == Ahead \cup Running \cup Releasing
OrderOK ==
  /\ \A m, n \in Current : thread[m] = thread[n] => m = n
  /\ \A m \in Current : thread[m] \in threadActive
  /\ \A m \in Waits : \A n \in Msgs :
       n < m /\ thread[n] = thread[m] => row[n] \in {"done", "error"}
  /\ \A t \in Threads : \A i, j \in DOMAIN threadWaiting[t] :
       i < j => threadWaiting[t][i] < threadWaiting[t][j]

SteadyInv == LinkOK /\ ShapeOK /\ StagesOK /\ MapOK /\ SlotsOK /\ OrderOK

-----------------------------------------------------------------------------
(* The stacks of a connected runner's gateway *)

\* What a process can have below a call to take or to send a message.
Bottom(p, base) ==
  /\ base \in Seq(CallSet)
  /\ base = <<>> \/ (p = 1 /\ \E m \in Msgs : base \in Endings(m))

(* The only connection is number 1.                                        *)
LEMMA SteadyConns == Steady => Conns = {1} /\ 1 \in Procs /\ 0 \in Procs
  BY DEF Steady, Conns, Procs

(* The end of a turn, call by call.                                        *)
LEMMA EndingSteps ==
  ASSUME NEW m, NEW b \in Endings(m)
  PROVE  /\ b # <<>> /\ Head(b).msg = m /\ Head(b).op \notin Light
         /\ Head(b).op \in {"done", "error"} =>
              /\ b \in Unwritten(m) /\ Tail(b) \in Written(m)
              /\ (b \in Forgotten(m)) = (Tail(b) \in Forgotten(m))
         /\ Head(b).op = "endThread" =>
              /\ b \in Written(m)
              /\ \/ Tail(b) = <<>> /\ b \in Forgotten(m)
                 \/ Tail(b) = <<Call("forget", m)>>
         /\ Head(b).op = "forget" =>
              \/ b \in Unwritten(m) /\ Tail(b) \in Unwritten(m)
              \/ b = <<Call("forget", m)>> /\ Tail(b) = <<>>
         /\ Head(b).op \in {"done", "error", "endThread", "forget"}
  <1> DEFINE d == Call("done", m)
             e == Call("error", m)
             t == Call("endThread", m)
             f == Call("forget", m)
  <1>1. /\ d.op = "done" /\ e.op = "error" /\ t.op = "endThread" /\ f.op = "forget"
        /\ d.msg = m /\ e.msg = m /\ t.msg = m /\ f.msg = m
    BY DEF Call
  <1>2. /\ Unwritten(m) = {<<d, t, f>>, <<f, e, t>>, <<e, t>>}
        /\ Written(m) = {<<t, f>>, <<t>>} /\ Forgotten(m) = {<<e, t>>, <<t>>}
    BY DEF Unwritten, Written, Forgotten
  <1>3. b \in {<<d, t, f>>, <<f, e, t>>, <<e, t>>, <<t, f>>, <<t>>, <<f>>}
    BY <1>2 DEF Endings
  <1> HIDE DEF d, e, t, f
  <1>4. CASE b = <<d, t, f>>
    <2>1. Head(b) = d /\ Tail(b) = <<t, f>> /\ b # <<>>
      BY <1>4
    <2>2. b \notin Forgotten(m) /\ Tail(b) \notin Forgotten(m)
      BY <1>1, <1>2, <1>4, <2>1
    <2> QED
      BY <1>1, <1>2, <1>4, <2>1, <2>2 DEF Light
  <1>5. CASE b = <<f, e, t>>
    <2>1. Head(b) = f /\ Tail(b) = <<e, t>> /\ b # <<>>
      BY <1>5
    <2> QED
      BY <1>1, <1>2, <1>5, <2>1 DEF Light
  <1>6. CASE b = <<e, t>>
    <2>1. Head(b) = e /\ Tail(b) = <<t>> /\ b # <<>>
      BY <1>6
    <2> QED
      BY <1>1, <1>2, <1>6, <2>1 DEF Light
  <1>7. CASE b = <<t, f>>
    <2>1. Head(b) = t /\ Tail(b) = <<f>> /\ b # <<>>
      BY <1>7
    <2> QED
      BY <1>1, <1>2, <1>7, <2>1 DEF Light, f
  <1>8. CASE b = <<t>>
    <2>1. Head(b) = t /\ Tail(b) = <<>> /\ b # <<>>
      BY <1>8
    <2> QED
      BY <1>1, <1>2, <1>8, <2>1 DEF Light
  <1>9. CASE b = <<f>>
    <2>1. Head(b) = f /\ Tail(b) = <<>> /\ b # <<>>
      BY <1>9
    <2> QED
      BY <1>1, <1>2, <1>9, <2>1 DEF Light, f
  <1> QED
    BY <1>3, <1>4, <1>5, <1>6, <1>7, <1>8, <1>9

(* What ends one turn ends no other.                                       *)
LEMMA OneEnding ==
  ASSUME NEW m, NEW n, NEW b, b \in Endings(m), b \in Endings(n)
  PROVE  m = n
  <1>1. Head(b).msg = m
    BY EndingSteps
  <1>2. Head(b).msg = n
    BY EndingSteps
  <1> QED
    BY <1>1, <1>2

(* The kinds of endings.                                                   *)
LEMMA EndingKinds ==
  ASSUME NEW m
  PROVE  /\ Unwritten(m) \subseteq Endings(m) /\ Written(m) \subseteq Endings(m)
         /\ Forgotten(m) \subseteq Endings(m) /\ <<Call("forget", m)>> \in Endings(m)
         /\ <<>> \notin Endings(m)
         /\ \A kind : Finish(m, kind) \in Unwritten(m) \ Forgotten(m)
         /\ Unwritten(m) \cap Written(m) = {}
         /\ <<Call("forget", m)>> \notin
              Unwritten(m) \cup Written(m) \cup Forgotten(m)
  BY DEF Endings, Unwritten, Written, Forgotten, Finish, Call

(* What is below has no call to take or to send a message on top.          *)
LEMMA BottomPlain ==
  ASSUME NEW p, NEW base, Bottom(p, base)
  PROVE  /\ Below(base) = base
         /\ ToSend(base) = 0 /\ ToOpen(base) = 0
  <1>1. base # <<>> => Head(base).op \notin Light
    BY EndingSteps DEF Bottom
  <1> QED
    BY <1>1 DEF Below, ToSend, ToOpen, Light

(* A process that is left with a bottom.                                   *)
LEMMA LeftBottom ==
  ASSUME Steady, CallsOK, ShapeOK, NEW p \in Procs, NEW base, Bottom(p, base),
         Start(p, base)
  PROVE  /\ ShapeOK'
         /\ Base' = IF p = 1 THEN base ELSE Base
         /\ Senders' = [Senders EXCEPT ![p] = 0]
         /\ Openers' = [Openers EXCEPT ![p] = 0]
  <1>0. base # <<>> => p = 1 /\ \E m \in Msgs : base \in Endings(m)
    BY DEF Bottom
  <1>1. Below(base) = base /\ ToSend(base) = 0 /\ ToOpen(base) = 0
    BY BottomPlain
  <1>2. 1 \in Procs
    BY SteadyConns
  <1>3. \A q \in Procs : todo'[q] = IF q = p THEN base ELSE todo[q]
    BY DEF CallsOK, Start
  <1>4. Senders' = [Senders EXCEPT ![p] = 0] /\ Openers' = [Openers EXCEPT ![p] = 0]
    <2>1. Senders' = [Senders EXCEPT ![p] = 0]
      BY <1>1, <1>3 DEF Senders
    <2>2. Openers' = [Openers EXCEPT ![p] = 0]
      BY <1>1, <1>3 DEF Openers
    <2> QED
      BY <2>1, <2>2
  <1>5. Base' = IF p = 1 THEN base ELSE Base
    BY <1>1, <1>2, <1>3 DEF Base
  <1>6. \A q \in Procs \ {1} : Below(todo'[q]) = <<>>
    BY <1>0, <1>1, <1>3 DEF ShapeOK
  <1>7. Base' # <<>> => \E m \in Msgs : Base' \in Endings(m)
    BY <1>0, <1>5 DEF ShapeOK
  <1>8. \A q \in Procs : todo'[q] # <<>> /\ Head(todo'[q]).op = "send"
                           => Head(todo'[q]).conn = 1
    <2>1. base # <<>> => Head(base).op # "send"
      BY <1>0, EndingSteps DEF Light
    <2> QED
      BY <1>3, <2>1 DEF ShapeOK, At
  <1> QED
    BY <1>4, <1>5, <1>6, <1>7, <1>8 DEF ShapeOK, At

(* A process that is left with a call to take or to send a message.        *)
LEMMA LeftLight ==
  ASSUME Steady, CallsOK, ShapeOK, NEW p \in Procs, NEW base, Bottom(p, base),
         NEW k \in CallSet, k.op \in Light, k.op = "send" => k.conn = 1,
         Start(p, <<k>> \o base)
  PROVE  /\ ShapeOK'
         /\ Base' = IF p = 1 THEN base ELSE Base
         /\ Senders' = [Senders EXCEPT ![p] = IF k.op = "send" THEN k.msg ELSE 0]
         /\ Openers' = [Openers EXCEPT ![p] = IF k.op = "open" THEN k.msg ELSE 0]
  <1> DEFINE stack == <<k>> \o base
  <1>1. stack # <<>> /\ Head(stack) = k /\ Tail(stack) = base
    BY PutOnTop DEF Bottom
  <1>2. base # <<>> => p = 1 /\ \E m \in Msgs : base \in Endings(m)
    BY DEF Bottom
  <1> HIDE DEF stack
  <1>3. 1 \in Procs
    BY SteadyConns
  <1>4. \A q \in Procs : todo'[q] = IF q = p THEN stack ELSE todo[q]
    BY DEF CallsOK, Start, stack
  <1>5. /\ Below(stack) = base
        /\ ToSend(stack) = IF k.op = "send" THEN k.msg ELSE 0
        /\ ToOpen(stack) = IF k.op = "open" THEN k.msg ELSE 0
    BY <1>1 DEF Below, ToSend, ToOpen
  <1>6. /\ Senders' = [Senders EXCEPT ![p] = IF k.op = "send" THEN k.msg ELSE 0]
        /\ Openers' = [Openers EXCEPT ![p] = IF k.op = "open" THEN k.msg ELSE 0]
    <2>1. Senders' = [Senders EXCEPT ![p] = IF k.op = "send" THEN k.msg ELSE 0]
      BY <1>4, <1>5 DEF Senders
    <2>2. Openers' = [Openers EXCEPT ![p] = IF k.op = "open" THEN k.msg ELSE 0]
      BY <1>4, <1>5 DEF Openers
    <2> QED
      BY <2>1, <2>2
  <1>7. Base' = IF p = 1 THEN base ELSE Base
    BY <1>3, <1>4, <1>5 DEF Base
  <1>8. \A q \in Procs \ {1} : Below(todo'[q]) = <<>>
    BY <1>2, <1>4, <1>5 DEF ShapeOK
  <1>9. Base' # <<>> => \E m \in Msgs : Base' \in Endings(m)
    BY <1>2, <1>7 DEF ShapeOK
  <1>10. \A q \in Procs : todo'[q] # <<>> /\ Head(todo'[q]).op = "send"
                            => Head(todo'[q]).conn = 1
    BY <1>1, <1>4 DEF ShapeOK, At
  <1> QED
    BY <1>6, <1>7, <1>8, <1>9, <1>10 DEF ShapeOK, At

(* What a process about to take or to send a message has.                  *)
LEMMA LightTop ==
  ASSUME Steady, CallsOK, ShapeOK, NEW p \in Procs, todo[p] # <<>>,
         Head(todo[p]).op \in Light
  PROVE  /\ Bottom(p, Tail(todo[p])) /\ (p = 1 => Base = Tail(todo[p]))
         /\ Senders[p] = (IF Head(todo[p]).op = "send" THEN Msg(p) ELSE 0)
         /\ Openers[p] = (IF Head(todo[p]).op = "open" THEN Msg(p) ELSE 0)
  <1>1. Tail(todo[p]) \in Seq(CallSet)
    BY HeadTailProperties DEF CallsOK
  <1>2. Below(todo[p]) = Tail(todo[p])
    BY DEF Below
  <1>3. p = 1 => Base = Tail(todo[p])
    BY <1>2 DEF Base
  <1>4. Bottom(p, Tail(todo[p]))
    BY <1>1, <1>2, <1>3 DEF Bottom, ShapeOK
  <1>5. Senders[p] = (IF Head(todo[p]).op = "send" THEN Msg(p) ELSE 0)
    BY DEF Senders, ToSend, Msg
  <1>6. Openers[p] = (IF Head(todo[p]).op = "open" THEN Msg(p) ELSE 0)
    BY DEF Openers, ToOpen, Msg
  <1> QED
    BY <1>3, <1>4, <1>5, <1>6

(* Any other call is one of the end of a turn, by the connection.          *)
LEMMA BaseTop ==
  ASSUME Steady, CallsOK, ShapeOK, NEW p \in Procs, todo[p] # <<>>,
         Head(todo[p]).op \notin Light
  PROVE  /\ p = 1 /\ Base = todo[p] /\ Senders[p] = 0 /\ Openers[p] = 0
         /\ Msg(p) \in Msgs /\ Base \in Endings(Msg(p))
         /\ Bottom(p, Tail(todo[p]))
  <1>1. Below(todo[p]) = todo[p]
    BY DEF Below
  <1>2. p = 1 /\ Base = todo[p]
    BY <1>1 DEF ShapeOK, Base
  <1>3. Senders[p] = 0
    BY DEF Senders, ToSend, Light
  <1>4. Openers[p] = 0
    BY DEF Openers, ToOpen, Light
  <1>5. PICK m \in Msgs : Base \in Endings(m)
    BY <1>2 DEF ShapeOK
  <1>6. m = Msg(p)
    BY <1>2, <1>5, EndingSteps DEF Msg
  <1>7. Tail(todo[p]) \in Seq(CallSet)
    BY HeadTailProperties DEF CallsOK
  <1>8. Tail(Base) = <<>> \/ Tail(Base) \in Endings(m)
    <2>1. Head(Base).op \in {"done", "error", "endThread", "forget"}
      BY <1>5, EndingSteps
    <2>2. CASE Head(Base).op \in {"done", "error"}
      <3>1. Tail(Base) \in Written(m)
        BY <1>5, <2>2, EndingSteps
      <3> QED
        BY <3>1, EndingKinds
    <2>3. CASE Head(Base).op = "endThread"
      <3>1. Tail(Base) = <<>> \/ Tail(Base) = <<Call("forget", m)>>
        BY <1>5, <2>3, EndingSteps
      <3> QED
        BY <3>1, EndingKinds
    <2>4. CASE Head(Base).op = "forget"
      <3>1. Tail(Base) = <<>> \/ Tail(Base) \in Unwritten(m)
        BY <1>5, <2>4, EndingSteps
      <3> QED
        BY <3>1, EndingKinds
    <2> QED
      BY <2>1, <2>2, <2>3, <2>4
  <1>9. Bottom(p, Tail(todo[p]))
    BY <1>2, <1>7, <1>8 DEF Bottom
  <1> QED
    BY <1>2, <1>3, <1>4, <1>5, <1>6, <1>9

(* A process with nothing to do has nothing.                               *)
LEMMA IdleTop ==
  ASSUME NEW p \in Procs, todo[p] = <<>>
  PROVE  /\ Bottom(p, <<>>) /\ (p = 1 => Base = <<>>)
         /\ Senders[p] = 0 /\ Openers[p] = 0
  <1>1. Senders[p] = 0
    BY DEF Senders, ToSend
  <1>2. Openers[p] = 0
    BY DEF Openers, ToOpen
  <1>3. Bottom(p, <<>>)
    BY EmptySeq DEF Bottom
  <1>4. p = 1 => Base = <<>>
    BY DEF Base, Below
  <1> QED
    BY <1>1, <1>2, <1>3, <1>4

(* A call to take or to send a message returns.                            *)
LEMMA LightReturns ==
  ASSUME Steady, CallsOK, ShapeOK, NEW p \in Procs, todo[p] # <<>>,
         Head(todo[p]).op \in Light, Return(p, <<>>)
  PROVE  /\ ShapeOK' /\ Base' = Base
         /\ Senders' = [Senders EXCEPT ![p] = 0]
         /\ Openers' = [Openers EXCEPT ![p] = 0]
  <1>1. Bottom(p, Tail(todo[p])) /\ (p = 1 => Base = Tail(todo[p]))
    BY LightTop
  <1>2. Start(p, Tail(todo[p]))
    <2>1. <<>> \o Tail(todo[p]) = Tail(todo[p])
      BY <1>1, PutNothing DEF Bottom
    <2> QED
      BY <2>1 DEF Return, Start
  <1> QED
    BY <1>1, <1>2, LeftBottom

(* It makes another.                                                       *)
LEMMA LightGoesOn ==
  ASSUME Steady, CallsOK, ShapeOK, NEW p \in Procs, todo[p] # <<>>,
         Head(todo[p]).op \in Light, NEW k \in CallSet, k.op \in Light,
         k.op = "send" => k.conn = 1, Return(p, <<k>>)
  PROVE  /\ ShapeOK' /\ Base' = Base
         /\ Senders' = [Senders EXCEPT ![p] = IF k.op = "send" THEN k.msg ELSE 0]
         /\ Openers' = [Openers EXCEPT ![p] = IF k.op = "open" THEN k.msg ELSE 0]
  <1>1. Bottom(p, Tail(todo[p])) /\ (p = 1 => Base = Tail(todo[p]))
    BY LightTop
  <1>2. Start(p, <<k>> \o Tail(todo[p]))
    BY DEF Return, Start
  <1> QED
    BY <1>1, <1>2, LeftLight

(* A call of the end of a turn returns.                                    *)
LEMMA BaseReturns ==
  ASSUME Steady, CallsOK, ShapeOK, NEW p \in Procs, todo[p] # <<>>,
         Head(todo[p]).op \notin Light, Return(p, <<>>)
  PROVE  ShapeOK' /\ Base' = Tail(Base) /\ Senders' = Senders /\ Openers' = Openers
  <1>1. /\ Bottom(p, Tail(todo[p])) /\ p = 1 /\ Base = todo[p]
        /\ Senders[p] = 0 /\ Openers[p] = 0
    BY BaseTop
  <1>2. Start(p, Tail(todo[p]))
    <2>1. <<>> \o Tail(todo[p]) = Tail(todo[p])
      BY <1>1, PutNothing DEF Bottom
    <2> QED
      BY <2>1 DEF Return, Start
  <1>3. /\ ShapeOK' /\ Base' = Tail(Base)
        /\ Senders' = [Senders EXCEPT ![p] = 0]
        /\ Openers' = [Openers EXCEPT ![p] = 0]
    BY <1>1, <1>2, LeftBottom
  <1>4. Senders' = Senders
    BY <1>1, <1>3 DEF Senders
  <1>5. Openers' = Openers
    BY <1>1, <1>3 DEF Openers
  <1> QED
    BY <1>3, <1>4, <1>5

(* It hands a message on.                                                  *)
LEMMA BaseGoesOn ==
  ASSUME Steady, CallsOK, ShapeOK, NEW p \in Procs, todo[p] # <<>>,
         Head(todo[p]).op \notin Light, NEW k \in CallSet,
         k.op \in Light \ {"send"}, Return(p, <<k>>)
  PROVE  /\ ShapeOK' /\ Base' = Tail(Base) /\ Senders' = Senders
         /\ Openers' = [Openers EXCEPT ![p] = IF k.op = "open" THEN k.msg ELSE 0]
         /\ Openers[p] = 0
  <1>1. /\ Bottom(p, Tail(todo[p])) /\ p = 1 /\ Base = todo[p]
        /\ Senders[p] = 0 /\ Openers[p] = 0
    BY BaseTop
  <1>2. Start(p, <<k>> \o Tail(todo[p]))
    BY DEF Return, Start
  <1>3. /\ ShapeOK' /\ Base' = Tail(Base)
        /\ Senders' = [Senders EXCEPT ![p] = 0]
        /\ Openers' = [Openers EXCEPT ![p] = IF k.op = "open" THEN k.msg ELSE 0]
    <2>1. k.op \in Light /\ k.op # "send"
      OBVIOUS
    <2> QED
      BY <1>1, <1>2, <2>1, LeftLight
  <1>4. Senders' = Senders
    BY <1>1, <1>3 DEF Senders
  <1> QED
    BY <1>1, <1>3, <1>4

-----------------------------------------------------------------------------
(* What a step leaves as it was *)

\* A step that moves no message between the stages of a turn keeps StagesOK.
LEMMA StagesKept ==
  ASSUME StagesOK, UNCHANGED <<out, up, running, row>>, Senders' = Senders,
         Ending' = Ending
  PROVE  StagesOK'
  <1>1. Running' = Running /\ Sending' = Sending /\ OnWire' = OnWire
    BY DEF Running, Sending, OnWire
  <1>2. Reported' = Reported /\ (Once(up[1]))'
    BY DEF Reported, StagesOK, MsgsOf, Once
  <1>3. OneSender' /\ (IsInjective(out[1]))'
    BY DEF StagesOK, OneSender
  <1> QED
    BY <1>1, <1>2, <1>3 DEF StagesOK

\* A step that writes no row and leaves the map keeps MapOK.
LEMMA MapKept ==
  ASSUME MapOK, UNCHANGED <<turns, row>>, Base' = Base
  PROVE  MapOK'
  <1>1. Running' = Running /\ Ending' = Ending
    BY DEF Running, Ending
  <1> QED
    BY <1>1 DEF MapOK

\* There are finitely many messages.
LEMMA MsgsFinite == IsFiniteSet(Msgs)
  BY BoundsAssumption, FS_Interval DEF Msgs

\* A step that brings no message nearer to running keeps SlotsOK.
LEMMA SlotsKept ==
  ASSUME TypeOK, SlotsOK, active' = active,
         Running' \cup Opening' \subseteq Running \cup Opening,
         Running \cup Opening \subseteq Msgs
  PROVE  SlotsOK'
  <1> DEFINE A == Running \cup Opening
             B == Running' \cup Opening'
  <1>1. IsFiniteSet(A)
    BY MsgsFinite, FS_Subset
  <1>2. IsFiniteSet(B) /\ Cardinality(B) <= Cardinality(A)
    BY <1>1, FS_Subset
  <1>3. Cardinality(A) \in Nat /\ Cardinality(B) \in Nat /\ active \in Nat
    BY <1>1, <1>2, FS_CardinalityType DEF TypeOK, QueuesOK
  <1> QED
    BY <1>2, <1>3 DEF SlotsOK

\* A step that brings no message into a thread keeps OrderOK.
LEMMA OrderKept ==
  ASSUME OrderOK, UNCHANGED <<thread, threadActive, threadWaiting>>,
         Current' \subseteq Current, Waits' \subseteq Waits,
         \A n \in Msgs : row[n] \in {"done", "error"} => row'[n] = row[n]
  PROVE  OrderOK'
  BY DEF OrderOK

(* The set of what is in one process's place and that of all.              *)
LEMMA OpeningChange ==
  ASSUME NEW p \in Procs, NEW x, Openers' = [Openers EXCEPT ![p] = x]
  PROVE  Opening' \subseteq Opening \cup ({x} \ {0})
  <1>1. \A q \in Procs : Openers'[q] = IF q = p THEN x ELSE Openers[q]
    BY DEF Openers
  <1> HIDE DEF Openers
  <1> QED
    BY <1>1 DEF Opening

\* The process that was sending a turn sends no more: one turn fewer is being
\* sent.
LEMMA SendingEnds ==
  ASSUME OneSender, NEW p \in Procs, Senders' = [Senders EXCEPT ![p] = 0]
  PROVE  Sending' = Sending \ {Senders[p]} /\ OneSender'
  <1>1. \A q \in Procs : Senders'[q] = IF q = p THEN 0 ELSE Senders[q]
    BY DEF Senders
  <1> HIDE DEF Senders
  <1>2. \A q \in Procs : q # p /\ Senders[q] # 0 => Senders[q] # Senders[p]
    BY DEF OneSender
  <1>3. OneSender'
    BY <1>1 DEF OneSender
  <1>4. Sending' = Sending \ {Senders[p]}
    BY <1>1, <1>2 DEF Sending
  <1> QED
    BY <1>3, <1>4

\* A process starts to send a turn.
LEMMA SendingStarts ==
  ASSUME OneSender, NEW p \in Procs, Senders[p] = 0, NEW m, m # 0, m \notin Sending,
         Senders' = [Senders EXCEPT ![p] = m]
  PROVE  Sending' = Sending \cup {m} /\ OneSender'
  <1>1. \A q \in Procs : Senders'[q] = IF q = p THEN m ELSE Senders[q]
    BY DEF Senders
  <1> HIDE DEF Senders
  <1>2. \A q \in Procs : Senders[q] # m
    BY DEF Sending
  <1>3. OneSender'
    BY <1>1, <1>2 DEF OneSender
  <1>4. Sending' = Sending \cup {m}
    BY <1>1 DEF Sending
  <1> QED
    BY <1>3, <1>4

(* A turn about to be opened is in a hand, and has no row.                 *)
LEMMA OpeningInHands == Opening \subseteq InHands
  <1> SUFFICES ASSUME NEW p \in Procs, Openers[p] # 0
               PROVE  Openers[p] \in InHands
    BY DEF Opening
  <1>1. Openers[p] = Hand[p]
    BY DEF Openers, ToOpen, Hand, Taken, Taking
  <1> QED
    BY <1>1, HandHolds

\* What runs, is being opened or waits are messages, and what runs waits no
\* more.
LEMMA PlacesAreMsgs ==
  ASSUME TypeOK, PlacesInv
  PROVE  Running \cup Opening \subseteq Msgs /\ Ahead \subseteq Msgs
         /\ Running \cap (Ahead \cup Opening \cup InThreads) = {}
  <1>1. Ahead \subseteq Msgs
    BY BoundsAssumption DEF PlacesInv, Arrived, TypeOK, InboundOK, Msgs, Ahead, Waits
  <1>2. Running \subseteq Opened
    BY DEF Running, Opened
  <1> QED
    BY <1>1, <1>2, OpeningInHands
       DEF Ahead, Waits, Running, PlacesInv, PlacesApart

-----------------------------------------------------------------------------
(* The gateway with a connected runner, step by step *)

\* What the calls that processes have to make leave of the parts.
LEMMA CallsKept ==
  ASSUME ShapeOK, todo' = todo
  PROVE  /\ ShapeOK' /\ Base' = Base /\ Senders' = Senders /\ Openers' = Openers
         /\ Ending' = Ending /\ Opening' = Opening
  <1>1. Base' = Base /\ Senders' = Senders /\ Openers' = Openers
    BY DEF Base, Senders, Openers
  <1>2. Ending' = Ending /\ Opening' = Opening
    BY <1>1 DEF Ending, Opening
  <1>3. ShapeOK'
    BY <1>1 DEF ShapeOK, At
  <1> QED
    BY <1>1, <1>2, <1>3

(* A message behind its thread is of that thread and waits in its queue.   *)
LEMMA Behind ==
  ASSUME TypeOK, PlacesInv, ParkedBehindTurn, NEW n \in InThreads
  PROVE  /\ n \in ToSet(threadWaiting[thread[n]]) /\ thread[n] \in Threads
         /\ thread[n] \in threadActive
  <1>1. PICK t \in Threads : n \in ToSet(threadWaiting[t])
    BY DEF InThreads
  <1>2. thread[n] = t
    BY <1>1 DEF PlacesInv, QueuesApart
  <1>3. threadWaiting[t] # <<>>
    BY <1>1 DEF ToSet
  <1> QED
    BY <1>1, <1>2, <1>3 DEF ParkedBehindTurn

(* Until its turn has ended, a message that has arrived waits behind its   *)
(* thread, or is the one its thread has under way.                         *)
LEMMA ArrivedIsSomewhere ==
  ASSUME Steady, TypeOK, PlacesInv, NEW n \in 1 .. arrived
  PROVE  \/ n \in InThreads \/ n \in Ahead \cup Running
         \/ row[n] \in {"done", "error"}
  <1>1. restarts = 0
    BY DEF Steady, TypeOK, RestartsOK
  <1>2. n \in InThreads \cup Ahead \cup Opened
    BY <1>1 DEF PlacesInv, Somewhere, Ahead, Waits
  <1>3. n \in Opened => n \in Running \/ row[n] \in {"done", "error"}
    BY DEF Opened, Running, TypeOK, TurnsOK, Statuses
  <1> QED
    BY <1>2, <1>3

\* A message comes, to its thread's queue or to the cap.
LEMMA OnMessageSteady ==
  ASSUME Steady, TypeOK, PlacesInv, ParkedBehindTurn, SteadyInv, OnMessage
  PROVE  SteadyInv'
  <1> DEFINE m == arrived + 1
             t == thread[m]
  <1>1. m \in Msgs /\ 1 .. m = (1 .. arrived) \cup {m} /\ arrived \in Nat
    BY BoundsAssumption DEF OnMessage, TypeOK, InboundOK, Msgs
  <1>2. t \in Threads
    BY <1>1 DEF TypeOK, InboundOK
  <1>3. /\ arrived' = m /\ UNCHANGED <<thread, active, row, turns, out, up, running>>
        /\ UNCHANGED <<hub, closed, alive, phase>>
        /\ BeginThreadTurn(m, t) /\ todo[Pump] = <<>>
    BY DEF OnMessage, turnVars, hubVars, connVars, runner, Idle
  <1>4. LinkOK'
    BY <1>3 DEF SteadyInv, LinkOK
  <1>5. Running' = Running /\ Pump \in Procs /\ Pump # 1
    BY <1>3, SteadyConns DEF Running, Pump
  <1>6. Running \cup Opening \subseteq Msgs
    BY PlacesAreMsgs
  <1>7. Ahead \subseteq 1 .. arrived /\ Running \subseteq 1 .. arrived
        /\ InThreads \subseteq 1 .. arrived
    BY DEF PlacesInv, Arrived, Ahead, Waits, Running, Opened
  <1> HIDE DEF m, t
  <1>8. CASE /\ t \in threadActive
             /\ threadWaiting' = [threadWaiting EXCEPT ![t] = Append(@, m)]
             /\ UNCHANGED <<threadActive, todo>>
    <2>1. /\ ShapeOK' /\ Base' = Base /\ Senders' = Senders /\ Openers' = Openers
          /\ Ending' = Ending /\ Opening' = Opening
      BY <1>8, CallsKept DEF SteadyInv
    <2>2. StagesOK' /\ MapOK' /\ SlotsOK'
      BY <1>3, <1>5, <1>6, <2>1, StagesKept, MapKept, SlotsKept DEF SteadyInv
    <2>3. Ahead' = Ahead /\ Waits' = Waits
      BY <1>8, OnMessagePlaces DEF m, t
    <2>4. Current' = Current
      BY <1>5, <2>1, <2>3 DEF Current, Releasing
    <2>5. threadWaiting \in [Threads -> Seq(Msgs)]
      BY DEF TypeOK, QueuesOK
    <2>6. \A u \in Threads : threadWaiting'[u] =
            IF u = t THEN Append(threadWaiting[t], m) ELSE threadWaiting[u]
      BY <1>8, <2>5
    <2>7. ASSUME NEW i \in 1 .. Len(threadWaiting[t]) + 1,
                 NEW j \in 1 .. Len(threadWaiting[t]) + 1, i < j
          PROVE  Append(threadWaiting[t], m)[i] < Append(threadWaiting[t], m)[j]
      <3> DEFINE s == threadWaiting[t]
      <3>1. /\ s \in Seq(Msgs) /\ Len(s) \in Nat /\ DOMAIN s = 1 .. Len(s)
            /\ \A l \in 1 .. Len(s) : Append(s, m)[l] = s[l]
            /\ Append(s, m)[Len(s) + 1] = m
        BY <1>1, <1>2, <2>5, AppendProperties, LenProperties
      <3>2. i \in 1 .. Len(s) /\ (j \in 1 .. Len(s) \/ j = Len(s) + 1)
        BY <2>7, <3>1
      <3>3. s[i] \in 1 .. arrived
        <4>1. s[i] \in ToSet(s)
          BY <3>1, <3>2 DEF ToSet
        <4>2. s[i] \in InThreads
          BY <1>2, <4>1 DEF InThreads
        <4> QED
          BY <1>7, <4>2
      <3>4. s[i] < m
        BY <1>1, <3>3 DEF m
      <3>5. j \in 1 .. Len(s) => s[i] < s[j]
        BY <1>2, <2>7, <3>1, <3>2 DEF SteadyInv, OrderOK
      <3> QED
        BY <3>1, <3>2, <3>4, <3>5
    <2>8. \A u \in Threads : \A i, j \in DOMAIN threadWaiting'[u] :
            i < j => threadWaiting'[u][i] < threadWaiting'[u][j]
      <3> SUFFICES ASSUME NEW u \in Threads, NEW i \in DOMAIN threadWaiting'[u],
                          NEW j \in DOMAIN threadWaiting'[u], i < j
                   PROVE  threadWaiting'[u][i] < threadWaiting'[u][j]
        OBVIOUS
      <3>1. CASE u = t
        <4>1. threadWaiting'[u] = Append(threadWaiting[t], m)
          BY <2>6, <3>1
        <4>2. /\ Append(threadWaiting[t], m) \in Seq(Msgs)
              /\ Len(Append(threadWaiting[t], m)) = Len(threadWaiting[t]) + 1
          BY <1>1, <1>2, <2>5, AppendProperties
        <4>3. DOMAIN Append(threadWaiting[t], m) = 1 .. Len(threadWaiting[t]) + 1
          BY <4>2, LenProperties
        <4> QED
          BY <2>7, <3>1, <4>1, <4>3
      <3>2. CASE u # t
        <4>1. threadWaiting'[u] = threadWaiting[u]
          BY <2>6, <3>2
        <4> QED
          BY <4>1 DEF SteadyInv, OrderOK
      <3> QED
        BY <3>1, <3>2
    <2>9. OrderOK'
      BY <1>3, <1>8, <2>3, <2>4, <2>8 DEF SteadyInv, OrderOK
    <2> QED
      BY <1>4, <2>1, <2>2, <2>9 DEF SteadyInv
  <1>9. CASE /\ t \notin threadActive
             /\ threadActive' = threadActive \cup {t}
             /\ Start(Pump, <<Call("admit", m)>>) /\ UNCHANGED threadWaiting
    <2>1. /\ Call("admit", m) \in CallSet /\ Call("admit", m).op = "admit"
      BY <1>1, CallType DEF Ops, Call
    <2>2. /\ Bottom(Pump, <<>>) /\ Senders[Pump] = 0 /\ Openers[Pump] = 0
      BY <1>3, <1>5, IdleTop
    <2>3. Start(Pump, <<Call("admit", m)>> \o <<>>)
      BY <1>9
    <2>4. /\ ShapeOK' /\ Base' = Base
          /\ Senders' = [Senders EXCEPT ![Pump] = 0]
          /\ Openers' = [Openers EXCEPT ![Pump] = 0]
      <3>1. /\ "admit" \in Light /\ "admit" # "send" /\ "admit" # "open"
        BY DEF Light
      <3>2. CallsOK
        BY DEF TypeOK
      <3> QED
        BY <1>5, <2>1, <2>2, <2>3, <3>1, <3>2, LeftLight DEF SteadyInv
    <2>5. Senders' = Senders
      BY <2>2, <2>4 DEF Senders
    <2>6. Openers' = Openers
      BY <2>2, <2>4 DEF Openers
    <2>7. Ending' = Ending /\ Opening' = Opening
      BY <2>4, <2>6 DEF Ending, Opening
    <2>8. StagesOK' /\ MapOK' /\ SlotsOK'
      BY <1>3, <1>5, <1>6, <2>4, <2>5, <2>7, StagesKept, MapKept, SlotsKept
         DEF SteadyInv
    <2>9. Ahead' = Ahead \cup {m} /\ Waits' = Waits \cup {m}
      BY <1>9, OnMessagePlaces DEF m, t
    <2>10. Current' = Current \cup {m}
      BY <1>5, <2>4, <2>9 DEF Current, Releasing
    <2>11. \A n \in Current : thread[n] # t
      BY <1>9 DEF SteadyInv, OrderOK
    <2>12. ASSUME NEW n \in Msgs, n < m, thread[n] = t
           PROVE  row[n] \in {"done", "error"}
      <3>1. n \in 1 .. arrived
        BY <1>1, <2>12 DEF m, Msgs
      <3>2. n \notin InThreads
        BY <1>9, <2>12, Behind
      <3>3. n \notin Ahead \cup Running
        BY <2>11, <2>12 DEF Current
      <3> QED
        BY <3>1, <3>2, <3>3, ArrivedIsSomewhere
    <2>13. thread[m] = t
      BY DEF t
    <2>14. OrderOK'
      <3>1. \A i, j \in Current' : thread'[i] = thread'[j] => i = j
        BY <1>3, <2>10, <2>11, <2>13 DEF SteadyInv, OrderOK
      <3>2. \A i \in Current' : thread'[i] \in threadActive'
        BY <1>3, <1>9, <2>10, <2>13 DEF SteadyInv, OrderOK
      <3>3. ASSUME NEW i \in Waits', NEW n \in Msgs, n < i, thread'[n] = thread'[i]
            PROVE  row'[n] \in {"done", "error"}
        BY <1>3, <2>9, <2>12, <2>13, <3>3 DEF SteadyInv, OrderOK
      <3>4. \A u \in Threads : \A i, j \in DOMAIN threadWaiting'[u] :
              i < j => threadWaiting'[u][i] < threadWaiting'[u][j]
        BY <1>9 DEF SteadyInv, OrderOK
      <3> QED
        BY <3>1, <3>2, <3>3, <3>4 DEF OrderOK
    <2> QED
      BY <1>4, <2>4, <2>8, <2>14 DEF SteadyInv
  <1> QED
    BY <1>3, <1>8, <1>9 DEF BeginThreadTurn

(* The turn that is ending is the one whose calls are left.                *)
LEMMA OneIsEnding ==
  ASSUME NEW m \in Msgs, NEW b \in Endings(m)
  PROVE  /\ {n \in Msgs : b \in Unwritten(n)} =
              IF b \in Unwritten(m) THEN {m} ELSE {}
         /\ {n \in Msgs : b \in Unwritten(n) \cup Written(n)} =
              IF b \in Unwritten(m) \cup Written(m) THEN {m} ELSE {}
         /\ \A n \in Msgs : b \in Forgotten(n) \cup Endings(n) => n = m
  <1>1. \A n \in Msgs : b \in Endings(n) => n = m
    BY OneEnding
  <1>2. \A n \in Msgs : /\ Unwritten(n) \subseteq Endings(n)
                        /\ Written(n) \subseteq Endings(n)
                        /\ Forgotten(n) \subseteq Endings(n)
    BY EndingKinds
  <1> QED
    BY <1>1, <1>2

\* A connection's goroutine with nothing left to call ends no turn.
LEMMA NoneIsEnding ==
  /\ {n \in Msgs : <<>> \in Unwritten(n)} = {}
  /\ {n \in Msgs : <<>> \in Unwritten(n) \cup Written(n)} = {}
  /\ \A n \in Msgs : /\ <<>> \notin Forgotten(n) /\ <<>> \notin Written(n)
                     /\ <<>> \notin Endings(n) /\ <<>> # <<Call("forget", n)>>
  <1>1. \A n \in Msgs : /\ <<>> \notin Endings(n)
                        /\ Unwritten(n) \subseteq Endings(n)
                        /\ Written(n) \subseteq Endings(n)
                        /\ Forgotten(n) \subseteq Endings(n)
                        /\ <<Call("forget", n)>> \in Endings(n)
    BY EndingKinds
  <1> QED
    BY <1>1

\* The thread of the turn that ends gets its next message, or is released.
LEMMA EndThreadTurnSteady ==
  ASSUME Steady, TypeOK, PlacesInv, ParkedBehindTurn, SteadyInv,
         NEW p \in Procs, EndThreadTurn(p)
  PROVE  SteadyInv'
  <1> DEFINE m == Msg(p)
             t == thread[m]
  <1>1. /\ todo[p] # <<>> /\ Head(todo[p]).op = "endThread" /\ CallsOK
    BY TopType DEF EndThreadTurn, At, TypeOK
  <1>2. Head(todo[p]).op \notin Light
    BY <1>1 DEF Light
  <1>3. /\ p = 1 /\ Base = todo[p] /\ Senders[p] = 0 /\ Openers[p] = 0
        /\ m \in Msgs /\ Base \in Endings(m)
    BY <1>1, <1>2, BaseTop DEF SteadyInv
  <1>4. t \in Threads
    BY <1>3 DEF TypeOK, InboundOK
  <1>5. /\ Base \in Written(m)
        /\ \/ Tail(Base) = <<>> /\ Base \in Forgotten(m)
           \/ Tail(Base) = <<Call("forget", m)>>
    BY <1>1, <1>3, EndingSteps
  <1>6. /\ UNCHANGED <<arrived, thread, active, row, turns, out, up, running>>
        /\ UNCHANGED <<hub, closed, alive, phase>>
        /\ Promote(p, t) \/ Release(p, t)
    BY DEF EndThreadTurn, turnVars, hubVars, connVars, runner, inbound
  <1>7. LinkOK'
    BY <1>6 DEF SteadyInv, LinkOK
  <1>8. Running' = Running /\ Running \cup Opening \subseteq Msgs
    BY <1>6, PlacesAreMsgs DEF Running
  <1>9. row[m] \in {"done", "error"} /\ m \notin Running
    BY <1>3, <1>5 DEF SteadyInv, MapOK, Running
  <1>10. m \notin Ahead
    <2>1. m \in Opened
      BY <1>3, <1>9 DEF Opened
    <2> QED
      BY <2>1 DEF Ahead, Waits, PlacesInv, PlacesApart
  <1>11. Base \notin Unwritten(m)
    BY <1>5, EndingKinds
  <1>12. Ending = {} /\ Releasing = {m}
    BY <1>3, <1>5, <1>11, OneIsEnding DEF Ending, Releasing
  <1>13. /\ {n \in Msgs : Tail(Base) \in Unwritten(n)} = {}
         /\ {n \in Msgs : Tail(Base) \in Unwritten(n) \cup Written(n)} = {}
         /\ \A n \in Msgs : /\ Tail(Base) \notin Forgotten(n)
                            /\ Tail(Base) \notin Written(n)
                            /\ Tail(Base) = <<Call("forget", n)>> => n = m
    <2>1. CASE Tail(Base) = <<>>
      BY <2>1, NoneIsEnding
    <2>2. CASE Tail(Base) = <<Call("forget", m)>>
      <3>1. /\ Tail(Base) \in Endings(m) /\ Tail(Base) \notin Unwritten(m)
            /\ Tail(Base) \notin Written(m) /\ Tail(Base) \notin Forgotten(m)
        BY <2>2, EndingKinds
      <3>2. \A n \in Msgs : Tail(Base) \in Endings(n) => n = m
        BY <1>3, <3>1, OneEnding
      <3>3. \A n \in Msgs : /\ Written(n) \subseteq Endings(n)
                            /\ Unwritten(n) \subseteq Endings(n)
                            /\ Forgotten(n) \subseteq Endings(n)
                            /\ <<Call("forget", n)>> \in Endings(n)
        BY EndingKinds
      <3> QED
        BY <3>1, <3>2, <3>3
    <2> QED
      BY <1>5, <2>1, <2>2
  <1> HIDE DEF m, t
  <1>14. ASSUME ShapeOK', Base' = Tail(Base), Senders' = Senders, Opening' \subseteq Opening
         PROVE  /\ StagesOK' /\ MapOK' /\ SlotsOK'
                /\ Ending' = {} /\ Releasing' = {}
    <2>1. Ending' = {} /\ Releasing' = {}
      BY <1>13, <1>14 DEF Ending, Releasing
    <2>2. StagesOK'
      BY <1>6, <1>12, <1>14, <2>1, StagesKept DEF SteadyInv
    <2>3. SlotsOK'
      BY <1>6, <1>8, <1>14, SlotsKept DEF SteadyInv
    <2>4. MapOK'
      <3>1. (Running \ Ending)' \subseteq turns'
        BY <1>6, <1>8, <1>12, <2>1 DEF SteadyInv, MapOK
      <3>2. ASSUME NEW n \in turns', n \notin Running
            PROVE  Base' \in Endings(n)
        <4>1. n \in turns /\ Base \in Endings(n)
          BY <1>6, <3>2 DEF SteadyInv, MapOK
        <4>2. n = m
          BY <1>3, <4>1, OneEnding
        <4>3. Base \notin Forgotten(m)
          BY <1>3, <4>1, <4>2 DEF SteadyInv, MapOK
        <4>4. Base' = <<Call("forget", m)>>
          BY <1>5, <1>14, <4>3
        <4> QED
          BY <4>2, <4>4, EndingKinds
      <3>3. \A n \in Msgs : Base' \notin Forgotten(n)
        BY <1>13, <1>14
      <3>4. ASSUME NEW n \in Msgs, Base' \in Written(n) \cup {<<Call("forget", n)>>}
            PROVE  row'[n] \in {"done", "error"}
        <4>1. n = m
          BY <1>13, <1>14, <3>4
        <4> QED
          BY <1>6, <1>9, <4>1
      <3> QED
        BY <1>8, <3>1, <3>2, <3>3, <3>4 DEF MapOK
    <2> QED
      BY <2>1, <2>2, <2>3, <2>4
  <1>15. CASE Promote(p, t)
    <2> DEFINE h == Head(threadWaiting[t])
               s == threadWaiting[t]
    <2>1. s \in Seq(Msgs) /\ s # <<>> /\ threadWaiting \in [Threads -> Seq(Msgs)]
      BY <1>4, <1>15 DEF TypeOK, QueuesOK, Promote
    <2>2. /\ h \in Msgs /\ Tail(s) \in Seq(Msgs) /\ Len(Tail(s)) = Len(s) - 1
          /\ Len(s) \in Nat /\ Len(s) >= 1 /\ h = s[1] /\ DOMAIN s = 1 .. Len(s)
          /\ \A i \in 1 .. Len(Tail(s)) : Tail(s)[i] = s[i + 1]
      BY <2>1, HeadTailProperties, LenProperties, EmptySeq
    <2>3. /\ threadWaiting' = [threadWaiting EXCEPT ![t] = Tail(s)]
          /\ Return(p, <<Call("admit", h)>>) /\ UNCHANGED threadActive
      BY <1>15 DEF Promote
    <2>4. Call("admit", h) \in CallSet /\ Call("admit", h).op = "admit"
      BY <2>2, CallType DEF Ops, Call
    <2> HIDE DEF h, s
    <2>5. /\ ShapeOK' /\ Base' = Tail(Base) /\ Senders' = Senders
          /\ Openers' = [Openers EXCEPT ![p] = 0]
      <3>1. /\ "admit" \in Light \ {"send"} /\ "admit" # "open"
        BY DEF Light
      <3> QED
        BY <1>1, <1>2, <2>3, <2>4, <3>1, BaseGoesOn DEF SteadyInv
    <2>6. Opening' \subseteq Opening
      BY <2>5, OpeningChange
    <2>7. StagesOK' /\ MapOK' /\ SlotsOK' /\ Ending' = {} /\ Releasing' = {}
      BY <1>14, <2>5, <2>6
    <2>8. /\ h \in InThreads /\ thread[h] = t
          /\ Ahead' = Ahead \cup {h} /\ Waits' = Waits \cup {h}
      <3>1. ~Release(p, t)
        BY <1>15 DEF Promote, Release
      <3> QED
        BY <3>1, EndThreadTurnPlaces DEF m, t, h
    <2>9. Current' = (Current \ {m}) \cup {h}
      BY <1>8, <1>9, <1>10, <1>12, <2>7, <2>8 DEF Current
    <2>10. m \in Current
      BY <1>12 DEF Current
    <2>11. thread[m] = t
      BY DEF t
    <2>12. \A n \in Current \ {m} : thread[n] # t
      BY <2>10, <2>11 DEF SteadyInv, OrderOK
    <2>13. ASSUME NEW n \in Msgs, n < h, thread[n] = t
           PROVE  row[n] \in {"done", "error"}
      <3>1. n \in 1 .. arrived
        <4>1. h \in 1 .. arrived
          BY <2>8 DEF PlacesInv, Arrived
        <4>2. arrived \in Nat /\ n \in Nat
          BY DEF TypeOK, InboundOK, Msgs
        <4> QED
          BY <2>13, <4>1, <4>2 DEF Msgs
      <3>2. n \notin InThreads
        <4> SUFFICES ASSUME n \in InThreads PROVE FALSE
          OBVIOUS
        <4>1. n \in ToSet(s)
          BY <2>13, Behind DEF s
        <4>2. PICK i \in 1 .. Len(s) : n = s[i]
          BY <2>2, <4>1 DEF ToSet
        <4>3. i = 1 \/ s[1] < s[i]
          <5>1. 1 \in DOMAIN s /\ i \in DOMAIN s /\ (i = 1 \/ 1 < i)
            BY <2>2, <4>2
          <5> QED
            BY <1>4, <5>1 DEF SteadyInv, OrderOK, s
        <4>4. h \in Nat /\ n \in Nat
          BY <2>2 DEF Msgs
        <4> QED
          BY <2>2, <2>13, <4>2, <4>3, <4>4
      <3>3. n \notin Ahead \cup Running
        <4>1. n \notin Current \ {m}
          BY <2>12, <2>13
        <4> QED
          BY <1>9, <1>10, <4>1 DEF Current
      <3> QED
        BY <3>1, <3>2, <3>3, ArrivedIsSomewhere
    <2>14. OrderOK'
      <3>1. \A i, j \in Current' : thread'[i] = thread'[j] => i = j
        BY <1>6, <2>8, <2>9, <2>12 DEF SteadyInv, OrderOK
      <3>2. \A i \in Current' : thread'[i] \in threadActive'
        BY <1>6, <2>3, <2>8, <2>9, <2>10, <2>11 DEF SteadyInv, OrderOK
      <3>3. ASSUME NEW i \in Waits', NEW n \in Msgs, n < i, thread'[n] = thread'[i]
            PROVE  row'[n] \in {"done", "error"}
        BY <1>6, <2>8, <2>13, <3>3 DEF SteadyInv, OrderOK
      <3>4. ASSUME NEW u \in Threads, NEW i \in DOMAIN threadWaiting'[u],
                   NEW j \in DOMAIN threadWaiting'[u], i < j
            PROVE  threadWaiting'[u][i] < threadWaiting'[u][j]
        <4>1. CASE u = t
          <5>1. threadWaiting'[u] = Tail(s)
            BY <1>4, <2>1, <2>3, <4>1
          <5>2. DOMAIN Tail(s) = 1 .. Len(s) - 1
            BY <2>2, LenProperties
          <5>3. /\ i \in Nat /\ j \in Nat
                /\ i + 1 \in DOMAIN s /\ j + 1 \in DOMAIN s /\ i + 1 < j + 1
                /\ Tail(s)[i] = s[i + 1] /\ Tail(s)[j] = s[j + 1]
            BY <2>2, <3>4, <5>1, <5>2
          <5> QED
            BY <1>4, <5>1, <5>3 DEF SteadyInv, OrderOK, s
        <4>2. CASE u # t
          <5>1. threadWaiting'[u] = threadWaiting[u]
            BY <2>1, <2>3, <4>2
          <5> QED
            BY <3>4, <5>1 DEF SteadyInv, OrderOK
        <4> QED
          BY <4>1, <4>2
      <3> QED
        BY <3>1, <3>2, <3>3, <3>4 DEF OrderOK
    <2> QED
      BY <1>7, <2>5, <2>7, <2>14 DEF SteadyInv
  <1>16. CASE Release(p, t)
    <2>1. /\ threadActive' = threadActive \ {t} /\ UNCHANGED threadWaiting
          /\ Return(p, <<>>)
      BY <1>16 DEF Release
    <2>2. ShapeOK' /\ Base' = Tail(Base) /\ Senders' = Senders /\ Openers' = Openers
      BY <1>1, <1>2, <2>1, BaseReturns DEF SteadyInv
    <2>3. Opening' \subseteq Opening
      BY <2>2 DEF Opening
    <2>4. StagesOK' /\ MapOK' /\ SlotsOK' /\ Ending' = {} /\ Releasing' = {}
      BY <1>14, <2>2, <2>3
    <2>5. Ahead' = Ahead /\ Waits' = Waits
      <3>1. ~Promote(p, t)
        BY <1>16 DEF Promote, Release
      <3> QED
        BY <3>1, EndThreadTurnPlaces DEF m, t
    <2>6. Current' = Current \ {m} /\ m \in Current
      BY <1>8, <1>9, <1>10, <1>12, <2>4, <2>5 DEF Current
    <2>7. \A n \in Current \ {m} : thread[n] # t
      BY <2>6 DEF SteadyInv, OrderOK, t
    <2>8. OrderOK'
      BY <1>6, <2>1, <2>5, <2>6, <2>7 DEF SteadyInv, OrderOK
    <2> QED
      BY <1>7, <2>2, <2>4, <2>8 DEF SteadyInv
  <1> QED
    BY <1>6, <1>15, <1>16

\* The cap passes a message on, with a slot of its own, or stops it.
LEMMA AdmitSteady ==
  ASSUME Steady, TypeOK, PlacesInv, SteadyInv, NEW p \in Procs, Admit(p)
  PROVE  SteadyInv'
  <1> DEFINE m == Msg(p)
  <1>1. /\ todo[p] # <<>> /\ Head(todo[p]).op = "admit" /\ m \in Msgs /\ CallsOK
    BY TopType DEF Admit, At, TypeOK
  <1>2. "admit" \in Light /\ "open" \in Light /\ "admit" # "send" /\ "open" # "send"
    BY DEF Light
  <1>3. Senders[p] = 0
    BY <1>1, <1>2, LightTop DEF SteadyInv
  <1>4. /\ UNCHANGED <<thread, threadActive, threadWaiting, row, turns>>
        /\ UNCHANGED <<out, up, running, hub, closed, alive, phase>>
    BY DEF Admit, turnVars, hubVars, connVars, runner, inbound
  <1>5. Gated
    BY DEF Steady, SteadyInv, LinkOK, Gated, NoConn
  <1>6. LinkOK' /\ Running' = Running
    BY <1>4 DEF SteadyInv, LinkOK, Running
  <1>7. Ahead' = Ahead /\ Waits' \subseteq Waits
    BY AdmitPlaces
  <1>8. Running \cup Opening \subseteq Msgs
    BY PlacesAreMsgs
  <1> HIDE DEF m
  <1>9. ASSUME ShapeOK', Base' = Base, Senders' = [Senders EXCEPT ![p] = 0]
        PROVE  LinkOK' /\ ShapeOK' /\ StagesOK' /\ MapOK' /\ OrderOK'
    <2>1. Senders' = Senders
      BY <1>3, <1>9 DEF Senders
    <2>2. Ending' = Ending /\ Releasing' = Releasing
      BY <1>9 DEF Ending, Releasing
    <2>3. Current' = Current
      BY <1>6, <1>7, <2>2 DEF Current
    <2> QED
      BY <1>4, <1>6, <1>7, <1>9, <2>1, <2>2, <2>3, StagesKept, MapKept, OrderKept
         DEF SteadyInv
  <1>10. CASE TakeSlot(p)
    <2>1. Return(p, <<Call("open", m)>>) /\ active' = active + 1
      BY <1>10 DEF TakeSlot, m
    <2>2. /\ Call("open", m) \in CallSet
          /\ Call("open", m).op = "open" /\ Call("open", m).msg = m
      BY <1>1, CallType DEF Ops, Call
    <2>3. /\ ShapeOK' /\ Base' = Base /\ Senders' = [Senders EXCEPT ![p] = 0]
          /\ Openers' = [Openers EXCEPT ![p] = m]
      BY <1>1, <1>2, <2>1, <2>2, LightGoesOn DEF SteadyInv
    <2>4. Opening' \subseteq Opening \cup {m}
      BY <2>3, OpeningChange
    <2>5. SlotsOK'
      <3> DEFINE A == Running \cup Opening
                 B == Running' \cup Opening'
      <3>1. IsFiniteSet(A)
        BY <1>8, MsgsFinite, FS_Subset
      <3>2. /\ IsFiniteSet(A \cup {m}) /\ Cardinality(A) \in Nat
            /\ Cardinality(A \cup {m}) <= Cardinality(A) + 1
        <4>1. Cardinality(A) \in Nat
          BY <3>1, FS_CardinalityType
        <4>2. /\ IsFiniteSet(A \cup {m})
              /\ Cardinality(A \cup {m}) =
                   IF m \in A THEN Cardinality(A) ELSE Cardinality(A) + 1
          BY <3>1, FS_AddElement
        <4> QED
          BY <4>1, <4>2
      <3>3. B \subseteq A \cup {m}
        BY <1>6, <2>4
      <3>4. Cardinality(B) <= Cardinality(A \cup {m}) /\ Cardinality(B) \in Nat
        <4>1. IsFiniteSet(B) /\ Cardinality(B) <= Cardinality(A \cup {m})
          BY <3>2, <3>3, FS_Subset
        <4> QED
          BY <4>1, FS_CardinalityType
      <3>5. Cardinality(A) <= active /\ active \in Nat
        BY DEF SteadyInv, SlotsOK, TypeOK, QueuesOK
      <3>6. Cardinality(A \cup {m}) \in Nat
        BY <3>2, FS_CardinalityType
      <3> QED
        BY <2>1, <3>2, <3>4, <3>5, <3>6 DEF SlotsOK
    <2> QED
      BY <1>9, <2>3, <2>5 DEF SteadyInv
  <1>11. CASE Refuse(p) \/ Park(p)
    <2>1. Return(p, <<>>) /\ active' = active
      BY <1>11 DEF Refuse, Park
    <2>2. /\ ShapeOK' /\ Base' = Base /\ Senders' = [Senders EXCEPT ![p] = 0]
          /\ Openers' = [Openers EXCEPT ![p] = 0]
      BY <1>1, <1>2, <2>1, LightReturns DEF SteadyInv
    <2>3. Opening' \subseteq Opening
      BY <2>2, OpeningChange
    <2>4. SlotsOK'
      BY <1>6, <1>8, <2>1, <2>3, SlotsKept DEF SteadyInv
    <2> QED
      BY <1>9, <2>2, <2>4 DEF SteadyInv
  <1>12. ~PassUngated(p)
    BY <1>5 DEF PassUngated
  <1> QED
    BY <1>10, <1>11, <1>12 DEF Admit

\* The end of a turn is written and its slot goes to the next message, if any.
LEMMA TurnSlotFreedSteady ==
  ASSUME Steady, TypeOK, PlacesInv, SteadyInv, NEW p \in Procs, TurnSlotFreed(p)
  PROVE  SteadyInv' /\ row[Msg(p)] = "running"
  <1> DEFINE m == Msg(p)
  <1>1. /\ todo[p] # <<>> /\ Head(todo[p]).op \in {"done", "error"} /\ CallsOK
    BY TopType DEF TurnSlotFreed, At, TypeOK
  <1>2. Head(todo[p]).op \notin Light
    BY <1>1 DEF Light
  <1>3. /\ p = 1 /\ Base = todo[p] /\ Senders[p] = 0 /\ Openers[p] = 0
        /\ m \in Msgs /\ Base \in Endings(m)
    BY <1>1, <1>2, BaseTop DEF SteadyInv
  <1>4. /\ Base \in Unwritten(m) /\ Tail(Base) \in Written(m)
        /\ (Base \in Forgotten(m)) = (Tail(Base) \in Forgotten(m))
    BY <1>1, <1>3, EndingSteps
  <1>5. /\ UNCHANGED <<thread, threadActive, threadWaiting, turns>>
        /\ UNCHANGED <<out, up, running, hub, closed, alive, phase>>
        /\ row' = [row EXCEPT ![m] = Head(todo[p]).op]
    BY DEF TurnSlotFreed, hubVars, connVars, runner, inbound
  <1>6. \A n \in Msgs : row'[n] = IF n = m THEN Head(todo[p]).op ELSE row[n]
    BY <1>5 DEF TypeOK, TurnsOK
  <1>7. Ahead' = Ahead /\ Waits' \subseteq Waits
    BY TurnSlotFreedPlaces
  <1>8. Running \cup Opening \subseteq Msgs /\ m \notin Opening
        /\ Ending = {m} /\ Releasing = {m} /\ m \in Running
    <2>1. Ending = {m} /\ Releasing = {m}
      BY <1>3, <1>4, OneIsEnding DEF Ending, Releasing
    <2>2. m \in Running
      BY <2>1 DEF SteadyInv, StagesOK
    <2> QED
      BY <2>1, <2>2, PlacesAreMsgs
  <1>9. Running' = Running \ {m}
    BY <1>1, <1>6 DEF Running
  <1>10. LinkOK'
    BY <1>5 DEF SteadyInv, LinkOK
  <1>11. Tail(Base) \in Endings(m) /\ Tail(Base) \notin Unwritten(m)
    BY <1>4, EndingKinds
  <1>12. row[m] = "running"
    BY <1>8 DEF Running
  <1> HIDE DEF m
  <1>13. ASSUME ShapeOK', Base' = Tail(Base), Senders' = Senders
         PROVE  StagesOK' /\ MapOK' /\ OrderOK'
    <2>1. Ending' = {} /\ Releasing' = {m}
      BY <1>3, <1>4, <1>11, <1>13, OneIsEnding DEF Ending, Releasing
    <2>2. StagesOK'
      <3>1. Sending' = Sending /\ OnWire' = OnWire
        BY <1>5, <1>13 DEF Sending, OnWire
      <3>2. Reported' = Reported /\ (Once(up[1]))'
        BY <1>5 DEF Reported, SteadyInv, StagesOK, MsgsOf, Once
      <3>3. OneSender' /\ (IsInjective(out[1]))'
        BY <1>5, <1>13 DEF SteadyInv, StagesOK, OneSender
      <3> QED
        BY <1>5, <1>8, <1>9, <2>1, <3>1, <3>2, <3>3 DEF SteadyInv, StagesOK
    <2>3. MapOK'
      <3>1. (Running \ Ending)' \subseteq turns'
        BY <1>5, <1>8, <1>9, <2>1 DEF SteadyInv, MapOK
      <3>2. ASSUME NEW n \in turns', n \notin Running'
            PROVE  Base' \in Endings(n)
        <4>1. n \in turns
          BY <1>5, <3>2
        <4>2. n \in Running \/ Base \in Endings(n)
          BY <4>1 DEF SteadyInv, MapOK
        <4>3. n = m
          BY <1>3, <1>9, <3>2, <4>2, OneEnding
        <4> QED
          BY <1>11, <1>13, <4>3
      <3>3. ASSUME NEW n \in Msgs, Base' \in Forgotten(n)
            PROVE  n \notin turns'
        <4>1. n = m
          BY <1>3, <1>11, <1>13, <3>3, OneIsEnding
        <4>2. Base \in Forgotten(n)
          BY <1>4, <1>13, <3>3, <4>1
        <4> QED
          BY <1>5, <4>2 DEF SteadyInv, MapOK
      <3>4. ASSUME NEW n \in Msgs, Base' \in Written(n) \cup {<<Call("forget", n)>>}
            PROVE  row'[n] \in {"done", "error"}
        <4>1. Base' \in Endings(n)
          BY <3>4, EndingKinds
        <4>2. n = m
          BY <1>11, <1>13, <4>1, OneEnding
        <4> QED
          BY <1>1, <1>3, <1>6, <4>2
      <3> QED
        BY <3>1, <3>2, <3>3, <3>4 DEF MapOK
    <2>4. Current' \subseteq Current
      BY <1>7, <1>8, <1>9, <2>1 DEF Current
    <2>5. \A n \in Msgs : row[n] \in {"done", "error"} => row'[n] = row[n]
      BY <1>6, <1>12
    <2>6. OrderOK'
      BY <1>5, <1>7, <2>4, <2>5, OrderKept DEF SteadyInv
    <2> QED
      BY <2>2, <2>3, <2>6
  <1> DEFINE A == Running \cup Opening
             C == A \ {m}
  <1>14. /\ IsFiniteSet(C) /\ Cardinality(C) \in Nat
         /\ active \in Nat /\ active > 0 /\ Cardinality(C) <= active - 1
    <2>1. IsFiniteSet(A) /\ m \in A
      BY <1>8, MsgsFinite, FS_Subset
    <2>2. IsFiniteSet(C) /\ Cardinality(C) = Cardinality(A) - 1
      BY <2>1, FS_RemoveElement
    <2>3. Cardinality(A) \in Nat /\ Cardinality(C) \in Nat
      BY <2>1, <2>2, FS_CardinalityType
    <2>4. active \in Nat /\ Cardinality(A) <= active
      BY DEF SteadyInv, SlotsOK, TypeOK, QueuesOK
    <2> QED
      BY <2>2, <2>3, <2>4
  <1>15. Released = active - 1
    BY <1>14 DEF Released
  <1>16. CASE waiting = <<>>
    <2>1. Return(p, <<>>) /\ active' = active - 1
      BY <1>15, <1>16 DEF TurnSlotFreed
    <2>2. ShapeOK' /\ Base' = Tail(Base) /\ Senders' = Senders /\ Openers' = Openers
      BY <1>1, <1>2, <2>1, BaseReturns DEF SteadyInv
    <2>3. Running' \cup Opening' = C
      BY <1>8, <1>9, <2>2 DEF Opening
    <2>4. SlotsOK'
      BY <1>14, <2>1, <2>3 DEF SlotsOK
    <2> QED
      BY <1>10, <1>12, <1>13, <2>2, <2>4 DEF SteadyInv, m
  <1>17. CASE waiting # <<>>
    <2> DEFINE h == Head(waiting)
    <2>1. Return(p, <<Call("open", h)>>) /\ active' = active
      BY <1>14, <1>15, <1>17 DEF TurnSlotFreed
    <2>2. h \in Msgs
      BY <1>17, HeadTailProperties DEF TypeOK, QueuesOK
    <2>3. /\ Call("open", h) \in CallSet
          /\ Call("open", h).op = "open" /\ Call("open", h).msg = h
      BY <2>2, CallType DEF Ops, Call
    <2>4. "open" \in Light \ {"send"}
      BY DEF Light
    <2> HIDE DEF h
    <2>5. /\ ShapeOK' /\ Base' = Tail(Base) /\ Senders' = Senders
          /\ Openers' = [Openers EXCEPT ![p] = h]
      BY <1>1, <1>2, <2>1, <2>3, <2>4, BaseGoesOn DEF SteadyInv
    <2>6. Opening' \subseteq Opening \cup {h}
      BY <2>5, OpeningChange
    <2>7. Running' \cup Opening' \subseteq C \cup {h}
      BY <1>8, <1>9, <2>6
    <2>8. /\ IsFiniteSet(C \cup {h}) /\ Cardinality(C \cup {h}) \in Nat
          /\ Cardinality(C \cup {h}) <= Cardinality(C) + 1
      <3>1. IsFiniteSet(C \cup {h}) /\ Cardinality(C \cup {h}) <= Cardinality(C) + 1
        BY <1>14, FS_AddElement
      <3> QED
        BY <3>1, FS_CardinalityType
    <2>9. /\ Cardinality(Running' \cup Opening') <= Cardinality(C \cup {h})
          /\ Cardinality(Running' \cup Opening') \in Nat
      <3> DEFINE B == Running' \cup Opening'
      <3>1. IsFiniteSet(B) /\ Cardinality(B) <= Cardinality(C \cup {h})
        BY <2>7, <2>8, FS_Subset
      <3> QED
        BY <3>1, FS_CardinalityType
    <2>10. SlotsOK'
      BY <1>14, <2>1, <2>8, <2>9 DEF SlotsOK
    <2> QED
      BY <1>10, <1>12, <1>13, <2>5, <2>10 DEF SteadyInv, m
  <1> QED
    BY <1>16, <1>17

\* A turn is opened for a message in hand, and is about to be sent.
LEMMA OpenTurnSteady ==
  ASSUME Steady, TypeOK, PlacesInv, SteadyInv, NEW p \in Procs, OpenTurn(p)
  PROVE  /\ SteadyInv'
         /\ Msg(p) \in Waits /\ Msg(p) \in Opening
  <1> DEFINE m == Msg(p)
             k == [op |-> "send", msg |-> m, conn |-> hub]
  <1>1. /\ todo[p] # <<>> /\ Head(todo[p]).op = "open" /\ m \in Msgs /\ CallsOK
    BY TopType DEF OpenTurn, At, TypeOK
  <1>2. "open" \in Light /\ "send" \in Light /\ "send" # "open"
    BY DEF Light
  <1>3. Senders[p] = 0 /\ Openers[p] = m
    BY <1>1, <1>2, LightTop DEF SteadyInv
  <1>4. m # 0 /\ m \in InHands /\ m \in Opening
    <2>1. m # 0
      BY <1>1 DEF Msgs
    <2>2. m \in Opening
      BY <1>3, <2>1 DEF Opening
    <2> QED
      BY <2>1, <2>2, OpeningInHands
  <1>5. /\ hub = 1 /\ ~closed[1] /\ alive[1]
    BY DEF SteadyInv, LinkOK
  <1>6. /\ turns' = turns \cup {m} /\ row' = [row EXCEPT ![m] = "running"]
        /\ UNCHANGED <<thread, threadActive, threadWaiting, active>>
        /\ UNCHANGED <<out, up, running, hub, closed, alive, phase>>
        /\ Return(p, <<k>>)
    BY <1>5 DEF OpenTurn, queues, connVars, runner, inbound, NoConn
  <1>7. /\ k \in CallSet /\ k.op = "send" /\ k.msg = m /\ k.conn = 1
    BY <1>1, <1>5 DEF TypeOK, HubOK, CallSet, Ops
  <1>8. row[m] = "none" /\ m \notin Running /\ m \in Waits
    <2>1. m \notin Opened
      BY <1>4 DEF PlacesInv, PlacesApart
    <2> QED
      BY <1>1, <1>4, <2>1 DEF Opened, Running, Waits
  <1>9. \A n \in Msgs : row'[n] = IF n = m THEN "running" ELSE row[n]
    BY <1>6 DEF TypeOK, TurnsOK
  <1>10. Running' = Running \cup {m} /\ Running \cup Opening \subseteq Msgs
    BY <1>1, <1>9, PlacesAreMsgs DEF Running
  <1>11. Ahead' \subseteq Ahead /\ Waits' \subseteq Waits
    BY OpenTurnPlaces
  <1>12. LinkOK'
    BY <1>6 DEF SteadyInv, LinkOK
  <1> HIDE DEF m, k
  <1>13. /\ ShapeOK' /\ Base' = Base /\ Senders' = [Senders EXCEPT ![p] = m]
         /\ Openers' = [Openers EXCEPT ![p] = 0]
    BY <1>1, <1>2, <1>6, <1>7, LightGoesOn DEF SteadyInv
  <1>14. Ending' = Ending /\ Releasing' = Releasing
    BY <1>13 DEF Ending, Releasing
  <1>15. /\ m \notin Sending /\ m \notin OnWire /\ m \notin running
         /\ m \notin Reported /\ m \notin Ending
    BY <1>8 DEF SteadyInv, StagesOK
  <1>16. StagesOK'
    <2>1. Sending' = Sending \cup {m} /\ OneSender'
      BY <1>3, <1>4, <1>13, <1>15, SendingStarts DEF SteadyInv, StagesOK
    <2>2. OnWire' = OnWire /\ (IsInjective(out[1]))'
      BY <1>6 DEF SteadyInv, StagesOK, OnWire
    <2>3. Reported' = Reported /\ (Once(up[1]))'
      BY <1>6 DEF Reported, SteadyInv, StagesOK, MsgsOf, Once
    <2> QED
      BY <1>6, <1>10, <1>14, <1>15, <2>1, <2>2, <2>3 DEF SteadyInv, StagesOK
  <1>17. MapOK'
    <2>1. (Running \ Ending)' \subseteq turns'
      BY <1>6, <1>10, <1>14 DEF SteadyInv, MapOK
    <2>2. ASSUME NEW n \in turns' PROVE n \in Running' \/ Base' \in Endings(n)
      BY <1>6, <1>10, <1>13 DEF SteadyInv, MapOK
    <2>3. ASSUME NEW n \in Msgs, Base' \in Forgotten(n) PROVE n \notin turns'
      <3>1. n \notin turns
        BY <1>13, <2>3 DEF SteadyInv, MapOK
      <3>2. n # m
        <4> SUFFICES ASSUME n = m PROVE FALSE
          OBVIOUS
        <4>1. /\ Base \in Unwritten(m) \/ Base \in Written(m)
          BY <1>13, <2>3 DEF Forgotten, Unwritten, Written
        <4>2. CASE Base \in Unwritten(m)
          BY <1>1, <1>15, <4>2 DEF Ending
        <4>3. CASE Base \in Written(m)
          BY <1>1, <1>8, <4>3 DEF SteadyInv, MapOK
        <4> QED
          BY <4>1, <4>2, <4>3
      <3> QED
        BY <1>6, <3>1, <3>2
    <2>4. ASSUME NEW n \in Msgs, Base' \in Written(n) \cup {<<Call("forget", n)>>}
          PROVE  row'[n] \in {"done", "error"}
      <3>1. row[n] \in {"done", "error"}
        BY <1>13, <2>4 DEF SteadyInv, MapOK
      <3> QED
        BY <1>8, <1>9, <3>1
    <2> QED
      BY <2>1, <2>2, <2>3, <2>4 DEF MapOK
  <1>18. SlotsOK'
    <2>1. Opening' \subseteq Opening
      BY <1>13, OpeningChange
    <2>2. m \in Opening
      BY <1>4 DEF m
    <2> QED
      BY <1>6, <1>10, <2>1, <2>2, SlotsKept DEF SteadyInv
  <1>19. OrderOK'
    <2>1. Current' \subseteq Current
      BY <1>8, <1>10, <1>11, <1>14 DEF Current, Ahead
    <2>2. \A n \in Msgs : row[n] \in {"done", "error"} => row'[n] = row[n]
      BY <1>8, <1>9
    <2> QED
      BY <1>6, <1>11, <2>1, <2>2, OrderKept DEF SteadyInv
  <1> QED
    BY <1>4, <1>8, <1>12, <1>13, <1>16, <1>17, <1>18, <1>19 DEF SteadyInv, m

\* A turn whose row cannot be written is given up with its slots.
LEMMA StartTurnFailsSteady ==
  ASSUME Steady, TypeOK, PlacesInv, SteadyInv, NEW p \in Procs, StartTurnFails(p)
  PROVE  SteadyInv'
  <1>1. /\ todo[p] # <<>> /\ Head(todo[p]).op = "open" /\ CallsOK
    BY TopType DEF StartTurnFails, At, TypeOK
  <1>2. "open" \in Light /\ "send" # "open"
    BY DEF Light
  <1>3. Senders[p] = 0
    BY <1>1, <1>2, LightTop DEF SteadyInv
  <1>4. /\ UNCHANGED <<thread, threadActive, threadWaiting, active, row, turns>>
        /\ UNCHANGED <<out, up, running, hub, closed, alive, phase>>
        /\ Return(p, <<>>)
    BY DEF StartTurnFails, turnVars, hubVars, connVars, runner, inbound
  <1>5. /\ ShapeOK' /\ Base' = Base /\ Senders' = [Senders EXCEPT ![p] = 0]
        /\ Openers' = [Openers EXCEPT ![p] = 0]
    BY <1>1, <1>2, <1>4, LightReturns DEF SteadyInv
  <1>6. Senders' = Senders /\ Opening' \subseteq Opening
    <2>1. Senders' = Senders
      BY <1>3, <1>5 DEF Senders
    <2> QED
      BY <1>5, <2>1, OpeningChange
  <1>7. Ending' = Ending /\ Releasing' = Releasing /\ Running' = Running
    BY <1>4, <1>5 DEF Ending, Releasing, Running
  <1>8. Ahead' \subseteq Ahead /\ Waits' \subseteq Waits
    BY OpenTurnPlaces
  <1>9. Current' \subseteq Current
    BY <1>7, <1>8 DEF Current
  <1>10. LinkOK'
    BY <1>4 DEF SteadyInv, LinkOK
  <1>11. Running \cup Opening \subseteq Msgs
    BY PlacesAreMsgs
  <1>12. StagesOK' /\ MapOK' /\ SlotsOK' /\ OrderOK'
    BY <1>4, <1>5, <1>6, <1>7, <1>8, <1>9, <1>11, StagesKept, MapKept, SlotsKept,
       OrderKept DEF SteadyInv
  <1> QED
    BY <1>5, <1>10, <1>12 DEF SteadyInv

\* A send queue that holds nothing twice is as long as what it holds.
LEMMA InjectiveLength ==
  ASSUME NEW S, NEW s \in Seq(S), IsInjective(s)
  PROVE  IsFiniteSet(ToSet(s)) /\ Cardinality(ToSet(s)) = Len(s)
  <1>1. Len(s) \in Nat /\ DOMAIN s = 1 .. Len(s)
    BY LenProperties
  <1>2. s \in Bijection(1 .. Len(s), ToSet(s))
    <2>1. s \in [1 .. Len(s) -> ToSet(s)]
      BY <1>1, LenProperties DEF ToSet
    <2>2. \A x \in ToSet(s) : \E i \in 1 .. Len(s) : s[i] = x
      BY <1>1 DEF ToSet
    <2> QED
      BY <2>1, <2>2 DEF Bijection, Injection, Surjection
  <1>3. IsFiniteSet(1 .. Len(s)) /\ Cardinality(1 .. Len(s)) = Len(s)
    BY <1>1, FS_Interval
  <1>4. ExistsBijection(1 .. Len(s), ToSet(s))
    BY <1>2 DEF ExistsBijection
  <1> QED
    BY <1>3, <1>4, FS_Bijection

\* The send queue has room: what is in it and what is about to be are turns.
LEMMA SendTurnSteady ==
  ASSUME Steady, TypeOK, PlacesInv, NoIdleSlot, SteadyInv, NEW p \in Procs,
         SendTurn(p)
  PROVE  SteadyInv'
  <1> DEFINE m == Msg(p)
             s == out[1]
  <1>1. /\ todo[p] # <<>> /\ Head(todo[p]).op = "send" /\ m \in Msgs /\ CallsOK
    BY TopType DEF SendTurn, At, TypeOK
  <1>2. "send" \in Light /\ "send" # "open"
    BY DEF Light
  <1>3. Senders[p] = m /\ Openers[p] = 0 /\ Head(todo[p]).conn = 1
    BY <1>1, <1>2, LightTop DEF SteadyInv, ShapeOK, At
  <1>4. m # 0 /\ m \in Sending
    <2>1. m # 0
      BY <1>1 DEF Msgs
    <2> QED
      BY <1>3, <2>1 DEF Sending
  <1>5. /\ m \in Running /\ m \notin OnWire /\ m \notin running
        /\ m \notin Reported /\ m \notin Ending /\ OnWire \subseteq Running
    BY <1>4 DEF SteadyInv, StagesOK
  <1>6. 1 \in Conns /\ s \in Seq(Msgs) /\ out \in [Conns -> Seq(Msgs)]
        /\ IsInjective(s)
    BY SteadyConns DEF TypeOK, HubOK, SteadyInv, StagesOK
  <1>7. Len(s) < OutCap
    <2> DEFINE W == ToSet(s)
               A == Running \cup Opening
    <2>1. IsFiniteSet(W) /\ Cardinality(W) = Len(s) /\ Len(s) \in Nat
      BY <1>6, InjectiveLength, LenProperties
    <2>2. W \cup {m} \subseteq A /\ m \notin W
      BY <1>5 DEF OnWire
    <2>3. IsFiniteSet(A)
      <3>1. A \subseteq Msgs
        BY PlacesAreMsgs
      <3> QED
        BY <3>1, MsgsFinite, FS_Subset
    <2>4. /\ IsFiniteSet(W \cup {m})
          /\ Cardinality(W \cup {m}) = Cardinality(W) + 1
      BY <2>1, <2>2, FS_AddElement
    <2>5. Cardinality(W \cup {m}) <= Cardinality(A)
      BY <2>2, <2>3, FS_Subset
    <2>6. Cardinality(A) <= active /\ active <= MaxConcurrent /\ active \in Nat
          /\ MaxConcurrent <= OutCap /\ Cardinality(A) \in Nat
      <3>1. Cardinality(A) \in Nat
        BY <2>3, FS_CardinalityType
      <3> QED
        BY <3>1 DEF Steady, NoIdleSlot, SteadyInv, SlotsOK, TypeOK, QueuesOK
    <2>7. Len(s) + 1 <= Cardinality(A)
      BY <2>1, <2>4, <2>5
    <2> QED
      BY <2>1, <2>6, <2>7, LimitsAssumption
  <1>8. CanSend(1)
    BY <1>7 DEF CanSend, SteadyInv, LinkOK
  <1>9. /\ out' = [out EXCEPT ![1] = Append(s, m)] /\ UNCHANGED <<hub, closed>>
        /\ Return(p, <<>>)
    BY <1>3, <1>8 DEF SendTurn, PutOut
  <1>10. /\ UNCHANGED <<thread, threadActive, threadWaiting, active, row, turns>>
         /\ UNCHANGED <<up, running, alive, phase>>
    BY DEF SendTurn, turnVars, queues, connVars, runner, inbound
  <1>11. LinkOK' /\ Running' = Running /\ Running \cup Opening \subseteq Msgs
    BY <1>9, <1>10, PlacesAreMsgs DEF SteadyInv, LinkOK, Running
  <1>12. out'[1] = Append(s, m)
    BY <1>6, <1>9
  <1>13. ToSet(Append(s, m)) = ToSet(s) \cup {m} /\ IsInjective(Append(s, m))
    BY <1>1, <1>5, <1>6, AddLast DEF OnWire
  <1> HIDE DEF m, s
  <1>14. /\ ShapeOK' /\ Base' = Base /\ Senders' = [Senders EXCEPT ![p] = 0]
         /\ Openers' = [Openers EXCEPT ![p] = 0]
    BY <1>1, <1>2, <1>9, LightReturns DEF SteadyInv
  <1>15. Ending' = Ending /\ Releasing' = Releasing /\ Opening' \subseteq Opening
    BY <1>14, OpeningChange DEF Ending, Releasing
  <1>16. StagesOK'
    <2>1. Sending' = Sending \ {m} /\ OneSender'
      BY <1>3, <1>14, SendingEnds DEF SteadyInv, StagesOK
    <2>2. OnWire' = OnWire \cup {m} /\ (IsInjective(out[1]))'
      BY <1>12, <1>13 DEF OnWire, s
    <2>3. Reported' = Reported /\ (Once(up[1]))'
      BY <1>10 DEF Reported, SteadyInv, StagesOK, MsgsOf, Once
    <2> QED
      BY <1>4, <1>5, <1>10, <1>11, <1>15, <2>1, <2>2, <2>3
         DEF SteadyInv, StagesOK
  <1>17. Ahead' = Ahead /\ Waits' = Waits
    BY PlainCallPlaces
  <1>18. Current' = Current
    BY <1>11, <1>15, <1>17 DEF Current
  <1>19. MapOK' /\ SlotsOK' /\ OrderOK'
    BY <1>10, <1>11, <1>14, <1>15, <1>17, <1>18, MapKept, SlotsKept, OrderKept
       DEF SteadyInv
  <1> QED
    BY <1>11, <1>14, <1>16, <1>19 DEF SteadyInv

\* A turn is forgotten before its end is written, or last.
LEMMA ForgetSteady ==
  ASSUME Steady, TypeOK, PlacesInv, SteadyInv, NEW p \in Procs, Forget(p)
  PROVE  SteadyInv'
  <1> DEFINE m == Msg(p)
  <1>1. /\ todo[p] # <<>> /\ Head(todo[p]).op = "forget" /\ CallsOK
    BY TopType DEF Forget, At, TypeOK
  <1>2. Head(todo[p]).op \notin Light
    BY <1>1 DEF Light
  <1>3. /\ p = 1 /\ Base = todo[p] /\ m \in Msgs /\ Base \in Endings(m)
    BY <1>1, <1>2, BaseTop DEF SteadyInv
  <1>4. \/ Base \in Unwritten(m) /\ Tail(Base) \in Unwritten(m)
        \/ Base = <<Call("forget", m)>> /\ Tail(Base) = <<>>
    BY <1>1, <1>3, EndingSteps
  <1>5. /\ UNCHANGED <<thread, threadActive, threadWaiting, active, row>>
        /\ UNCHANGED <<out, up, running, hub, closed, alive, phase>>
        /\ turns' = turns \ {m} /\ Return(p, <<>>)
    BY DEF Forget, queues, hubVars, connVars, runner, inbound
  <1>6. ShapeOK' /\ Base' = Tail(Base) /\ Senders' = Senders /\ Openers' = Openers
    BY <1>1, <1>2, <1>5, BaseReturns DEF SteadyInv
  <1>7. LinkOK' /\ Running' = Running /\ Opening' = Opening
        /\ Running \cup Opening \subseteq Msgs
    BY <1>5, <1>6, PlacesAreMsgs DEF SteadyInv, LinkOK, Running, Opening
  <1>8. Ahead' = Ahead /\ Waits' = Waits
    BY PlainCallPlaces
  <1> HIDE DEF m
  <1>9. Ending' = Ending /\ Releasing' = Releasing
    <2>1. CASE Base \in Unwritten(m) /\ Tail(Base) \in Unwritten(m)
      <3>1. Tail(Base) \in Endings(m)
        BY <2>1, EndingKinds
      <3> QED
        BY <1>3, <1>6, <2>1, <3>1, OneIsEnding DEF Ending, Releasing
    <2>2. CASE Base = <<Call("forget", m)>> /\ Tail(Base) = <<>>
      <3>1. Base \notin Unwritten(m) \cup Written(m)
        BY <2>2, EndingKinds
      <3>2. Ending = {} /\ Releasing = {}
        BY <1>3, <3>1, OneIsEnding DEF Ending, Releasing
      <3>3. Ending' = {} /\ Releasing' = {}
        BY <1>6, <2>2, NoneIsEnding DEF Ending, Releasing
      <3> QED
        BY <3>2, <3>3
    <2> QED
      BY <1>4, <2>1, <2>2
  <1>10. StagesOK' /\ SlotsOK'
    BY <1>5, <1>6, <1>7, <1>9, StagesKept, SlotsKept DEF SteadyInv
  <1>11. Current' = Current
    BY <1>7, <1>8, <1>9 DEF Current
  <1>12. OrderOK'
    BY <1>5, <1>8, <1>11, OrderKept DEF SteadyInv
  <1>13. MapOK'
    <2>1. m \notin Running \ Ending
      <3>1. CASE Base \in Unwritten(m)
        BY <1>3, <3>1 DEF Ending
      <3>2. CASE Base = <<Call("forget", m)>>
        <4>1. row[m] \in {"done", "error"}
          BY <1>3, <3>2 DEF SteadyInv, MapOK
        <4> QED
          BY <4>1 DEF Running
      <3> QED
        BY <1>4, <3>1, <3>2
    <2>2. (Running \ Ending)' \subseteq turns'
      BY <1>5, <1>7, <1>9, <2>1 DEF SteadyInv, MapOK
    <2>3. ASSUME NEW n \in turns' PROVE n \in Running' \/ Base' \in Endings(n)
      <3>1. n \in turns /\ n # m
        BY <1>5
      <3>2. Base \notin Endings(n)
        BY <1>3, <3>1, OneEnding
      <3> QED
        BY <1>7, <3>1, <3>2 DEF SteadyInv, MapOK
    <2>4. ASSUME NEW n \in Msgs, Base' \in Endings(n) PROVE n = m
      <3>1. Base' \in Unwritten(m)
        BY <1>4, <1>6, <2>4, NoneIsEnding
      <3>2. Base' \in Endings(m)
        BY <3>1, EndingKinds
      <3> QED
        BY <2>4, <3>2, OneEnding
    <2>5. ASSUME NEW n \in Msgs, Base' \in Forgotten(n) PROVE n \notin turns'
      <3>1. Base' \in Endings(n)
        BY <2>5, EndingKinds
      <3> QED
        BY <1>5, <2>4, <3>1
    <2>6. ASSUME NEW n \in Msgs, Base' \in Written(n) \cup {<<Call("forget", n)>>}
          PROVE  row'[n] \in {"done", "error"}
      <3>1. Base' \in Endings(n)
        BY <2>6, EndingKinds
      <3>2. n = m
        BY <2>4, <3>1
      <3>3. Base' \in Unwritten(m)
        BY <1>4, <1>6, <3>1, NoneIsEnding
      <3> QED
        BY <2>6, <3>2, <3>3, EndingKinds
    <2> QED
      BY <2>2, <2>3, <2>5, <2>6 DEF MapOK
  <1> QED
    BY <1>6, <1>7, <1>10, <1>12, <1>13 DEF SteadyInv

\* The first frame of a stream that reports no turn twice, and the rest.
LEMMA FirstFrame ==
  ASSUME NEW s \in Seq(Frames), s # <<>>, Once(s)
  PROVE  /\ Head(s) \in Frames /\ Head(s).msg \in MsgsOf(s)
         /\ MsgsOf(Tail(s)) = MsgsOf(s) \ {Head(s).msg}
         /\ Once(Tail(s))
  <1>1. /\ Tail(s) \in Seq(Frames) /\ Len(Tail(s)) = Len(s) - 1 /\ Len(s) \in Nat
        /\ Head(s) = s[1] /\ Head(s) \in Frames /\ Len(s) >= 1
        /\ \A i \in 1 .. Len(Tail(s)) : Tail(s)[i] = s[i + 1]
    BY HeadTailProperties, LenProperties, EmptySeq
  <1>2. DOMAIN s = 1 .. Len(s) /\ DOMAIN Tail(s) = 1 .. Len(Tail(s))
    BY <1>1, LenProperties
  <1>3. ToSet(s) = {Head(s)} \cup ToSet(Tail(s))
    BY HeadAndTail
  <1>4. \A i, j \in 1 .. Len(s) : s[i].msg = s[j].msg => i = j
    BY <1>2 DEF Once
  <1>5. ASSUME NEW f \in ToSet(Tail(s)) PROVE f.msg # Head(s).msg
    <2>1. PICK i \in 1 .. Len(Tail(s)) : f = Tail(s)[i]
      BY <1>2 DEF ToSet
    <2>2. f = s[i + 1] /\ i + 1 \in 1 .. Len(s) /\ i + 1 # 1 /\ 1 \in 1 .. Len(s)
      BY <1>1, <2>1
    <2> QED
      BY <1>1, <1>4, <2>2
  <1>6. Once(Tail(s))
    <2> SUFFICES ASSUME NEW i \in 1 .. Len(Tail(s)), NEW j \in 1 .. Len(Tail(s)),
                        Tail(s)[i].msg = Tail(s)[j].msg
                 PROVE  i = j
      BY <1>2 DEF Once
    <2>1. /\ s[i + 1].msg = s[j + 1].msg
          /\ i + 1 \in 1 .. Len(s) /\ j + 1 \in 1 .. Len(s)
      BY <1>1
    <2>2. i + 1 = j + 1
      BY <1>4, <2>1
    <2> QED
      BY <2>2
  <1> QED
    BY <1>1, <1>3, <1>5, <1>6 DEF MsgsOf

\* One more frame, about a turn the stream does not report yet.
LEMMA LastFrame ==
  ASSUME NEW s \in Seq(Frames), Once(s), NEW f \in Frames, f.msg \notin MsgsOf(s)
  PROVE  /\ MsgsOf(Append(s, f)) = MsgsOf(s) \cup {f.msg}
         /\ Once(Append(s, f))
  <1>1. /\ Append(s, f) \in Seq(Frames) /\ Len(Append(s, f)) = Len(s) + 1
        /\ \A i \in 1 .. Len(s) : Append(s, f)[i] = s[i]
        /\ Append(s, f)[Len(s) + 1] = f /\ Len(s) \in Nat
    BY AppendProperties, LenProperties
  <1>2. DOMAIN s = 1 .. Len(s) /\ DOMAIN Append(s, f) = 1 .. Len(s) + 1
    BY <1>1, LenProperties
  <1>3. ToSet(Append(s, f)) = ToSet(s) \cup {f}
    BY AddLast
  <1>4. \A i \in 1 .. Len(s) : s[i].msg # f.msg
    BY <1>2 DEF MsgsOf, ToSet
  <1>5. \A i, j \in 1 .. Len(s) : s[i].msg = s[j].msg => i = j
    BY <1>2 DEF Once
  <1>6. ASSUME NEW i \in 1 .. Len(s) + 1, NEW j \in 1 .. Len(s) + 1,
               Append(s, f)[i].msg = Append(s, f)[j].msg
        PROVE  i = j
    <2>1. /\ i \in 1 .. Len(s) \/ i = Len(s) + 1
          /\ j \in 1 .. Len(s) \/ j = Len(s) + 1
      BY <1>1
    <2> QED
      BY <1>1, <1>4, <1>5, <1>6, <2>1
  <1> QED
    BY <1>2, <1>3, <1>6 DEF MsgsOf, Once

\* The connection takes up the end of a turn that is in the map.
LEMMA ReceiveFrameSteady ==
  ASSUME Steady, TypeOK, PlacesInv, SteadyInv, NEW c \in Conns, ReceiveFrame(c)
  PROVE  SteadyInv'
  <1> DEFINE s == up[1]
             m == Head(up[1]).msg
             kind == Head(up[1]).kind
             calls == Finish(m, kind)
  <1>1. c = 1 /\ 1 \in Procs /\ 1 \in Conns
    BY SteadyConns
  <1>2. /\ todo[1] = <<>> /\ s # <<>> /\ s \in Seq(Frames) /\ Once(s) /\ CallsOK
        /\ up \in [Conns -> Seq(Frames)]
    BY <1>1 DEF ReceiveFrame, Idle, TypeOK, RunnerOK, SteadyInv, StagesOK
  <1>3. /\ Base = <<>> /\ Senders[1] = 0 /\ Openers[1] = 0
    BY <1>1, <1>2, IdleTop
  <1>4. Ending = {} /\ Releasing = {}
    BY <1>3, NoneIsEnding DEF Ending, Releasing
  <1>5. /\ Head(s) \in Frames /\ m \in MsgsOf(s)
        /\ MsgsOf(Tail(s)) = MsgsOf(s) \ {m} /\ Once(Tail(s))
    BY <1>2, FirstFrame
  <1>6. m \in Msgs
    BY <1>5 DEF Frames
  <1>7. /\ m \in Running /\ m \notin Sending /\ m \notin OnWire /\ m \notin running
    BY <1>5 DEF SteadyInv, StagesOK, Reported
  <1>8. m \in turns
    BY <1>4, <1>7 DEF SteadyInv, MapOK
  <1>9. /\ UNCHANGED <<thread, threadActive, threadWaiting, active, row, turns>>
        /\ UNCHANGED <<out, running, hub, closed, alive, phase>>
        /\ UNCHANGED <<inbound, queues, restarts>>
        /\ up' = [up EXCEPT ![1] = Tail(s)] /\ Start(1, calls)
    BY <1>1, <1>8 DEF ReceiveFrame, queues, turnVars, hubVars, connVars, inbound
  <1>10. up'[1] = Tail(s)
    BY <1>1, <1>2, <1>9
  <1>11. /\ calls \in Unwritten(m) /\ calls \notin Forgotten(m)
         /\ calls \notin Written(m) /\ calls \in Endings(m)
         /\ calls # <<Call("forget", m)>>
    <2>1. calls \in Unwritten(m) /\ calls \notin Forgotten(m)
      BY EndingKinds
    <2> QED
      BY <2>1, EndingKinds
  <1>12. Bottom(1, calls)
    BY <1>6, <1>11, FinishType DEF Bottom
  <1>13. LinkOK' /\ Running' = Running /\ Running \cup Opening \subseteq Msgs
    BY <1>9, PlacesAreMsgs DEF SteadyInv, LinkOK, Running
  <1>14. Ahead' = Ahead /\ Waits' = Waits
    BY <1>1, ServePlaces DEF Serve
  <1> HIDE DEF calls, m, s, kind
  <1>15. /\ ShapeOK' /\ Base' = calls /\ Senders' = [Senders EXCEPT ![1] = 0]
         /\ Openers' = [Openers EXCEPT ![1] = 0]
    BY <1>1, <1>2, <1>9, <1>12, LeftBottom DEF SteadyInv
  <1>16. Senders' = Senders /\ Opening' \subseteq Opening
    <2>1. Senders' = Senders
      BY <1>3, <1>15 DEF Senders
    <2> QED
      BY <1>1, <1>15, <2>1, OpeningChange
  <1>17. Ending' = {m} /\ Releasing' = {m}
    BY <1>6, <1>11, <1>15, OneIsEnding DEF Ending, Releasing
  <1>18. StagesOK'
    <2>1. Sending' = Sending /\ OnWire' = OnWire
      BY <1>9, <1>16 DEF Sending, OnWire
    <2>2. Reported' = Reported \ {m} /\ (Once(up[1]))' /\ m \in Reported
      <3>1. Reported' = Reported \ {m} /\ m \in Reported
        BY <1>5, <1>10 DEF Reported, MsgsOf, s
      <3>2. (Once(up[1]))'
        BY <1>5, <1>10 DEF Once
      <3> QED
        BY <3>1, <3>2
    <2>3. OneSender' /\ (IsInjective(out[1]))'
      BY <1>9, <1>16 DEF SteadyInv, StagesOK, OneSender
    <2> QED
      BY <1>4, <1>7, <1>9, <1>13, <1>17, <2>1, <2>2, <2>3
         DEF SteadyInv, StagesOK
  <1>19. MapOK'
    <2>1. (Running \ Ending)' \subseteq turns'
      BY <1>4, <1>9, <1>13 DEF SteadyInv, MapOK
    <2>2. ASSUME NEW n \in turns' PROVE n \in Running'
      <3>1. n \in turns /\ Base \notin Endings(n)
        BY <1>3, <1>9, EndingKinds
      <3> QED
        BY <1>13, <3>1 DEF SteadyInv, MapOK
    <2>3. ASSUME NEW n \in Msgs, Base' \in Endings(n) PROVE n = m
      BY <1>11, <1>15, <2>3, OneEnding
    <2>4. \A n \in Msgs : Base' \notin Forgotten(n)
      BY <1>11, <1>15, <2>3, EndingKinds
    <2>5. \A n \in Msgs : Base' \notin Written(n) \cup {<<Call("forget", n)>>}
      <3> SUFFICES ASSUME NEW n \in Msgs,
                          Base' \in Written(n) \cup {<<Call("forget", n)>>}
                   PROVE  FALSE
        OBVIOUS
      <3>1. Base' \in Endings(n)
        BY EndingKinds
      <3>2. n = m
        BY <2>3, <3>1
      <3> QED
        BY <1>11, <1>15, <3>2
    <2> QED
      BY <2>1, <2>2, <2>4, <2>5 DEF MapOK
  <1>20. SlotsOK'
    BY <1>9, <1>13, <1>16, SlotsKept DEF SteadyInv
  <1>21. OrderOK'
    <2>1. Current' \subseteq Current
      BY <1>7, <1>13, <1>14, <1>17 DEF Current
    <2> QED
      BY <1>9, <1>14, <2>1, OrderKept DEF SteadyInv
  <1> QED
    BY <1>13, <1>15, <1>18, <1>19, <1>20, <1>21 DEF SteadyInv

\* Steps that make no call and change no turn.
LEMMA RunnerSideSteady ==
  ASSUME Steady, TypeOK, PlacesInv, SteadyInv, StagesOK',
         UNCHANGED <<inbound, queues, turnVars, todo, restarts>>,
         UNCHANGED <<hub, closed, alive, phase>>
  PROVE  SteadyInv'
  <1>1. /\ UNCHANGED <<thread, threadActive, threadWaiting, active, row, turns>>
    BY DEF inbound, queues, turnVars
  <1>2. /\ ShapeOK' /\ Base' = Base /\ Ending' = Ending /\ Opening' = Opening
    BY CallsKept DEF SteadyInv
  <1>3. Releasing' = Releasing /\ Running' = Running /\ LinkOK'
    BY <1>1, <1>2 DEF Releasing, Running, SteadyInv, LinkOK
  <1>4. Ahead' = Ahead /\ Waits' = Waits
    BY <1>1, QuietPlaces
  <1>5. Current' = Current /\ Running \cup Opening \subseteq Msgs
    BY <1>3, <1>4, PlacesAreMsgs DEF Current
  <1>6. MapOK' /\ SlotsOK' /\ OrderOK'
    BY <1>1, <1>2, <1>3, <1>4, <1>5, MapKept, SlotsKept, OrderKept DEF SteadyInv
  <1> QED
    BY <1>2, <1>3, <1>6 DEF SteadyInv

\* The runner gets the next turn.
LEMMA DeliverSteady ==
  ASSUME Steady, TypeOK, PlacesInv, SteadyInv, NEW c \in Conns, Deliver(c)
  PROVE  SteadyInv'
  <1> DEFINE s == out[1]
             m == Head(out[1])
  <1>1. /\ c = 1 /\ s \in Seq(Msgs) /\ s # <<>> /\ IsInjective(s) /\ 1 \in Conns
        /\ out \in [Conns -> Seq(Msgs)]
    BY SteadyConns DEF Deliver, TypeOK, HubOK, SteadyInv, StagesOK
  <1>2. /\ out' = [out EXCEPT ![1] = Tail(s)] /\ running' = running \cup {m}
        /\ UNCHANGED <<inbound, queues, turnVars, todo, restarts>>
        /\ UNCHANGED <<hub, closed, alive, phase, up>>
    BY <1>1 DEF Deliver, connVars
  <1>3. out'[1] = Tail(s)
    BY <1>1, <1>2
  <1>4. m \in ToSet(s) /\ ToSet(Tail(s)) = ToSet(s) \ {m} /\ IsInjective(Tail(s))
    BY <1>1, TakeFirst
  <1> HIDE DEF m, s
  <1>5. OnWire' = OnWire \ {m} /\ m \in OnWire /\ (IsInjective(out[1]))'
    BY <1>3, <1>4 DEF OnWire, s
  <1>6. /\ ShapeOK' /\ Senders' = Senders /\ Ending' = Ending
    BY <1>2, CallsKept DEF SteadyInv
  <1>7. Sending' = Sending /\ OneSender' /\ Running' = Running
    BY <1>2, <1>6 DEF Sending, OneSender, SteadyInv, StagesOK, Running, turnVars
  <1>8. Reported' = Reported /\ (Once(up[1]))'
    BY <1>2 DEF Reported, SteadyInv, StagesOK, MsgsOf, Once
  <1>9. StagesOK'
    BY <1>2, <1>5, <1>6, <1>7, <1>8 DEF SteadyInv, StagesOK
  <1> QED
    BY <1>2, <1>9, RunnerSideSteady

\* The runner ends a turn, and reports it.
LEMMA RunnerEndsSteady ==
  ASSUME Steady, TypeOK, PlacesInv, SteadyInv, RunnerEnds
  PROVE  SteadyInv'
  <1>1. PICK m \in running, kind \in {"done", "error"} :
          /\ running' = running \ {m}
          /\ up' = [c \in Conns |->
                      IF alive[c] THEN Append(up[c], [kind |-> kind, msg |-> m])
                      ELSE up[c]]
    BY DEF RunnerEnds
  <1> DEFINE s == up[1]
             f == [kind |-> kind, msg |-> m]
  <1>2. 1 \in Conns /\ alive[1] = TRUE /\ s \in Seq(Frames) /\ Once(s)
    BY SteadyConns DEF TypeOK, RunnerOK, SteadyInv, LinkOK, StagesOK
  <1>3. f \in Frames /\ f.msg = m
    BY DEF Frames, TypeOK, RunnerOK
  <1>4. up'[1] = Append(s, f)
    BY <1>1, <1>2
  <1>5. /\ m \notin Reported /\ m \notin Sending /\ m \notin OnWire /\ m \notin Ending
        /\ m \in Running
    BY DEF SteadyInv, StagesOK
  <1>6. /\ UNCHANGED <<inbound, queues, turnVars, todo, restarts>>
        /\ UNCHANGED <<hub, closed, alive, phase, out>>
    BY DEF RunnerEnds, hubVars, connVars
  <1> HIDE DEF f, s
  <1>7. /\ MsgsOf(Append(s, f)) = MsgsOf(s) \cup {m} /\ Once(Append(s, f))
    BY <1>2, <1>3, <1>5, LastFrame DEF Reported, s
  <1>8. Reported' = Reported \cup {m} /\ (Once(up[1]))'
    <2>1. Reported' = Reported \cup {m}
      BY <1>4, <1>7 DEF Reported, MsgsOf, s
    <2>2. (Once(up[1]))'
      BY <1>4, <1>7 DEF Once
    <2> QED
      BY <2>1, <2>2
  <1>9. /\ ShapeOK' /\ Senders' = Senders /\ Ending' = Ending
    BY <1>6, CallsKept DEF SteadyInv
  <1>10. Sending' = Sending /\ OneSender' /\ Running' = Running
    BY <1>6, <1>9 DEF Sending, OneSender, SteadyInv, StagesOK, Running, turnVars
  <1>11. OnWire' = OnWire /\ (IsInjective(out[1]))'
    BY <1>6 DEF SteadyInv, StagesOK, OnWire
  <1>12. StagesOK'
    BY <1>1, <1>5, <1>8, <1>9, <1>10, <1>11 DEF SteadyInv, StagesOK
  <1> QED
    BY <1>6, <1>12, RunnerSideSteady

\* No turn of a connected runner is silent.
LEMMA NeverSilent ==
  ASSUME Steady, TypeOK, SteadyInv, NEW m \in turns
  PROVE  ~Silent(m)
  <1> SUFFICES ASSUME Silent(m) PROVE FALSE
    OBVIOUS
  <1>1. 1 \in Conns /\ 1 \in Procs /\ alive[1] /\ m \in Msgs
    BY SteadyConns DEF SteadyInv, LinkOK, TypeOK, TurnsOK
  <1>2. /\ m \notin running /\ m \notin OnWire /\ m \notin Reported
        /\ \A p \in Procs : \A i \in 1 .. Len(todo[p]) : todo[p][i].msg # m
    BY <1>1 DEF Silent, OnWire, Reported, MsgsOf
  <1>3. m \notin Sending
    <2> SUFFICES ASSUME NEW p \in Procs, Senders[p] = m, m # 0 PROVE FALSE
      BY DEF Sending
    <2>1. todo[p] # <<>> /\ Head(todo[p]).msg = m
      BY DEF Senders, ToSend
    <2>2. todo[p] \in Seq(CallSet)
      BY DEF TypeOK, CallsOK
    <2>3. Head(todo[p]) = todo[p][1] /\ 1 \in 1 .. Len(todo[p])
      BY <2>1, <2>2, HeadTailProperties, EmptySeq, LenProperties
    <2> QED
      BY <1>2, <2>1, <2>3
  <1>4. Base \notin Endings(m)
    <2> SUFFICES ASSUME Base \in Endings(m) PROVE FALSE
      OBVIOUS
    <2>1. Base # <<>> /\ Head(Base).msg = m
      BY EndingSteps
    <2>2. todo[1] \in Seq(CallSet)
      BY <1>1 DEF TypeOK, CallsOK
    <2>3. Base = todo[1] \/ (todo[1] # <<>> /\ Base = Tail(todo[1]))
      BY DEF Base, Below
    <2>4. CASE Base = todo[1]
      <3>1. Head(todo[1]) = todo[1][1] /\ 1 \in 1 .. Len(todo[1])
        BY <2>1, <2>2, <2>4, HeadTailProperties, EmptySeq, LenProperties
      <3> QED
        BY <1>1, <1>2, <2>1, <2>4, <3>1
    <2>5. CASE todo[1] # <<>> /\ Base = Tail(todo[1])
      <3>1. /\ Base \in Seq(CallSet) /\ Len(Base) = Len(todo[1]) - 1
            /\ \A i \in 1 .. Len(Base) : Base[i] = todo[1][i + 1]
            /\ Len(todo[1]) \in Nat
        BY <2>2, <2>5, HeadTailProperties, LenProperties
      <3>2. Head(Base) = Base[1] /\ 1 \in 1 .. Len(Base)
        BY <2>1, <3>1, HeadTailProperties, EmptySeq, LenProperties
      <3>3. Head(Base) = todo[1][2] /\ 2 \in 1 .. Len(todo[1])
        BY <3>1, <3>2
      <3> QED
        BY <1>1, <1>2, <2>1, <3>3
    <2> QED
      BY <2>3, <2>4, <2>5
  <1>5. m \in Running
    BY <1>4 DEF SteadyInv, MapOK
  <1>6. m \in Ending
    BY <1>2, <1>3, <1>5 DEF SteadyInv, StagesOK
  <1>7. Base \in Unwritten(m)
    BY <1>6 DEF Ending
  <1> QED
    BY <1>4, <1>7, EndingKinds

\* No call is made that is made for a runner that is away.
LEMMA NoOfflineCall ==
  ASSUME Steady, TypeOK, SteadyInv, NEW p \in Procs
  PROVE  /\ ~Enqueue(p) /\ ~MarkQueued(p) /\ ~AbandonTurn(p)
         /\ p \in Conns => ~Drained(p)
  <1> SUFFICES ASSUME todo[p] # <<>>,
                      Head(todo[p]).op \in {"enqueue", "mark", "abandon", "drained"}
               PROVE  FALSE
    BY DEF Enqueue, MarkQueued, AbandonTurn, Drained, At
  <1>1. Head(todo[p]).op \notin Light /\ CallsOK
    BY DEF Light, TypeOK
  <1>2. Base = todo[p] /\ Base \in Endings(Msg(p))
    BY <1>1, BaseTop DEF SteadyInv
  <1>3. Head(Base).op \in {"done", "error", "endThread", "forget"}
    BY <1>2, EndingSteps
  <1> QED
    BY <1>2, <1>3

\* Nothing happens to the connection.
LEMMA OnlyFrames ==
  ASSUME Steady, TypeOK, SteadyInv, NEW c \in Conns
  PROVE  (Serve(c) => ReceiveFrame(c)) /\ ~Connect(c) /\ ~Break(c)
  <1>1. /\ c = 1 /\ phase[c] = "read" /\ ~closed[c] /\ alive[c] /\ ~(MaxConns > 1)
        /\ c \in Procs
    BY SteadyConns DEF SteadyInv, LinkOK, Steady
  <1>2. ~Drained(c)
    BY <1>1, NoOfflineCall
  <1>3. ~Connect(c) /\ ~Break(c)
    BY <1>1 DEF Connect, Break
  <1>4. Serve(c) => ReceiveFrame(c)
    BY <1>1, <1>2 DEF Serve, StartDrain, DrainSend, EndDrain, HeartbeatTimeout,
       EndConn, RunnerReturned, StartReconcile, Reconcile, EndReconcile
  <1> QED
    BY <1>3, <1>4

\* The runner is connected before the first message.
LEMMA InitSteady == Steady /\ Init => SteadyInv
  <1> SUFFICES ASSUME Steady, Init PROVE SteadyInv
    OBVIOUS
  <1>1. /\ 1 \in Conns /\ 1 \in Procs /\ \A p \in Procs : todo[p] = <<>>
        /\ turns = {} /\ running = {} /\ dropped = {} /\ active = 0
        /\ waiting = <<>> /\ out[1] = <<>> /\ up[1] = <<>>
        /\ \A m \in Msgs : row[m] = "none"
        /\ \A t \in Threads : threadWaiting[t] = <<>>
    BY SteadyConns DEF Init
  <1>2. ToSet(<<>>) = {} /\ IsInjective(<<>>) /\ Once(<<>>) /\ MsgsOf(<<>>) = {}
    BY DEF ToSet, IsInjective, Once, MsgsOf
  <1>3. LinkOK
    BY <1>1 DEF Init, Steady, LinkOK
  <1>4. /\ Base = <<>> /\ \A p \in Procs : Senders[p] = 0 /\ Openers[p] = 0
        /\ \A p \in Procs : Hand[p] = 0
    BY <1>1 DEF Base, Below, Senders, ToSend, Openers, ToOpen, Hand, Taken
  <1>5. ShapeOK
    BY <1>1, <1>4 DEF ShapeOK, Below, At
  <1>6. Ending = {} /\ Releasing = {} /\ Sending = {} /\ Opening = {}
        /\ OneSender /\ InHands = {}
    <2>1. Ending = {} /\ Releasing = {}
      BY <1>4, NoneIsEnding DEF Ending, Releasing
    <2>2. Sending = {} /\ Opening = {} /\ OneSender /\ InHands = {}
      BY <1>4 DEF Sending, Opening, OneSender, InHands
    <2> QED
      BY <2>1, <2>2
  <1>7. OnWire = {} /\ Reported = {} /\ Running = {} /\ AtRunner = {}
    BY <1>1, <1>2 DEF OnWire, Reported, Running, AtRunner
  <1>8. StagesOK
    BY <1>1, <1>2, <1>6, <1>7 DEF StagesOK
  <1>9. MapOK
    BY <1>1, <1>4, <1>7, NoneIsEnding DEF MapOK
  <1>10. SlotsOK
    <2>1. Cardinality({}) = 0
      BY FS_EmptySet
    <2>2. Running \cup Opening = {}
      BY <1>6, <1>7
    <2>3. Cardinality(Running \cup Opening) = 0
      BY <2>1, <2>2, Zenon
    <2>4. active = 0
      BY <1>1
    <2> QED
      BY <2>3, <2>4 DEF SlotsOK
  <1>11. OrderOK
    <2>1. Current = {} /\ Waits = {}
      BY <1>1, <1>6, <1>7 DEF Current, Ahead, Waits
    <2>2. \A t \in Threads : \A i, j \in DOMAIN threadWaiting[t] :
            i < j => threadWaiting[t][i] < threadWaiting[t][j]
      <3>1. \A t \in Threads : DOMAIN threadWaiting[t] = {}
        BY <1>1
      <3> QED
        BY <3>1
    <2> QED
      BY <2>1, <2>2 DEF OrderOK
  <1> QED
    BY <1>3, <1>5, <1>8, <1>9, <1>10, <1>11 DEF SteadyInv

(***************************************************************************)
(* While the runner stays connected, its gateway's state is what SteadyInv *)
(* says: no step is taken that is for a runner that is away, no turn is    *)
(* lost between the gateway and the runner, and a thread has one message   *)
(* under way.                                                              *)
(***************************************************************************)
THEOREM SteadyInvariant == Steady => (Spec => []SteadyInv)
  <1> SUFFICES ASSUME Steady PROVE Spec => []SteadyInv
    OBVIOUS
  <1>1. Init => SteadyInv
    BY InitSteady
  <1>2. TypeOK /\ PlacesInv /\ ParkedBehindTurn /\ NoIdleSlot /\ SteadyInv
          /\ [Next]_vars => SteadyInv'
    <2> SUFFICES ASSUME TypeOK, PlacesInv, ParkedBehindTurn, NoIdleSlot, SteadyInv,
                        [Next]_vars
                 PROVE  SteadyInv'
      OBVIOUS
    <2>1. CASE OnMessage
      BY <2>1, OnMessageSteady
    <2>2. ASSUME NEW p \in Procs, Step(p) PROVE SteadyInv'
      BY <2>2, EndThreadTurnSteady, AdmitSteady, TurnSlotFreedSteady,
         OpenTurnSteady, StartTurnFailsSteady, SendTurnSteady, ForgetSteady,
         NoOfflineCall DEF Step
    <2>3. ASSUME NEW c \in Conns, Serve(c) \/ Connect(c) \/ Deliver(c) \/ Break(c)
          PROVE  SteadyInv'
      BY <2>3, OnlyFrames, ReceiveFrameSteady, DeliverSteady
    <2>4. ~Sweep
      BY NeverSilent DEF Sweep
    <2>5. CASE RunnerEnds
      BY <2>5, RunnerEndsSteady
    <2>6. ~Restart
      BY DEF Restart, Steady, TypeOK, RestartsOK
    <2>7. CASE UNCHANGED vars
      <3>1. /\ UNCHANGED <<inbound, queues, turnVars, todo, restarts>>
            /\ UNCHANGED <<hub, closed, alive, phase>>
            /\ UNCHANGED <<out, up, running, row>>
        BY <2>7 DEF vars, hubVars, connVars, runner, turnVars
      <3>2. StagesOK'
        <4>1. Senders' = Senders /\ Ending' = Ending
          BY <3>1, CallsKept DEF SteadyInv
        <4> QED
          BY <3>1, <4>1, StagesKept DEF SteadyInv
      <3> QED
        BY <3>1, <3>2, RunnerSideSteady
    <2> QED
      BY <2>1, <2>2, <2>3, <2>4, <2>5, <2>6, <2>7 DEF Next
  <1> QED
    BY <1>1, <1>2, TypeCorrect, PlacesInvariant, ParkedBehindTurnCorrect,
       NoIdleSlotCorrect, PTL DEF Spec

-----------------------------------------------------------------------------
(* The gateway implements ThreadService *)

\* How far the service of a message is, read off the places it can be.
ProgressOK ==
  \A m \in Msgs :
    /\ m > arrived => Progress[m] = "new"
    /\ m <= arrived =>
         /\ row[m] = "running" => Progress[m] = "running"
         /\ row[m] \in {"done", "error"} => Progress[m] = "ended"
         /\ row[m] = "none" =>
              Progress[m] = IF m \in dropped THEN "refused" ELSE "accepted"
    /\ m > arrived => row[m] = "none" /\ m \notin dropped

\* Each place a message can be says how far its service is.
LEMMA ProgressCases == TypeOK /\ PlacesInv => ProgressOK
  <1> SUFFICES ASSUME TypeOK, PlacesInv, NEW m \in Msgs
               PROVE  /\ m > arrived => Progress[m] = "new"
                      /\ m <= arrived =>
                           /\ row[m] = "running" => Progress[m] = "running"
                           /\ row[m] \in {"done", "error"} => Progress[m] = "ended"
                           /\ row[m] = "none" =>
                                Progress[m] = IF m \in dropped THEN "refused"
                                                               ELSE "accepted"
                      /\ m > arrived => row[m] = "none" /\ m \notin dropped
    BY DEF ProgressOK
  <1>1. m \in Nat /\ arrived \in Nat
    BY DEF Msgs, TypeOK, InboundOK
  <1>2. m > arrived => row[m] = "none" /\ m \notin dropped
    <2>1. m > arrived => m \notin Opened /\ m \notin dropped
      BY <1>1 DEF PlacesInv, Arrived
    <2> QED
      BY <2>1 DEF Opened
  <1>3. m \in dropped => row[m] = "none"
    BY DEF PlacesInv, PlacesApart, Opened
  <1>4. Progress[m] =
          CASE m > arrived                  -> "new"
            [] row[m] = "running"           -> "running"
            [] row[m] \in {"done", "error"} -> "ended"
            [] m \in dropped                -> "refused"
            [] OTHER                        -> "accepted"
    BY DEF Progress
  <1>5. CASE m > arrived
    BY <1>1, <1>2, <1>4, <1>5
  <1>6. CASE m <= arrived
    BY <1>1, <1>3, <1>4, <1>6
  <1> QED
    BY <1>1, <1>2, <1>5, <1>6

(* One message moves on.                                                   *)
LEMMA OneMoves ==
  ASSUME TypeOK, TypeOK', ProgressOK, ProgressOK', NEW m \in Msgs, NEW v,
         Progress'[m] = v,
         \A n \in Msgs \ {m} : /\ (n > arrived') = (n > arrived)
                               /\ row'[n] = row[n]
                               /\ (n \in dropped') = (n \in dropped)
  PROVE  Progress' = [Progress EXCEPT ![m] = v]
  <1>1. /\ arrived \in Nat /\ arrived' \in Nat /\ Msgs \subseteq Nat
        /\ \A n \in Msgs : row[n] \in Statuses
    <2>1. arrived \in Nat /\ arrived' \in Nat /\ Msgs \subseteq Nat
      BY DEF TypeOK, InboundOK, Msgs
    <2>2. \A n \in Msgs : row[n] \in Statuses
      BY DEF TypeOK, TurnsOK
    <2> QED
      BY <2>1, <2>2
  <1>2. ASSUME NEW n \in Msgs \ {m} PROVE Progress'[n] = Progress[n]
    <2>1. CASE n > arrived
      BY <2>1 DEF ProgressOK
    <2>2. CASE ~(n > arrived)
      <3>1. n <= arrived /\ n <= arrived'
        BY <1>1, <2>2
      <3>2. row[n] = "none" \/ row[n] = "running" \/ row[n] \in {"done", "error"}
        BY <1>1 DEF Statuses
      <3> QED
        BY <3>1, <3>2 DEF ProgressOK
    <2> QED
      BY <2>1, <2>2
  <1>3. Progress' = [n \in Msgs |-> Progress'[n]] /\ Progress = [n \in Msgs |-> Progress[n]]
    BY DEF Progress
  <1> HIDE DEF Progress
  <1> QED
    BY <1>2, <1>3

(* No message moves on.                                                    *)
LEMMA NoneMoves ==
  ASSUME UNCHANGED <<inbound, row, dropped>>
  PROVE  UNCHANGED <<arrived, thread, Progress>>
  BY DEF inbound, Progress

\* A message that comes is accepted.
LEMMA AcceptStep ==
  ASSUME TypeOK, TypeOK', ProgressOK, ProgressOK', OnMessage
  PROVE  Service!Accept
  <1> DEFINE m == arrived + 1
  <1>1. /\ arrived < MaxMsgs /\ arrived' = m /\ UNCHANGED <<thread, row, dropped>>
        /\ m \in Msgs /\ arrived \in Nat /\ Msgs \subseteq Nat
    BY BoundsAssumption DEF OnMessage, turnVars, TypeOK, InboundOK, Msgs
  <1>2. m > arrived /\ m <= arrived'
    BY <1>1
  <1>3. Progress[m] = "new" /\ Progress'[m] = "accepted"
    BY <1>1, <1>2 DEF ProgressOK
  <1>4. \A n \in Msgs \ {m} : (n > arrived') = (n > arrived)
    BY <1>1
  <1>5. Progress' = [Progress EXCEPT ![m] = "accepted"]
    BY <1>1, <1>3, <1>4, OneMoves
  <1> QED
    BY <1>1, <1>3, <1>5 DEF Service!Accept, Service!Move

(* A message that was in hand is given up.                                 *)
LEMMA RefuseStep ==
  ASSUME TypeOK, TypeOK', PlacesInv, ProgressOK, ProgressOK',
         NEW m \in Msgs, m \in InHands, dropped' = dropped \cup {m},
         UNCHANGED <<inbound, row>>
  PROVE  Service!Refuse(m)
  <1>1. m \in 1 .. arrived /\ row[m] = "none" /\ m \notin dropped
    BY DEF PlacesInv, Arrived, PlacesApart, Opened
  <1>2. m <= arrived /\ UNCHANGED <<arrived, thread>>
    BY <1>1 DEF inbound
  <1>3. Progress[m] = "accepted" /\ Progress'[m] = "refused"
    BY <1>1, <1>2 DEF ProgressOK
  <1>4. Progress' = [Progress EXCEPT ![m] = "refused"]
    BY <1>2, <1>3, OneMoves
  <1> QED
    BY <1>2, <1>3, <1>4 DEF Service!Refuse, Service!Move

\* A turn that is opened begins its message: those before it in its thread have
\* ended, and the runner has a slot free.
LEMMA BeginStep ==
  ASSUME Steady, TypeOK, TypeOK', PlacesInv, NoIdleSlot, SteadyInv, ProgressOK,
         ProgressOK', NEW p \in Procs, OpenTurn(p)
  PROVE  Service!Begin(Msg(p))
  <1> DEFINE m == Msg(p)
  <1>1. m \in Waits /\ m \in Opening
    BY OpenTurnSteady
  <1>2. m \in Msgs /\ m \notin Running
    BY <1>1, PlacesAreMsgs
  <1>3. /\ row' = [row EXCEPT ![m] = "running"] /\ UNCHANGED <<arrived, thread, dropped>>
    BY DEF OpenTurn, queues, inbound
  <1>4. m \in 1 .. arrived /\ row[m] = "none" /\ m \notin dropped
    BY <1>1, <1>2 DEF PlacesInv, Arrived, PlacesApart, Opened, Waits
  <1>5. m <= arrived /\ arrived \in Nat /\ Msgs = 1 .. MaxMsgs /\ MaxMsgs \in Nat
    BY <1>4, BoundsAssumption DEF Msgs, TypeOK, InboundOK
  <1>6. \A n \in Msgs : row'[n] = IF n = m THEN "running" ELSE row[n]
    BY <1>3 DEF TypeOK, TurnsOK
  <1> HIDE DEF m
  <1>7. Progress[m] = "accepted" /\ Progress'[m] = "running"
    BY <1>2, <1>3, <1>4, <1>5, <1>6 DEF ProgressOK
  <1>8. Progress' = [Progress EXCEPT ![m] = "running"]
    BY <1>2, <1>3, <1>6, <1>7, OneMoves
  <1>9. ASSUME NEW n \in 1 .. m - 1, thread[n] = thread[m]
        PROVE  Progress[n] = "ended"
    <2>1. n \in Msgs /\ n < m /\ n <= arrived
      BY <1>2, <1>5
    <2>2. row[n] \in {"done", "error"}
      BY <1>1, <1>9, <2>1 DEF SteadyInv, OrderOK
    <2> QED
      BY <2>1, <2>2 DEF ProgressOK
  <1>10. Cardinality({n \in Msgs : Progress[n] = "running"}) < MaxConcurrent
    <2>1. {n \in Msgs : Progress[n] = "running"} = Running
      <3> SUFFICES ASSUME NEW n \in Msgs
                   PROVE  Progress[n] = "running" <=> row[n] = "running"
        BY DEF Running
      <3>1. n \in Nat /\ row[n] \in Statuses
        BY <1>5 DEF TypeOK, TurnsOK
      <3>2. CASE n > arrived
        BY <3>2 DEF ProgressOK
      <3>3. CASE n <= arrived
        <4>1. row[n] \in {"none", "running", "done", "error"}
          BY <3>1 DEF Statuses
        <4> QED
          BY <3>3, <4>1 DEF ProgressOK
      <3> QED
        BY <1>5, <3>1, <3>2, <3>3
    <2> DEFINE A == Running \cup Opening
    <2>2. IsFiniteSet(A) /\ IsFiniteSet(Running)
      <3>1. A \subseteq Msgs /\ Running \subseteq Msgs
        BY PlacesAreMsgs
      <3> QED
        BY <3>1, MsgsFinite, FS_Subset
    <2>3. /\ IsFiniteSet(Running \cup {m})
          /\ Cardinality(Running \cup {m}) = Cardinality(Running) + 1
      BY <1>2, <2>2, FS_AddElement
    <2>4. Cardinality(Running \cup {m}) <= Cardinality(A)
      <3>1. Running \cup {m} \subseteq A
        BY <1>1 DEF m
      <3> QED
        BY <2>2, <3>1, FS_Subset
    <2>5. Cardinality(A) \in Nat /\ Cardinality(Running) \in Nat
      BY <2>2, FS_CardinalityType
    <2>6. Cardinality(A) <= active /\ active <= MaxConcurrent /\ active \in Nat
      BY DEF SteadyInv, SlotsOK, NoIdleSlot, TypeOK, QueuesOK
    <2>7. Cardinality(Running) + 1 <= Cardinality(A)
      BY <2>3, <2>4
    <2>8. Cardinality(Running) < MaxConcurrent
      BY <2>5, <2>6, <2>7, LimitsAssumption
    <2> QED
      BY <2>1, <2>8
  <1>11. Service!Earlier(m) = {n \in 1 .. m - 1 : thread[n] = thread[m]}
    BY DEF Service!Earlier
  <1>12. Service!Running = {n \in Msgs : Progress[n] = "running"}
    BY DEF Service!Running, Service!ServiceMsgs, Msgs
  <1>13. \A n \in Service!Earlier(m) : Progress[n] = "ended"
    BY <1>9, <1>11
  <1>14. MaxConcurrent > 0 => Service!Cardinality(Service!Running) < MaxConcurrent
    <2>1. Service!Cardinality(Service!Running) = Cardinality(Service!Running)
      BY DEF Service!Cardinality, Cardinality
    <2> QED
      BY <1>10, <1>12, <2>1
  <1>15. Service!Move(m, "accepted", "running")
    BY <1>7, <1>8 DEF Service!Move
  <1>16. Service!Begin(m)
    BY <1>3, <1>13, <1>14, <1>15 DEF Service!Begin
  <1> QED
    BY <1>16 DEF m

\* A slot is freed by the end of the running turn it was taken for.
LEMMA EndStep ==
  ASSUME Steady, TypeOK, TypeOK', PlacesInv, SteadyInv, ProgressOK, ProgressOK',
         NEW p \in Procs, TurnSlotFreed(p)
  PROVE  Service!End(Msg(p)) /\ Msg(p) \in Msgs
  <1> DEFINE m == Msg(p)
  <1>1. row[m] = "running" /\ m \in Msgs
    BY TurnSlotFreedSteady, TopType DEF TurnSlotFreed, TypeOK
  <1>2. /\ row' = [row EXCEPT ![m] = Head(todo[p]).op]
        /\ Head(todo[p]).op \in {"done", "error"}
        /\ UNCHANGED <<arrived, thread, dropped>>
    BY DEF TurnSlotFreed, inbound, At
  <1>3. \A n \in Msgs : row'[n] = IF n = m THEN Head(todo[p]).op ELSE row[n]
    BY <1>2 DEF TypeOK, TurnsOK
  <1>4. m <= arrived
    BY <1>1 DEF ProgressOK, TypeOK, InboundOK, Msgs
  <1> HIDE DEF m
  <1>5. Progress[m] = "running" /\ Progress'[m] = "ended"
    BY <1>1, <1>2, <1>3, <1>4 DEF ProgressOK
  <1>6. Progress' = [Progress EXCEPT ![m] = "ended"]
    BY <1>1, <1>2, <1>3, <1>5, OneMoves
  <1> QED
    BY <1>1, <1>2, <1>5, <1>6 DEF Service!End, Service!Move, m

\* Every step of a gateway whose runner stays is one step of the promise, or none.
LEMMA NextServes ==
  ASSUME Steady, TypeOK, TypeOK', PlacesInv, NoIdleSlot, SteadyInv, ProgressOK,
         ProgressOK', [Next]_vars
  PROVE  [Service!Next]_<<arrived, thread, Progress>>
  <1>1. Service!ServiceMsgs = Msgs
    BY DEF Service!ServiceMsgs, Msgs
  <1>2. CASE OnMessage
    <2>1. Service!Accept
      BY <1>2, AcceptStep
    <2> QED
      BY <2>1 DEF Service!Next
  <1>3. ASSUME UNCHANGED <<inbound, row, dropped>>
        PROVE  [Service!Next]_<<arrived, thread, Progress>>
    BY <1>3, NoneMoves, Zenon
  <1>4. ASSUME NEW p \in Procs, Msg(p) \in Msgs, Hand[p] = Msg(p),
               dropped' = dropped \cup {Msg(p)}, UNCHANGED <<inbound, row>>
        PROVE  [Service!Next]_<<arrived, thread, Progress>>
    <2>1. Hand[p] # 0
      BY <1>4 DEF Msgs
    <2>2. Msg(p) \in InHands
      BY <1>4, <2>1, HandHolds
    <2>3. Service!Refuse(Msg(p))
      BY <1>4, <2>2, RefuseStep
    <2> QED
      BY <1>1, <1>4, <2>3 DEF Service!Next
  <1>5. ASSUME NEW p \in Procs, At(p, "admit") \/ At(p, "open")
        PROVE  Msg(p) \in Msgs /\ Hand[p] = Msg(p)
    <2>1. /\ todo[p] # <<>> /\ Head(todo[p]).op \in {"admit", "open"}
          /\ Msg(p) \in Msgs /\ CallsOK
      BY <1>5, TopType DEF At, TypeOK
    <2> QED
      BY <2>1, CallsMessage DEF Taking
  <1>6. ASSUME NEW p \in Procs, Step(p)
        PROVE  [Service!Next]_<<arrived, thread, Progress>>
    <2>1. CASE Admit(p)
      <3>1. UNCHANGED <<inbound, row>> /\ At(p, "admit")
        BY <2>1 DEF Admit, turnVars
      <3>2. CASE Refuse(p)
        <4>1. dropped' = dropped \cup {Msg(p)}
          BY <3>2 DEF Refuse
        <4> QED
          BY <1>4, <1>5, <3>1, <4>1
      <3>3. CASE PassUngated(p) \/ TakeSlot(p) \/ Park(p)
        <4>1. UNCHANGED dropped
          BY <3>3 DEF PassUngated, TakeSlot, Park
        <4> QED
          BY <1>3, <3>1, <4>1
      <3> QED
        BY <2>1, <3>2, <3>3 DEF Admit
    <2>2. CASE OpenTurn(p)
      <3>1. Msg(p) \in Msgs /\ Service!Begin(Msg(p))
        BY <1>5, <2>2, BeginStep DEF OpenTurn
      <3> QED
        BY <1>1, <3>1 DEF Service!Next
    <2>3. CASE StartTurnFails(p)
      <3>1. /\ dropped' = dropped \cup {Msg(p)} /\ At(p, "open")
            /\ UNCHANGED <<inbound, row>>
        BY <2>3 DEF StartTurnFails, turnVars
      <3> QED
        BY <1>4, <1>5, <3>1
    <2>4. CASE TurnSlotFreed(p)
      <3>1. Service!End(Msg(p)) /\ Msg(p) \in Msgs
        BY <2>4, EndStep
      <3> QED
        BY <1>1, <3>1 DEF Service!Next
    <2>5. CASE EndThreadTurn(p) \/ SendTurn(p) \/ Forget(p)
      <3>1. UNCHANGED <<inbound, row, dropped>>
        BY <2>5 DEF EndThreadTurn, SendTurn, Forget, turnVars, queues
      <3> QED
        BY <1>3, <3>1
    <2> QED
      BY <1>6, <2>1, <2>2, <2>3, <2>4, <2>5, NoOfflineCall DEF Step
  <1>7. ASSUME NEW c \in Conns, Serve(c) \/ Connect(c) \/ Deliver(c) \/ Break(c)
        PROVE  [Service!Next]_<<arrived, thread, Progress>>
    <2>1. ReceiveFrame(c) \/ Deliver(c)
      BY <1>7, OnlyFrames
    <2>2. UNCHANGED <<inbound, row, dropped>>
      BY <2>1 DEF ReceiveFrame, Deliver, queues, turnVars
    <2> QED
      BY <1>3, <2>2
  <1>8. ~Sweep
    BY NeverSilent DEF Sweep
  <1>9. CASE RunnerEnds
    <2>1. UNCHANGED <<inbound, row, dropped>>
      BY <1>9 DEF RunnerEnds, queues, turnVars
    <2> QED
      BY <1>3, <2>1
  <1>10. ~Restart
    BY DEF Restart, Steady, TypeOK, RestartsOK
  <1>11. CASE UNCHANGED vars
    <2>1. UNCHANGED <<inbound, row, dropped>>
      BY <1>11 DEF vars, queues, turnVars
    <2> QED
      BY <1>3, <2>1
  <1> QED
    BY <1>2, <1>6, <1>7, <1>8, <1>9, <1>10, <1>11 DEF Next

(***************************************************************************)
(* A gateway whose runner stays connected implements ThreadService: with   *)
(* reservations, queues, slots, calls under way, a wire and a runner of    *)
(* its own, it still answers the messages of a thread one at a time in the *)
(* order they came, never more than the cap of them at once, and gives up  *)
(* only messages it has not begun.                                         *)
(***************************************************************************)
THEOREM ServiceCorrect == Steady => (Spec => ServiceSpec)
  <1> SUFFICES ASSUME Steady PROVE Spec => ServiceSpec
    OBVIOUS
  <1>1. Init => Service!Init
    <2> SUFFICES ASSUME Init PROVE Service!Init
      OBVIOUS
    <2>1. Service!ServiceMsgs = Msgs
      BY DEF Service!ServiceMsgs, Msgs
    <2>2. arrived = 0 /\ thread \in [Msgs -> Threads]
      BY DEF Init
    <2>3. \A m \in Msgs : m > arrived /\ row[m] = "none" /\ m \notin dropped
      BY <2>2 DEF Init, Msgs
    <2>4. Progress = [m \in Msgs |-> "new"]
      <3>1. ASSUME NEW m \in Msgs PROVE Progress[m] = "new"
        BY <2>3 DEF Progress
      <3>2. Progress = [m \in Msgs |-> Progress[m]]
        BY DEF Progress
      <3> HIDE DEF Progress
      <3> QED
        BY <3>1, <3>2
    <2> QED
      BY <2>1, <2>2, <2>4 DEF Service!Init
  <1>2. TypeOK /\ TypeOK' /\ PlacesInv /\ NoIdleSlot /\ SteadyInv /\ ProgressOK
          /\ ProgressOK' /\ [Next]_vars
          => [Service!Next]_<<arrived, thread, Progress>>
    BY NextServes
  <1>3. TypeOK /\ PlacesInv => ProgressOK
    BY ProgressCases
  <1> QED
    BY <1>1, <1>2, <1>3, TypeCorrect, PlacesInvariant, NoIdleSlotCorrect,
       SteadyInvariant, PTL DEF Spec, ServiceSpec, Service!Spec

-----------------------------------------------------------------------------
(* Who can still end a turn that is open *)

\* Messages whose turn's row some process is still to write.
Finishes(stack) ==
  {k.msg : k \in {c \in ToSet(stack) : c.op \in {"done", "error"}}}
Finishing == UNION {Finishes(todo[p]) : p \in Procs}

\* An open turn is in the map, or a process is about to write its end.
OpenKnown == \A m \in Msgs : row[m] = "running" => m \in turns \cup Finishing

\* Who takes an open turn out of the map later writes its end himself.
ForgetsLast ==
  \A p \in Procs : \A m \in Forgets(todo[p]) :
    row[m] = "running" => m \in Finishes(todo[p])

KnownOK == OpenKnown /\ ForgetsLast

(* A step of a process that returns into calls which forget nothing leaves *)
(* every other end to be written, and nothing new to be forgotten.         *)
LEMMA ReturnFinishes ==
  ASSUME CallsOK, NEW p \in Procs, todo[p] # <<>>,
         NEW calls \in Seq(CallSet), Return(p, calls), Forgets(calls) = {}
  PROVE  /\ \A m \in Finishing :
              m \in Finishing' \/ (Head(todo[p]).op \in {"done", "error"} /\ m = Msg(p))
         /\ \A q \in Procs : \A m \in Forgets(todo'[q]) :
              /\ m \in Forgets(todo[q])
              /\ m \in Finishes(todo[q]) =>
                   \/ m \in Finishes(todo'[q])
                   \/ Head(todo[p]).op \in {"done", "error"} /\ m = Msg(p)
         /\ At(p, "forget") => /\ Msg(p) \in Forgets(todo[p])
                               /\ Finishes(todo[p]) \subseteq Finishing'
  <1> DEFINE rest == Tail(todo[p])
             stack == calls \o rest
             gone == IF Head(todo[p]).op \in {"done", "error"} THEN {Msg(p)} ELSE {}
  <1>1. todo[p] \in Seq(CallSet) /\ rest \in Seq(CallSet)
    BY HeadTailProperties DEF CallsOK
  <1>2. ToSet(todo[p]) = {Head(todo[p])} \cup ToSet(rest)
    BY <1>1, HeadAndTail
  <1>3. ToSet(stack) = ToSet(calls) \cup ToSet(rest)
    <2>1. calls \in Seq(CallSet) /\ rest \in Seq(CallSet)
      BY <1>1
    <2> HIDE DEF rest
    <2> QED
      BY <2>1, JoinSets
  <1>4. \A q \in Procs : todo'[q] = IF q = p THEN stack ELSE todo[q]
    BY DEF Return, CallsOK
  <1> HIDE DEF rest, stack
  <1>5. Finishes(todo[p]) = gone \cup Finishes(rest)
    BY <1>2 DEF Finishes, Msg
  <1>6. Finishes(rest) \subseteq Finishes(stack)
    BY <1>3 DEF Finishes
  <1>7. Forgets(stack) \subseteq Forgets(todo[p])
    <2>1. Forgets(stack) = Forgets(calls) \cup Forgets(rest)
      BY <1>3 DEF Forgets
    <2>2. Forgets(rest) \subseteq Forgets(todo[p])
      BY <1>2 DEF Forgets
    <2> QED
      BY <2>1, <2>2
  <1>8. At(p, "forget") => Msg(p) \in Forgets(todo[p]) /\ gone = {}
    BY <1>2 DEF Forgets, At, Msg
  <1>9. \A q \in Procs : Finishes(todo[q]) \subseteq Finishes(todo'[q]) \cup gone
    BY <1>4, <1>5, <1>6
  <1>10. \A m \in gone : Head(todo[p]).op \in {"done", "error"} /\ m = Msg(p)
    OBVIOUS
  <1>11. \A q \in Procs : Forgets(todo'[q]) \subseteq Forgets(todo[q])
    BY <1>4, <1>7
  <1> HIDE DEF gone
  <1>12. \A m \in Finishing : m \in Finishing' \/ m \in gone
    BY <1>9 DEF Finishing
  <1>13. At(p, "forget") => Finishes(todo[p]) \subseteq Finishing'
    BY <1>8, <1>9 DEF Finishing
  <1> QED
    BY <1>8, <1>9, <1>10, <1>11, <1>12, <1>13

(* So a step that opens only turns it puts in the map, and takes a turn    *)
(* out only to close it or to forget it, leaves every open turn known.     *)
LEMMA ReturnKnown ==
  ASSUME TypeOK, PlacesInv, KnownOK, NEW p \in Procs, todo[p] # <<>>,
         NEW calls \in Seq(CallSet), Return(p, calls), Forgets(calls) = {},
         \A m \in Msgs : row'[m] = "running" =>
           row[m] = "running" \/ (m \in turns' /\ m \notin Opened),
         Head(todo[p]).op \in {"done", "error"} => row'[Msg(p)] # "running",
         \A m \in turns : \/ m \in turns'
                          \/ row'[m] # "running"
                          \/ At(p, "forget") /\ m = Msg(p)
  PROVE  KnownOK'
  <1>1. CallsOK
    BY DEF TypeOK
  <1>2. ASSUME NEW m \in Msgs, row'[m] = "running"
        PROVE  m \in turns' \cup Finishing'
    <2> SUFFICES ASSUME row[m] = "running", m \notin turns'
                 PROVE  m \in Finishing'
      BY <1>2
    <2>1. CASE m \in Finishing
      BY <1>1, <1>2, <2>1, ReturnFinishes
    <2>2. CASE m \in turns
      <3>1. At(p, "forget") /\ m = Msg(p)
        BY <1>2, <2>2
      <3>2. m \in Forgets(todo[p]) /\ Finishes(todo[p]) \subseteq Finishing'
        BY <1>1, <3>1, ReturnFinishes
      <3> QED
        BY <3>2 DEF KnownOK, ForgetsLast
    <2> QED
      BY <2>1, <2>2 DEF KnownOK, OpenKnown
  <1>3. ASSUME NEW q \in Procs, NEW m \in Forgets(todo'[q]), row'[m] = "running"
        PROVE  m \in Finishes(todo'[q])
    <2>1. /\ m \in Forgets(todo[q])
          /\ m \in Finishes(todo[q]) => m \in Finishes(todo'[q])
      BY <1>1, <1>3, ReturnFinishes
    <2>2. m \in Opened
      <3>1. m \in Serving
        BY <2>1 DEF Serving, Forgets, Served, Serves, Ops
      <3> QED
        BY <3>1 DEF PlacesInv, RowsFirst
    <2>3. row[m] = "running"
      BY <1>3, <2>2 DEF Opened
    <2> QED
      BY <2>1, <2>3 DEF KnownOK, ForgetsLast
  <1> QED
    BY <1>2, <1>3 DEF KnownOK, OpenKnown, ForgetsLast

(* A process with nothing to do that starts to end a turn knows it.        *)
LEMMA StartKnown ==
  ASSUME TypeOK, KnownOK, NEW p \in Procs, todo[p] = <<>>, NEW calls,
         Start(p, calls), Forgets(calls) \subseteq Finishes(calls), row' = row,
         \A m \in turns : m \in turns' \/ m \in Finishes(calls)
  PROVE  KnownOK'
  <1>1. \A q \in Procs : todo'[q] = IF q = p THEN calls ELSE todo[q]
    BY DEF Start, TypeOK, CallsOK
  <1>2. Finishes(<<>>) = {}
    BY DEF Finishes, ToSet
  <1>3. \A q \in Procs : Finishes(todo[q]) \subseteq Finishes(todo'[q])
    BY <1>1, <1>2
  <1>4. Finishing \subseteq Finishing' /\ Finishes(calls) \subseteq Finishing'
    <2>1. Finishes(todo'[p]) = Finishes(calls)
      BY <1>1
    <2> QED
      BY <1>3, <2>1 DEF Finishing
  <1>5. OpenKnown'
    BY <1>4 DEF KnownOK, OpenKnown
  <1>6. ForgetsLast'
    <2>1. ASSUME NEW q \in Procs, NEW m \in Forgets(todo'[q]), row'[m] = "running"
          PROVE  m \in Finishes(todo'[q])
      <3>1. CASE q = p
        BY <1>1, <2>1, <3>1
      <3>2. CASE q # p
        BY <1>1, <2>1, <3>2 DEF KnownOK, ForgetsLast
      <3> QED
        BY <3>1, <3>2
    <2> QED
      BY <2>1 DEF ForgetsLast
  <1> QED
    BY <1>5, <1>6 DEF KnownOK

(* A step that touches neither the rows nor the map nor any stack.         *)
LEMMA QuietKnown ==
  ASSUME KnownOK, UNCHANGED <<row, turns, todo>>
  PROVE  KnownOK'
  <1>1. Finishing' = Finishing
    BY DEF Finishing
  <1> QED
    BY <1>1 DEF KnownOK, OpenKnown, ForgetsLast

(* What the calls with which a turn ends write and forget.                 *)
LEMMA FinishWrites ==
  ASSUME NEW m, NEW kind
  PROVE  /\ Forgets(Finish(m, kind)) \subseteq Finishes(Finish(m, kind))
         /\ Forgets(<<Call("error", m), Call("endThread", m)>>) = {}
         /\ Finishes(<<Call("error", m), Call("endThread", m)>>) = {m}
  <1>1. \A op : Call(op, m).op = op /\ Call(op, m).msg = m
    BY DEF Call
  <1>2. \A a, b, c : ToSet(<<a, b, c>>) = {a, b, c}
    BY DEF ToSet
  <1>3. \A a, b : ToSet(<<a, b>>) = {a, b}
    BY DEF ToSet
  <1>4. \/ ToSet(Finish(m, kind)) =
             {Call("done", m), Call("endThread", m), Call("forget", m)}
        \/ ToSet(Finish(m, kind)) =
             {Call("forget", m), Call("error", m), Call("endThread", m)}
    BY <1>2 DEF Finish
  <1>5. ToSet(<<Call("error", m), Call("endThread", m)>>) =
          {Call("error", m), Call("endThread", m)}
    BY <1>3
  <1> QED
    BY <1>1, <1>4, <1>5 DEF Forgets, Finishes

(* A step of the call on top of a process's stack.                         *)
LEMMA StepKnown ==
  ASSUME TypeOK, PlacesInv, KnownOK, NEW p \in Procs, Step(p)
  PROVE  KnownOK'
  <1> DEFINE m == Msg(p)
  <1>1. /\ todo[p] # <<>> /\ m \in Msgs /\ CallsOK /\ row \in [Msgs -> Statuses]
    BY TopType DEF Step, Admit, TurnSlotFreed, StartTurnFails, SendTurn, Enqueue,
                   MarkQueued, AbandonTurn, Forget, EndThreadTurn, OpenTurn, At,
                   TypeOK, TurnsOK
  <1>2. ASSUME NEW op \in {"admit", "open", "enqueue", "mark", "abandon", "endThread"},
               NEW n \in Msgs
        PROVE  /\ <<Call(op, n)>> \in Seq(CallSet)
               /\ Forgets(<<Call(op, n)>>) = {}
    <2>1. op \in Ops
      BY <1>2 DEF Ops
    <2>2. Call(op, n) \in CallSet
      BY <2>1, CallType
    <2>3. <<Call(op, n)>> \in Seq(CallSet)
      BY <2>2
    <2> QED
      BY <2>3, CallEnds
  <1>3. CASE OpenTurn(p)
    <2>1. /\ turns' = turns \cup {m} /\ row' = [row EXCEPT ![m] = "running"]
          /\ Head(todo[p]).op = "open"
      BY <1>3 DEF OpenTurn, At
    <2>2. PICK calls \in Seq(CallSet) : Return(p, calls) /\ Forgets(calls) = {}
      <3>1. CASE Return(p, <<Call("enqueue", m)>>)
        BY <1>1, <1>2, <3>1
      <3>2. CASE Return(p, <<[op |-> "send", msg |-> m, conn |-> hub]>>)
        <4> DEFINE k == [op |-> "send", msg |-> m, conn |-> hub]
        <4>1. k \in CallSet /\ k.op = "send"
          BY <1>1 DEF TypeOK, HubOK, CallSet, Ops
        <4> HIDE DEF k
        <4>2. ToSet(<<k>>) = {k}
          BY DEF ToSet
        <4>3. Forgets(<<k>>) = {} /\ <<k>> \in Seq(CallSet)
          BY <4>1, <4>2 DEF Forgets
        <4> QED
          BY <3>2, <4>3 DEF k
      <3> QED
        BY <1>3, <3>1, <3>2 DEF OpenTurn
    <2>3. m \notin Opened
      <3>1. Hand[p] = m /\ m # 0
        <4>1. m # 0
          BY <1>1 DEF Msgs
        <4> QED
          BY <1>1, <2>1, <4>1, CallsMessage DEF Taking
      <3> QED
        BY <3>1, HandHolds DEF PlacesInv, PlacesApart
    <2>4. \A n \in Msgs : row'[n] = "running" =>
            row[n] = "running" \/ (n \in turns' /\ n \notin Opened)
      BY <1>1, <2>1, <2>3
    <2> QED
      BY <1>1, <2>1, <2>2, <2>4, ReturnKnown
  <1>4. CASE TurnSlotFreed(p)
    <2>1. /\ turns' = turns /\ row' = [row EXCEPT ![m] = Head(todo[p]).op]
          /\ Head(todo[p]).op \in {"done", "error"}
      BY <1>4 DEF TurnSlotFreed, At
    <2>2. PICK calls \in Seq(CallSet) : Return(p, calls) /\ Forgets(calls) = {}
      <3>1. waiting # <<>> => Head(waiting) \in Msgs
        BY HeadTailProperties DEF TypeOK, QueuesOK
      <3> QED
        BY <1>2, <1>4, <3>1, NoCalls DEF TurnSlotFreed
    <2> QED
      BY <1>1, <2>1, <2>2, ReturnKnown
  <1>5. CASE AbandonTurn(p)
    <2>1. /\ turns' = turns \ {m} /\ row' = [row EXCEPT ![m] = "error"]
          /\ Return(p, <<Call("endThread", m)>>)
          /\ Head(todo[p]).op = "abandon"
      BY <1>5 DEF AbandonTurn, At
    <2>2. /\ <<Call("endThread", m)>> \in Seq(CallSet)
          /\ Forgets(<<Call("endThread", m)>>) = {}
      BY <1>1, <1>2
    <2> QED
      BY <1>1, <2>1, <2>2, ReturnKnown
  <1>6. CASE Forget(p)
    <2>1. /\ turns' = turns \ {m} /\ row' = row /\ Return(p, <<>>)
          /\ At(p, "forget") /\ Head(todo[p]).op = "forget"
      BY <1>6 DEF Forget, At
    <2> QED
      BY <1>1, <2>1, NoCalls, ReturnKnown
  <1>7. CASE \/ EndThreadTurn(p) \/ Admit(p) \/ StartTurnFails(p) \/ SendTurn(p)
             \/ Enqueue(p) \/ MarkQueued(p)
    <2>1. /\ turns' = turns /\ row' = row
          /\ Head(todo[p]).op \notin {"done", "error"}
      BY <1>7 DEF EndThreadTurn, Admit, StartTurnFails, SendTurn, Enqueue,
                  MarkQueued, turnVars, At
    <2>2. PICK calls \in Seq(CallSet) : Return(p, calls) /\ Forgets(calls) = {}
      <3>1. CASE EndThreadTurn(p)
        <4> DEFINE t == thread[m]
        <4>1. t \in Threads /\ threadWaiting[t] \in Seq(Msgs)
          BY <1>1 DEF TypeOK, InboundOK, QueuesOK
        <4>2. \/ Return(p, <<>>)
              \/ /\ threadWaiting[t] # <<>>
                 /\ Return(p, <<Call("admit", Head(threadWaiting[t]))>>)
          BY <3>1 DEF EndThreadTurn, Promote, Release
        <4> HIDE DEF t
        <4>3. threadWaiting[t] # <<>> => Head(threadWaiting[t]) \in Msgs
          BY <4>1, HeadTailProperties
        <4> QED
          BY <1>2, <4>2, <4>3, NoCalls
      <3>2. CASE \/ Admit(p) \/ StartTurnFails(p) \/ SendTurn(p)
                 \/ Enqueue(p) \/ MarkQueued(p)
        <4>1. \/ Return(p, <<>>)
              \/ \E op \in {"open", "enqueue", "mark", "abandon"} :
                   Return(p, <<Call(op, m)>>)
          BY <3>2 DEF Admit, PassUngated, TakeSlot, Refuse, Park, StartTurnFails,
                      SendTurn, Enqueue, MarkQueued
        <4> QED
          BY <1>1, <1>2, <4>1, NoCalls
      <3> QED
        BY <1>7, <3>1, <3>2
    <2> QED
      BY <1>1, <2>1, <2>2, ReturnKnown
  <1> QED
    BY <1>3, <1>4, <1>5, <1>6, <1>7 DEF Step

(* A step of a connection's goroutine.                                     *)
LEMMA ServeKnown ==
  ASSUME TypeOK, PlacesInv, KnownOK, NEW c \in Conns, Serve(c)
  PROVE  KnownOK'
  <1>1. c \in Procs /\ row' = row
    BY ProcTypes DEF Serve, StartDrain, DrainSend, Drained, EndDrain,
           ReceiveFrame, HeartbeatTimeout, EndConn, RunnerReturned,
           StartReconcile, Reconcile, EndReconcile, turnVars
  <1>2. CASE \/ StartDrain(c) \/ EndDrain(c) \/ HeartbeatTimeout(c) \/ EndConn(c)
             \/ RunnerReturned(c) \/ StartReconcile(c) \/ EndReconcile(c)
    <2>1. UNCHANGED <<turns, todo>>
      BY <1>2 DEF StartDrain, EndDrain, HeartbeatTimeout, EndConn, RunnerReturned,
                  StartReconcile, EndReconcile, turnVars
    <2> QED
      BY <1>1, <2>1, QuietKnown
  <1>3. CASE DrainSend(c)
    <2>1. turns' = turns /\ todo[c] = <<>>
      BY <1>3 DEF DrainSend, turnVars, Idle
    <2>2. CASE UNCHANGED todo
      BY <1>1, <2>1, <2>2, QuietKnown
    <2>3. CASE Start(c, <<Call("drained", Head(drain[c]))>>)
      <3>1. Forgets(<<Call("drained", Head(drain[c]))>>) = {}
        BY CallEnds
      <3> QED
        BY <1>1, <2>1, <2>3, <3>1, StartKnown
    <2> QED
      BY <1>3, <2>2, <2>3 DEF DrainSend
  <1>4. CASE Drained(c)
    <2>1. /\ turns' = turns /\ Return(c, <<>>) /\ todo[c] # <<>>
          /\ Head(todo[c]).op = "drained"
      BY <1>4 DEF Drained, At
    <2> QED
      BY <1>1, <2>1, NoCalls, ReturnKnown
  <1>5. CASE ReceiveFrame(c)
    <2> DEFINE f == Head(up[c])
    <2>1. /\ turns' = turns /\ todo[c] = <<>>
          /\ UNCHANGED todo \/ Start(c, Finish(f.msg, f.kind))
      BY <1>5 DEF ReceiveFrame, turnVars, Idle
    <2> HIDE DEF f
    <2>2. CASE UNCHANGED todo
      BY <1>1, <2>1, <2>2, QuietKnown
    <2>3. CASE Start(c, Finish(f.msg, f.kind))
      <3>1. Forgets(Finish(f.msg, f.kind)) \subseteq Finishes(Finish(f.msg, f.kind))
        BY FinishWrites
      <3> QED
        BY <1>1, <2>1, <2>3, <3>1, StartKnown
    <2> QED
      BY <2>1, <2>2, <2>3
  <1>6. CASE Reconcile(c)
    <2>1. PICK m \in left[c] :
            IF m \in turns \ queued
            THEN /\ turns' = turns \ {m}
                 /\ Start(c, <<Call("error", m), Call("endThread", m)>>)
            ELSE UNCHANGED <<turns, todo>>
      BY <1>6 DEF Reconcile
    <2>2. todo[c] = <<>>
      BY <1>6 DEF Reconcile, Idle
    <2>3. CASE m \in turns \ queued
      <3>1. /\ Forgets(<<Call("error", m), Call("endThread", m)>>) = {}
            /\ Finishes(<<Call("error", m), Call("endThread", m)>>) = {m}
        BY FinishWrites
      <3> QED
        BY <1>1, <2>1, <2>2, <2>3, <3>1, StartKnown
    <2>4. CASE m \notin turns \ queued
      BY <1>1, <2>1, <2>4, QuietKnown
    <2> QED
      BY <2>3, <2>4
  <1> QED
    BY <1>2, <1>3, <1>4, <1>5, <1>6 DEF Serve

(* The sweep of silent turns.                                              *)
LEMMA SweepKnown ==
  ASSUME TypeOK, KnownOK, Sweep
  PROVE  KnownOK'
  <1>1. PICK m \in turns \ queued :
          /\ turns' = turns \ {m}
          /\ Start(Sweeper, <<Call("error", m), Call("endThread", m)>>)
    BY DEF Sweep
  <1>2. row' = row /\ todo[Sweeper] = <<>> /\ Sweeper \in Procs
    BY ProcTypes DEF Sweep, Idle
  <1>3. /\ Forgets(<<Call("error", m), Call("endThread", m)>>) = {}
        /\ Finishes(<<Call("error", m), Call("endThread", m)>>) = {m}
    BY FinishWrites
  <1> QED
    BY <1>1, <1>2, <1>3, StartKnown

(***************************************************************************)
(* A turn whose row says "running" is in the turns map, or some goroutine  *)
(* is about to write its end, across failing store writes, reconnects,     *)
(* reconcilers and restarts: no interleaving of the ways a turn can end    *)
(* leaves a row that nobody knows.                                         *)
(***************************************************************************)
THEOREM OpenTurnsKnown == Spec => []KnownOK
  <1>1. Init => KnownOK
    <2> SUFFICES ASSUME Init PROVE KnownOK
      OBVIOUS
    <2>1. \A p \in Procs : Forgets(todo[p]) = {}
      BY NoCalls DEF Init
    <2>2. \A m \in Msgs : row[m] # "running"
      BY DEF Init
    <2> QED
      BY <2>1, <2>2 DEF KnownOK, OpenKnown, ForgetsLast
  <1>2. TypeOK /\ PlacesInv /\ KnownOK /\ [Next]_vars => KnownOK'
    <2> SUFFICES ASSUME TypeOK, PlacesInv, KnownOK, [Next]_vars PROVE KnownOK'
      OBVIOUS
    <2>1. CASE OnMessage
      <3>1. /\ UNCHANGED <<row, turns>> /\ todo[Pump] = <<>>
            /\ UNCHANGED todo \/ Start(Pump, <<Call("admit", arrived + 1)>>)
        BY <2>1 DEF OnMessage, BeginThreadTurn, turnVars, Idle
      <3>2. Forgets(<<Call("admit", arrived + 1)>>) = {}
        BY CallEnds
      <3>3. Pump \in Procs
        BY BoundsAssumption DEF Pump, Procs
      <3> QED
        BY <3>1, <3>2, <3>3, StartKnown, QuietKnown
    <2>2. CASE \E p \in Procs : Step(p)
      BY <2>2, StepKnown
    <2>3. ASSUME NEW c \in Conns, Serve(c) \/ Connect(c) \/ Deliver(c) \/ Break(c)
          PROVE  KnownOK'
      <3>1. CASE Serve(c)
        BY <3>1, ServeKnown
      <3>2. CASE Connect(c) \/ Deliver(c) \/ Break(c)
        <4>1. UNCHANGED <<row, turns, todo>>
          BY <3>2 DEF Connect, Deliver, Break, turnVars
        <4> QED
          BY <4>1, QuietKnown
      <3> QED
        BY <2>3, <3>1, <3>2
    <2>4. CASE Sweep
      BY <2>4, SweepKnown
    <2>5. CASE RunnerEnds \/ UNCHANGED vars
      <3>1. UNCHANGED <<row, turns, todo>>
        BY <2>5 DEF RunnerEnds, vars, turnVars
      <3> QED
        BY <3>1, QuietKnown
    <2>6. CASE Restart
      <3>1. \A p \in Procs : todo'[p] = <<>>
        BY <2>6 DEF Restart
      <3>2. \A p \in Procs : Forgets(todo'[p]) = {}
        BY <3>1, NoCalls
      <3>3. \A m \in Msgs : row'[m] # "running"
        BY <2>6 DEF Restart
      <3> QED
        BY <3>2, <3>3 DEF KnownOK, OpenKnown, ForgetsLast
    <2> QED
      BY <2>1, <2>2, <2>3, <2>4, <2>5, <2>6 DEF Next
  <1> QED
    BY <1>1, <1>2, TypeCorrect, PlacesInvariant, PTL DEF Spec

(***************************************************************************)
(* The safety half of NoStrandedTurn.  An open turn that nothing can       *)
(* report on any more is in the turns map, where the sweep looks: it takes *)
(* the turn unless its queued flag is set.                                 *)
(***************************************************************************)
THEOREM SweepFindsSilent ==
  Spec => [](\A m \in Msgs : row[m] = "running" /\ Silent(m) => m \in turns)
  <1> DEFINE Found == \A m \in Msgs : row[m] = "running" /\ Silent(m) => m \in turns
  <1>1. TypeOK /\ KnownOK => Found
    <2> SUFFICES ASSUME TypeOK, KnownOK, NEW m \in Msgs, row[m] = "running",
                        Silent(m)
                 PROVE  m \notin Finishing
      BY DEF KnownOK, OpenKnown
    <2> SUFFICES ASSUME NEW p \in Procs, m \in Finishes(todo[p]) PROVE FALSE
      BY DEF Finishing
    <2>1. PICK k \in ToSet(todo[p]) : k.msg = m
      BY DEF Finishes
    <2>2. todo[p] \in Seq(CallSet)
      BY DEF TypeOK, CallsOK
    <2>3. PICK i \in 1 .. Len(todo[p]) : todo[p][i] = k
      BY <2>1, <2>2, LenProperties DEF ToSet
    <2> QED
      BY <2>1, <2>3 DEF Silent
  <1> HIDE DEF Found
  <1>2. Spec => []Found
    BY <1>1, TypeCorrect, OpenTurnsKnown, PTL
  <1> QED
    BY <1>2 DEF Found

-----------------------------------------------------------------------------
(* What follows while the runner stays connected *)

(***************************************************************************)
(* gateway.go:57 "at most one in-flight turn per thread", which a          *)
(* reconciler breaks, holds while the runner stays connected.              *)
(***************************************************************************)
THEOREM OneTurnPerThreadWhileConnected == Steady => (Spec => []OneTurnPerThread)
  <1> SUFFICES ASSUME Steady PROVE Spec => []OneTurnPerThread
    OBVIOUS
  <1>1. SteadyInv => OneTurnPerThread
    <2> SUFFICES ASSUME SteadyInv, NEW m \in Msgs, NEW n \in Msgs, m # n,
                        row[m] = "running", row[n] = "running"
                 PROVE  thread[m] # thread[n]
      BY DEF OneTurnPerThread
    <2>1. m \in Current /\ n \in Current
      BY DEF Current, Running
    <2> QED
      BY <2>1 DEF SteadyInv, OrderOK
  <1> QED
    BY <1>1, SteadyInvariant, PTL

(***************************************************************************)
(* gateway.go:80 "runnerQueue bounds how many turns a runner runs at       *)
(* once", which turns opened while it was away break, holds while the      *)
(* runner stays connected.                                                 *)
(***************************************************************************)
THEOREM WithinCapWhileConnected == Steady => (Spec => []WithinCap)
  <1> SUFFICES ASSUME Steady PROVE Spec => []WithinCap
    OBVIOUS
  <1>1. TypeOK /\ PlacesInv /\ NoIdleSlot /\ SteadyInv => WithinCap
    <2> SUFFICES ASSUME TypeOK, PlacesInv, NoIdleSlot, SteadyInv
                 PROVE  Cardinality(Running \ ToSet(offline)) <= MaxConcurrent
      BY DEF WithinCap, Running
    <2> DEFINE inUse == Running \cup Opening
               atRunner == Running \ ToSet(offline)
    <2>1. inUse \subseteq Msgs
      BY PlacesAreMsgs
    <2>2. IsFiniteSet(inUse)
      BY <2>1, MsgsFinite, FS_Subset
    <2>3. /\ IsFiniteSet(atRunner)
          /\ Cardinality(atRunner) <= Cardinality(inUse)
      BY <2>2, FS_Subset
    <2>4. Cardinality(atRunner) \in Nat /\ Cardinality(inUse) \in Nat
      BY <2>2, <2>3, FS_CardinalityType
    <2>5. /\ Cardinality(inUse) <= active /\ active <= MaxConcurrent
          /\ active \in Nat /\ MaxConcurrent \in Nat
      BY LimitsAssumption DEF SteadyInv, SlotsOK, NoIdleSlot, TypeOK, QueuesOK
    <2> HIDE DEF inUse, atRunner
    <2>6. Cardinality(atRunner) <= MaxConcurrent
      BY <2>3, <2>4, <2>5
    <2> QED
      BY <2>6 DEF atRunner
  <1> QED
    BY <1>1, TypeCorrect, PlacesInvariant, NoIdleSlotCorrect, SteadyInvariant, PTL

\* Every slot that is taken is taken for a turn that runs or is about to open.
SlotsTaken == active <= Cardinality(Running \cup Opening)

(* A step that takes no slot and finishes no turn keeps it.                *)
LEMMA TakenKept ==
  ASSUME TypeOK, SlotsTaken, active' = active,
         Running \cup Opening \subseteq Running' \cup Opening',
         Running' \cup Opening' \subseteq Msgs
  PROVE  SlotsTaken'
  <1> DEFINE A == Running \cup Opening
             B == Running' \cup Opening'
  <1>1. IsFiniteSet(B)
    BY MsgsFinite, FS_Subset
  <1>2. IsFiniteSet(A) /\ Cardinality(A) <= Cardinality(B)
    BY <1>1, FS_Subset
  <1>3. Cardinality(A) \in Nat /\ Cardinality(B) \in Nat /\ active \in Nat
    BY <1>1, <1>2, FS_CardinalityType DEF TypeOK, QueuesOK
  <1> QED
    BY <1>2, <1>3 DEF SlotsTaken

(* The turns about to be opened after a process's stack has changed.       *)
LEMMA OpeningStays ==
  ASSUME CallsOK, NEW p \in Procs, NEW stack, todo' = [todo EXCEPT ![p] = stack]
  PROVE  /\ Opening \subseteq Opening' \cup {Openers[p]}
         /\ ToOpen(stack) # 0 => ToOpen(stack) \in Opening'
         /\ Openers[p] = 0 => Opening \subseteq Opening'
  <1>1. \A q \in Procs : todo'[q] = IF q = p THEN stack ELSE todo[q]
    BY DEF CallsOK
  <1>2. \A q \in Procs : Openers'[q] = IF q = p THEN ToOpen(stack) ELSE Openers[q]
    BY <1>1 DEF Openers
  <1> HIDE DEF Openers
  <1> QED
    BY <1>2 DEF Opening

(* What a process returns into is what it is about to open.                *)
LEMMA ReturnOpens ==
  ASSUME CallsOK, NEW p \in Procs, todo[p] # <<>>,
         NEW n \in Msgs, Return(p, <<Call("open", n)>>)
  PROVE  n \in Opening' /\ Opening \subseteq Opening' \cup {Openers[p]}
  <1> DEFINE k == Call("open", n)
             rest == Tail(todo[p])
             stack == <<k>> \o rest
  <1>1. k \in CallSet /\ k.op = "open" /\ k.msg = n
    <2>1. "open" \in Ops
      BY DEF Ops
    <2> QED
      BY <2>1, CallType DEF Call
  <1>2. rest \in Seq(CallSet)
    BY HeadTailProperties DEF CallsOK
  <1>3. todo' = [todo EXCEPT ![p] = stack]
    BY DEF Return
  <1> HIDE DEF k, rest
  <1>4. stack # <<>> /\ Head(stack) = k
    BY <1>1, <1>2, PutOnTop
  <1> HIDE DEF stack
  <1>5. ToOpen(stack) = n /\ n # 0
    BY <1>1, <1>4 DEF ToOpen, Msgs
  <1> QED
    BY <1>3, <1>5, OpeningStays

(* A call other than one to open a turn leaves every turn about to be      *)
(* opened.                                                                 *)
LEMMA ReturnStays ==
  ASSUME CallsOK, NEW p \in Procs, todo[p] # <<>>,
         NEW calls, Return(p, calls)
  PROVE  /\ Opening \subseteq Opening' \cup {Openers[p]}
         /\ Head(todo[p]).op # "open" => Opening \subseteq Opening'
  <1>1. todo' = [todo EXCEPT ![p] = calls \o Tail(@)]
    BY DEF Return
  <1>2. todo' = [todo EXCEPT ![p] = calls \o Tail(todo[p])]
    BY <1>1 DEF CallsOK
  <1>3. Head(todo[p]).op # "open" => Openers[p] = 0
    BY DEF Openers, ToOpen
  <1> QED
    BY <1>2, <1>3, OpeningStays

(* The call on top of a process's stack is the turn it is about to open.   *)
LEMMA TopOpens ==
  ASSUME CallsOK, NEW p \in Procs, todo[p] # <<>>
  PROVE  /\ Head(todo[p]).op = "open" => Openers[p] = Msg(p)
         /\ Head(todo[p]).op # "open" => Openers[p] = 0
  BY DEF Openers, ToOpen, Msg

(* A step of the call on top of a process's stack.                         *)
LEMMA StepTaken ==
  ASSUME Steady, ~StoreErrors, TypeOK, TypeOK', PlacesInv, PlacesInv', SteadyInv,
         SlotsTaken, NEW p \in Procs, Step(p)
  PROVE  SlotsTaken'
  <1> DEFINE m == Msg(p)
  <1>1. /\ todo[p] # <<>> /\ m \in Msgs /\ CallsOK /\ row \in [Msgs -> Statuses]
        /\ active \in Nat
    BY TopType DEF Step, Admit, TurnSlotFreed, StartTurnFails, SendTurn, Enqueue,
                   MarkQueued, AbandonTurn, Forget, EndThreadTurn, OpenTurn, At,
                   TypeOK, TurnsOK, QueuesOK
  <1>2. Running \cup Opening \subseteq Msgs
    BY PlacesAreMsgs
  <1>3. Running' \cup Opening' \subseteq Msgs
    <2>1. Running' \subseteq Msgs
      BY DEF Running
    <2>2. Opening' \subseteq InHands'
      <3>1. ASSUME NEW q \in Procs, Openers'[q] # 0
            PROVE  Openers'[q] \in InHands'
        BY <3>1 DEF Openers, ToOpen, InHands, Hand, Taken, Taking
      <3> QED
        BY <3>1 DEF Opening
    <2>3. InHands' \subseteq Msgs
      BY BoundsAssumption DEF PlacesInv, Arrived, TypeOK, InboundOK, Msgs
    <2> QED
      BY <2>1, <2>2, <2>3
  <1>4. ~StartTurnFails(p) /\ ~Enqueue(p) /\ ~MarkQueued(p) /\ ~AbandonTurn(p)
    BY NoOfflineCall DEF StartTurnFails
  <1>5. /\ IsFiniteSet(Running \cup Opening) /\ IsFiniteSet(Running' \cup Opening')
        /\ Cardinality(Running \cup Opening) \in Nat
        /\ Cardinality(Running' \cup Opening') \in Nat
    BY <1>2, <1>3, MsgsFinite, FS_Subset, FS_CardinalityType
  <1>6. CASE EndThreadTurn(p) \/ SendTurn(p) \/ Forget(p)
    <2>1. /\ row' = row /\ active' = active /\ Head(todo[p]).op # "open"
      BY <1>6 DEF EndThreadTurn, SendTurn, Forget, turnVars, queues, At
    <2>2. \E calls : Return(p, calls)
      BY <1>6 DEF EndThreadTurn, Promote, Release, SendTurn, Forget
    <2>3. Opening \subseteq Opening'
      BY <1>1, <2>1, <2>2, ReturnStays
    <2>4. Running' = Running
      BY <2>1 DEF Running
    <2> QED
      BY <1>3, <2>1, <2>3, <2>4, TakenKept
  <1>7. CASE OpenTurn(p)
    <2>1. /\ row' = [row EXCEPT ![m] = "running"] /\ active' = active
          /\ Head(todo[p]).op = "open"
      BY <1>7 DEF OpenTurn, queues, At
    <2>2. \E calls : Return(p, calls)
      BY <1>7 DEF OpenTurn
    <2>3. Opening \subseteq Opening' \cup {m}
      BY <1>1, <2>1, <2>2, ReturnStays, TopOpens
    <2>4. Running \cup {m} \subseteq Running'
      BY <1>1, <2>1 DEF Running
    <2>5. Running \cup Opening \subseteq Running' \cup Opening'
      BY <2>3, <2>4
    <2> QED
      BY <1>3, <2>1, <2>5, TakenKept
  <1>8. CASE Admit(p)
    <2>1. row' = row /\ Head(todo[p]).op = "admit" /\ Openers[p] = 0
      BY <1>1, <1>8, TopOpens DEF Admit, turnVars, At
    <2>2. Running' = Running
      BY <2>1 DEF Running
    <2>3. ~PassUngated(p)
      BY DEF PassUngated, Gated, SteadyInv, LinkOK, Steady, NoConn
    <2>4. CASE TakeSlot(p)
      <3>1. active' = active + 1 /\ Return(p, <<Call("open", m)>>)
        BY <2>4 DEF TakeSlot
      <3>2. m \in Opening' /\ Opening \subseteq Opening'
        <4>1. /\ m \in Opening' /\ Opening \subseteq Opening' \cup {Openers[p]}
          BY <1>1, <3>1, ReturnOpens
        <4>2. 0 \notin Opening
          BY DEF Opening
        <4> QED
          BY <2>1, <4>1, <4>2
      <3>3. m \notin Running \cup Opening
        <4>1. Hand[p] = m /\ m # 0
          <5>1. m # 0
            BY <1>1 DEF Msgs
          <5> QED
            BY <1>1, <2>1, <5>1, CallsMessage DEF Taking
        <4>2. m \in InHands
          BY <4>1, HandHolds
        <4>3. m \notin Running
          BY <4>2, PlacesAreMsgs DEF Ahead, Waits
        <4>4. m \notin Opening
          <5> SUFFICES ASSUME NEW q \in Procs, Openers[q] = m PROVE FALSE
            BY DEF Opening
          <5>1. Hand[q] = m
            BY <4>1 DEF Openers, ToOpen, Hand, Taken, Taking
          <5>2. q = p
            BY <4>1, <5>1 DEF PlacesInv, OneHand
          <5> QED
            BY <2>1, <4>1, <5>2
        <4> QED
          BY <4>3, <4>4
      <3> DEFINE A == Running \cup Opening
                 B == Running' \cup Opening'
      <3>4. A \cup {m} \subseteq B
        BY <2>2, <3>2
      <3> HIDE DEF A, B
      <3>5. IsFiniteSet(A) /\ IsFiniteSet(B) /\ m \notin A
        BY <1>5, <3>3 DEF A, B
      <3>6. IsFiniteSet(A \cup {m}) /\ Cardinality(A \cup {m}) = Cardinality(A) + 1
        BY <3>5, FS_AddElement
      <3>7. Cardinality(A \cup {m}) <= Cardinality(B)
        BY <3>4, <3>5, FS_Subset
      <3>8. Cardinality(A) \in Nat /\ Cardinality(B) \in Nat /\ active <= Cardinality(A)
        BY <1>5 DEF A, B, SlotsTaken
      <3>9. active' <= Cardinality(B)
        BY <1>1, <3>1, <3>6, <3>7, <3>8
      <3> QED
        BY <3>9 DEF SlotsTaken, B
    <2>5. CASE Refuse(p) \/ Park(p)
      <3>1. active' = active /\ Return(p, <<>>)
        BY <2>5 DEF Refuse, Park
      <3>2. Opening \subseteq Opening'
        BY <1>1, <2>1, <3>1, ReturnStays
      <3> QED
        BY <1>3, <2>2, <3>1, <3>2, TakenKept
    <2> QED
      BY <1>8, <2>3, <2>4, <2>5 DEF Admit
  <1>9. CASE TurnSlotFreed(p)
    <2> DEFINE A == Running \cup Opening
               B == Running' \cup Opening'
    <2>1. /\ row' = [row EXCEPT ![m] = Head(todo[p]).op]
          /\ Head(todo[p]).op \in {"done", "error"} /\ Openers[p] = 0
      BY <1>1, <1>9, TopOpens DEF TurnSlotFreed, At
    <2>2. Running \ {m} \subseteq Running'
      BY <1>1, <2>1 DEF Running
    <2>3. Opening \subseteq Opening'
      <3>1. \E calls : Return(p, calls)
        BY <1>9 DEF TurnSlotFreed
      <3> QED
        BY <1>1, <2>1, <3>1, ReturnStays
    <2>4. A \ {m} \subseteq B
      BY <2>2, <2>3
    <2> HIDE DEF A, B
    <2>5. /\ IsFiniteSet(A) /\ IsFiniteSet(B) /\ active <= Cardinality(A)
          /\ Cardinality(A) \in Nat /\ Cardinality(B) \in Nat
      BY <1>5 DEF A, B, SlotsTaken
    <2>6. /\ IsFiniteSet(A \ {m}) /\ Cardinality(A \ {m}) \in Nat
          /\ Cardinality(A) <= Cardinality(A \ {m}) + 1
      <3>1. IsFiniteSet(A \ {m}) /\ Cardinality(A \ {m}) \in Nat
        BY <2>5, FS_Subset, FS_CardinalityType
      <3>2. CASE m \in A
        <4>1. Cardinality(A \ {m}) = Cardinality(A) - 1
          BY <2>5, <3>2, FS_RemoveElement
        <4> QED
          BY <2>5, <3>1, <4>1
      <3>3. CASE m \notin A
        <4>1. A \ {m} = A
          BY <3>3
        <4> QED
          BY <2>5, <3>1, <4>1
      <3> QED
        BY <3>2, <3>3
    <2>7. CASE waiting = <<>>
      <3>1. active' = Released
        BY <1>9, <2>7 DEF TurnSlotFreed
      <3>2. Cardinality(A \ {m}) <= Cardinality(B)
        BY <2>4, <2>5, FS_Subset
      <3>3. active' <= Cardinality(B)
        BY <1>1, <2>5, <2>6, <3>1, <3>2 DEF Released
      <3> QED
        BY <3>3 DEF SlotsTaken, B
    <2>8. CASE waiting # <<>>
      <3> DEFINE n == Head(waiting)
      <3>1. active' = Released + 1 /\ Return(p, <<Call("open", n)>>)
        BY <1>9, <2>8 DEF TurnSlotFreed
      <3>2. n \in Msgs /\ n \in AtRunner
        BY <2>8, HeadTailProperties, HeadAndTail DEF TypeOK, QueuesOK, AtRunner
      <3> HIDE DEF n
      <3>3. n \in B
        BY <1>1, <3>1, <3>2, ReturnOpens DEF B
      <3>4. n \notin A
        <4>1. n \notin Running
          BY <3>2, PlacesAreMsgs DEF Ahead, Waits
        <4>2. n \notin Opening
          BY <3>2, OpeningInHands DEF PlacesInv, PlacesApart
        <4> QED
          BY <4>1, <4>2 DEF A
      <3> DEFINE C == (A \ {m}) \cup {n}
      <3>5. C \subseteq B
        BY <2>4, <3>3
      <3>6. n \notin A \ {m}
        BY <3>4
      <3>7. IsFiniteSet(C) /\ Cardinality(C) = Cardinality(A \ {m}) + 1
        BY <2>6, <3>6, FS_AddElement
      <3> HIDE DEF C
      <3>8. Cardinality(C) <= Cardinality(B)
        BY <2>5, <3>5, FS_Subset
      <3>9. active' <= Cardinality(B)
        BY <1>1, <2>5, <2>6, <3>1, <3>7, <3>8 DEF Released
      <3> QED
        BY <3>9 DEF SlotsTaken, B
    <2> QED
      BY <2>7, <2>8
  <1> QED
    BY <1>4, <1>6, <1>7, <1>8, <1>9 DEF Step

(***************************************************************************)
(* While the runner stays connected and the store takes every write, no    *)
(* slot leaks: each one that is taken is taken for a turn that runs or is  *)
(* about to open.                                                          *)
(***************************************************************************)
THEOREM NoSlotLeaks == Steady /\ ~StoreErrors => (Spec => []SlotsTaken)
  <1> SUFFICES ASSUME Steady, ~StoreErrors PROVE Spec => []SlotsTaken
    OBVIOUS
  <1>1. Init => SlotsTaken
    <2> SUFFICES ASSUME Init PROVE SlotsTaken
      OBVIOUS
    <2>1. TypeOK /\ PlacesInv /\ active = 0
      BY InitType, InitPlaces DEF Init
    <2>2. Running \cup Opening \subseteq Msgs
      BY <2>1, PlacesAreMsgs
    <2>3. Cardinality(Running \cup Opening) \in Nat
      BY <2>2, MsgsFinite, FS_Subset, FS_CardinalityType
    <2> QED
      BY <2>1, <2>3 DEF SlotsTaken
  <1>2. /\ TypeOK /\ TypeOK' /\ PlacesInv /\ PlacesInv' /\ SteadyInv /\ SlotsTaken
        /\ [Next]_vars
        => SlotsTaken'
    <2> SUFFICES ASSUME TypeOK, TypeOK', PlacesInv, PlacesInv', SteadyInv,
                        SlotsTaken, [Next]_vars
                 PROVE  SlotsTaken'
      OBVIOUS
    <2>1. ASSUME row' = row, active' = active, Opening \subseteq Opening'
          PROVE  SlotsTaken'
      <3>1. Running' = Running
        BY <2>1 DEF Running
      <3>2. Opening' \subseteq Msgs
        <4>1. ASSUME NEW q \in Procs, Openers'[q] # 0
              PROVE  Openers'[q] \in InHands'
          BY <4>1 DEF Openers, ToOpen, InHands, Hand, Taken, Taking
        <4>2. Opening' \subseteq InHands'
          BY <4>1 DEF Opening
        <4>3. InHands' \subseteq Msgs
          BY BoundsAssumption DEF PlacesInv, Arrived, TypeOK, InboundOK, Msgs
        <4> QED
          BY <4>2, <4>3
      <3>3. Running' \cup Opening' \subseteq Msgs
        BY <3>1, <3>2 DEF Running
      <3> QED
        BY <2>1, <3>1, <3>3, TakenKept
    <2>2. ASSUME NEW p \in Procs, todo[p] = <<>>, NEW calls,
                 UNCHANGED todo \/ Start(p, calls)
          PROVE  Opening \subseteq Opening'
      <3>1. CASE UNCHANGED todo
        BY <3>1 DEF Opening, Openers
      <3>2. CASE Start(p, calls)
        <4>1. Openers[p] = 0 /\ CallsOK
          BY <2>2 DEF Openers, ToOpen, TypeOK
        <4>2. todo' = [todo EXCEPT ![p] = calls]
          BY <3>2 DEF Start
        <4> QED
          BY <4>1, <4>2, OpeningStays
      <3> QED
        BY <2>2, <3>1, <3>2
    <2>3. CASE OnMessage
      <3>1. /\ row' = row /\ active' = active /\ todo[Pump] = <<>>
            /\ UNCHANGED todo \/ Start(Pump, <<Call("admit", arrived + 1)>>)
        BY <2>3 DEF OnMessage, BeginThreadTurn, turnVars, Idle
      <3>2. Pump \in Procs
        BY BoundsAssumption DEF Pump, Procs
      <3>3. Opening \subseteq Opening'
        BY <2>2, <3>1, <3>2
      <3> QED
        BY <2>1, <3>1, <3>3
    <2>4. CASE \E p \in Procs : Step(p)
      BY <2>4, StepTaken
    <2>5. ASSUME NEW c \in Conns, Serve(c) \/ Connect(c) \/ Deliver(c) \/ Break(c)
          PROVE  SlotsTaken'
      <3>1. ReceiveFrame(c) \/ Deliver(c)
        BY <2>5, OnlyFrames
      <3>2. c \in Procs
        BY ProcTypes
      <3>3. CASE ReceiveFrame(c)
        <4>1. row' = row /\ active' = active /\ todo[c] = <<>>
          BY <3>3 DEF ReceiveFrame, turnVars, queues, Idle
        <4>2. UNCHANGED todo \/ \E calls : Start(c, calls)
          BY <3>3 DEF ReceiveFrame
        <4>3. Opening \subseteq Opening'
          BY <2>2, <3>2, <4>1, <4>2
        <4> QED
          BY <2>1, <4>1, <4>3
      <3>4. CASE Deliver(c)
        <4>1. row' = row /\ active' = active /\ todo' = todo
          BY <3>4 DEF Deliver, turnVars, queues
        <4>2. Opening' = Opening
          BY <4>1 DEF Opening, Openers
        <4> QED
          BY <2>1, <4>1, <4>2
      <3> QED
        BY <3>1, <3>3, <3>4
    <2>6. ~Sweep
      BY NeverSilent DEF Sweep
    <2>7. CASE RunnerEnds \/ UNCHANGED vars
      <3>1. row' = row /\ active' = active /\ todo' = todo
        BY <2>7 DEF RunnerEnds, vars, turnVars, queues
      <3>2. Opening' = Opening
        BY <3>1 DEF Opening, Openers
      <3> QED
        BY <2>1, <3>1, <3>2
    <2>8. ~Restart
      BY DEF Restart, Steady, TypeOK, RestartsOK
    <2> QED
      BY <2>3, <2>4, <2>5, <2>6, <2>7, <2>8 DEF Next
  <1> QED
    BY <1>1, <1>2, TypeCorrect, PlacesInvariant, SteadyInvariant, PTL DEF Spec

\* No goroutine has a call left, nothing is on its way between the gateway and
\* the runner, and the harness works on nothing.
AtRest ==
  /\ \A p \in Procs : todo[p] = <<>>
  /\ out[1] = <<>> /\ up[1] = <<>>
  /\ running = {}

(***************************************************************************)
(* The safety half of Answered: while the runner stays connected and the   *)
(* store takes every write, the gateway is at rest only when every message *)
(* that arrived has been answered, but for those of a thread that lost one *)
(* to a full queue.  Nothing waits for a thread, a slot or a frame that no *)
(* one will give back.                                                     *)
(***************************************************************************)
THEOREM AtRestAllAnswered ==
  Steady /\ ~StoreErrors =>
    (Spec => [](AtRest => \A m \in 1 .. arrived :
                            \/ row[m] \in {"done", "error"}
                            \/ \E n \in dropped : thread[n] = thread[m]))
  <1> SUFFICES ASSUME Steady, ~StoreErrors
               PROVE  Spec => [](AtRest => \A m \in 1 .. arrived :
                                   \/ row[m] \in {"done", "error"}
                                   \/ \E n \in dropped : thread[n] = thread[m])
    OBVIOUS
  <1> DEFINE Settled(m) == \/ row[m] \in {"done", "error"}
                           \/ \E n \in dropped : thread[n] = thread[m]
             AllServed == AtRest => \A m \in 1 .. arrived : Settled(m)
  <1>1. /\ TypeOK /\ PlacesInv /\ HeldOK /\ ParkedBehindTurn /\ NoIdleSlot
        /\ SteadyInv /\ SlotsTaken
        => AllServed
    <2> SUFFICES ASSUME TypeOK, PlacesInv, HeldOK, ParkedBehindTurn, NoIdleSlot,
                        SteadyInv, SlotsTaken, AtRest, NEW m \in 1 .. arrived
                 PROVE  Settled(m)
      OBVIOUS
    <2>1. \A p \in Procs : todo[p] = <<>>
      BY DEF AtRest
    <2>2. InHands = {} /\ Sending = {} /\ Opening = {} /\ Closing = {}
      <3>1. \A p \in Procs : Hand[p] = 0 /\ Senders[p] = 0 /\ Openers[p] = 0
        BY <2>1 DEF Hand, Taken, Senders, ToSend, Openers, ToOpen
      <3>2. \A p \in Procs : EndsThread(todo[p]) = {}
        BY <2>1 DEF EndsThread, ToSet
      <3> QED
        BY <3>1, <3>2 DEF InHands, Sending, Opening, Closing
    <2>3. Base = <<>>
      BY <2>1, SteadyConns DEF Base, Below
    <2>4. \A n \in Msgs : Base \notin Endings(n)
      BY <2>3 DEF Endings, Unwritten, Written
    <2>5. Running = {}
      <3>1. Ending = {}
        BY <2>4 DEF Ending, Endings
      <3>2. OnWire = {} /\ Reported = {}
        BY DEF AtRest, OnWire, Reported, MsgsOf, ToSet
      <3> QED
        BY <2>2, <3>1, <3>2 DEF SteadyInv, StagesOK, AtRest
    <2>6. turns = {}
      <3>1. turns \subseteq Msgs
        BY DEF TypeOK, TurnsOK
      <3> QED
        BY <2>4, <2>5, <3>1 DEF SteadyInv, MapOK
    <2>7. waiting = <<>>
      <3>1. active <= 0 /\ active \in Nat
        BY <2>2, <2>5, FS_EmptySet DEF SlotsTaken, TypeOK, QueuesOK
      <3> QED
        BY <3>1 DEF NoIdleSlot
    <2>8. AtRunner = {}
      BY <2>7 DEF AtRunner, ToSet
    <2>9. m \in Msgs /\ restarts = 0
      BY BoundsAssumption DEF TypeOK, InboundOK, RestartsOK, Msgs, Steady
    <2>10. m \in InThreads \/ m \in Opened \/ m \in dropped
      BY <2>2, <2>8, <2>9 DEF PlacesInv, Somewhere
    <2>11. CASE m \in Opened
      <3>1. row[m] \in {"done", "error"}
        BY <2>5, <2>9, <2>11 DEF Opened, Running, TypeOK, TurnsOK, Statuses
      <3> QED
        BY <3>1
    <2>12. CASE m \in dropped
      BY <2>12
    <2>13. CASE m \in InThreads
      <3>1. PICK t \in Threads : m \in ToSet(threadWaiting[t])
        BY <2>13 DEF InThreads
      <3>2. thread[m] = t /\ threadWaiting[t] # <<>>
        BY <3>1 DEF PlacesInv, QueuesApart, ToSet
      <3>3. t \in threadActive
        BY <3>2 DEF ParkedBehindTurn
      <3>4. PICK n \in Holders : thread[n] = t
        BY <3>3 DEF HeldOK
      <3>5. n \in dropped
        BY <2>2, <2>6, <2>8, <3>4 DEF Holders, Ahead, Waits
      <3> QED
        BY <3>2, <3>4, <3>5
    <2> QED
      BY <2>10, <2>11, <2>12, <2>13
  <1> HIDE DEF AllServed
  <1>2. Spec => []AllServed
    BY <1>1, TypeCorrect, PlacesInvariant, HeldInvariant, ParkedBehindTurnCorrect,
       NoIdleSlotCorrect, SteadyInvariant, NoSlotLeaks, PTL
  <1> QED
    BY <1>2 DEF AllServed
=============================================================================
