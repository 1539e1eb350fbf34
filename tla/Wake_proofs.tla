------------------------------ MODULE Wake_proofs ------------------------------
(***************************************************************************)
(* What the wake objects and the working indicator keep, for any number of *)
(* messages, objects, threads and failures.                                *)
(***************************************************************************)
EXTENDS Wake, Working, TLAPS

-----------------------------------------------------------------------------
(* Waking: the inductive invariant *)

\* The runner's object and those that are marked have been made, as has the one a
\* message holds whose start is requested or whose loop is to be started: an
\* object that is made next is none of them.
WakeTypeOK ==
  /\ made \in 0 .. MaxStates /\ wake \in 0 .. made
  /\ retrying \subseteq 1 .. made
  /\ DOMAIN caller = Callers /\ DOMAIN holds = Callers /\ DOMAIN loopOf = Callers
  /\ \A m \in Callers : caller[m] \in {"start", "mark"} => holds[m] \in 1 .. made

\* A start that is being requested was marked on its object, and the mark stays
\* until it has been answered.
StartsMarked == \A m \in Callers : caller[m] = "start" => holds[m] \in recent

WakeInv == WakeTypeOK /\ StartsMarked /\ OneStartAtATime /\ PromisedRetry

(* The object found by the runner's name is the one it has, or one made just *)
(* now, which nothing has marked.                                            *)
LEMMA WakeStateForFinds ==
  ASSUME WakeInv, NEW o, WakeStateFor(o)
  PROVE  /\ wake' = o /\ made' \in 0 .. MaxStates /\ made <= made' /\ o \in 1 .. made'
         /\ o = wake \/ o \notin retrying
  <1>1. made \in Nat /\ wake \in Nat /\ made <= MaxStates /\ wake <= made /\ MaxStates \in Nat
        /\ \A r \in retrying : r \in 1 .. made
    BY WakeAssumption DEF WakeInv, WakeTypeOK
  <1>2. CASE wake # NoWake /\ o = wake /\ UNCHANGED <<wake, made>>
    BY <1>1, <1>2 DEF NoWake
  <1>3. CASE made < MaxStates /\ o = made + 1 /\ wake' = o /\ made' = o
    BY <1>1, <1>3
  <1> QED
    BY <1>2, <1>3 DEF WakeStateFor

(* A message that asks requests a start unless its object was marked: it is  *)
(* then the only one to do so of that object.                                *)
LEMMA RequestWakeStep ==
  ASSUME WakeInv, NEW m \in Callers, RequestWake(m)
  PROVE  WakeInv'
  <1>1. PICK o \in WakeIds :
          /\ WakeStateFor(o)
          /\ holds' = [holds EXCEPT ![m] = o]
          /\ \/ /\ caller' = [caller EXCEPT ![m] = "post"]
                /\ UNCHANGED recent
             \/ /\ o \notin recent
                /\ caller' = [caller EXCEPT ![m] = "start"]
                /\ recent' = recent \cup {o}
    BY DEF RequestWake, StepsTo, Marked
  <1>2. UNCHANGED <<retrying, loopOf>>
    BY DEF RequestWake, wakeLoops
  <1>3. /\ wake' = o /\ made' \in 0 .. MaxStates /\ made <= made' /\ o \in 1 .. made'
        /\ o = wake \/ o \notin retrying
        /\ made \in Nat
    BY <1>1, WakeStateForFinds, WakeAssumption DEF WakeInv, WakeTypeOK
  <1>4. /\ DOMAIN caller' = Callers /\ DOMAIN holds' = Callers /\ holds'[m] = o
        /\ \A n \in Callers \ {m} : caller'[n] = caller[n] /\ holds'[n] = holds[n]
    BY <1>1 DEF WakeInv, WakeTypeOK
  <1>5. WakeTypeOK'
    BY <1>1, <1>2, <1>3, <1>4, WakeAssumption DEF WakeInv, WakeTypeOK
  <1>6. StartsMarked' /\ OneStartAtATime'
    BY <1>1, <1>4 DEF WakeInv, WakeTypeOK, StartsMarked, OneStartAtATime
  <1>7. PromisedRetry'
    BY <1>2, <1>3, <1>1 DEF WakeInv, PromisedRetry, WakeStateFor, NoWake
  <1> QED
    BY <1>5, <1>6, <1>7 DEF WakeInv

(* A message's request moves on, and nothing it does next requests a start.  *)
LEMMA StepsToStep ==
  ASSUME WakeInv, NEW m \in Callers, NEW from, NEW to, StepsTo(m, from, to),
         to # "start", to = "mark" => from = "start",
         UNCHANGED <<wake, made, recent, retrying, holds, loopOf>>
  PROVE  WakeInv'
  <1>1. /\ DOMAIN caller' = Callers /\ caller'[m] = to /\ caller[m] = from
        /\ \A n \in Callers \ {m} : caller'[n] = caller[n]
    BY DEF StepsTo, WakeInv, WakeTypeOK
  <1>2. WakeTypeOK'
    BY <1>1 DEF WakeInv, WakeTypeOK
  <1>3. StartsMarked' /\ OneStartAtATime' /\ PromisedRetry'
    BY <1>1 DEF WakeInv, StartsMarked, OneStartAtATime, PromisedRetry
  <1> QED
    BY <1>2, <1>3 DEF WakeInv

(* A loop is started before its object promises one.                         *)
LEMMA StartLoopStep ==
  ASSUME WakeInv, NEW m \in Callers, StartLoop(m)
  PROVE  WakeInv'
  <1>1. /\ caller[m] = "mark" /\ DOMAIN caller' = Callers /\ caller'[m] = "post"
        /\ \A n \in Callers \ {m} : caller'[n] = caller[n]
        /\ DOMAIN loopOf' = Callers /\ loopOf'[m] = "sleep"
        /\ retrying' = retrying \cup {holds[m]}
        /\ UNCHANGED <<wake, made, recent, holds>>
    BY DEF StartLoop, StepsTo, WakeInv, WakeTypeOK
  <1>2. WakeTypeOK'
    BY <1>1 DEF WakeInv, WakeTypeOK
  <1>3. StartsMarked' /\ OneStartAtATime' /\ PromisedRetry'
    BY <1>1 DEF WakeInv, StartsMarked, OneStartAtATime, PromisedRetry
  <1> QED
    BY <1>2, <1>3 DEF WakeInv

(* A notice is listed with, or read from, the runner's object, whichever it  *)
(* is by now.                                                                *)
LEMMA FindsStep ==
  ASSUME WakeInv, NEW o, WakeStateFor(o),
         DOMAIN caller' = Callers, DOMAIN loopOf' = Callers,
         \A m \in Callers : caller'[m] \in {"start", "mark"} => caller'[m] = caller[m],
         \A m \in Callers : loopOf[m] = "sleep" => loopOf'[m] = "sleep",
         UNCHANGED <<recent, retrying, holds>>
  PROVE  WakeInv'
  <1>1. /\ wake' = o /\ made' \in 0 .. MaxStates /\ made <= made' /\ o \in 1 .. made'
        /\ o = wake \/ o \notin retrying
    BY WakeStateForFinds
  <1>2. made \in Nat
    BY WakeAssumption DEF WakeInv, WakeTypeOK
  <1>3. WakeTypeOK'
    <2>1. retrying' \subseteq 1 .. made' /\ wake' \in 0 .. made'
      BY <1>1, <1>2, WakeAssumption DEF WakeInv, WakeTypeOK
    <2>2. \A m \in Callers : caller'[m] \in {"start", "mark"} => holds'[m] \in 1 .. made'
      <3> SUFFICES ASSUME NEW m \in Callers, caller'[m] \in {"start", "mark"}
                   PROVE  holds'[m] \in 1 .. made'
        OBVIOUS
      <3>1. holds[m] \in 1 .. made /\ holds' = holds
        BY DEF WakeInv, WakeTypeOK
      <3> QED
        BY <1>1, <1>2, <3>1, WakeAssumption
    <2> QED
      BY <1>1, <2>1, <2>2 DEF WakeInv, WakeTypeOK
  <1>4. StartsMarked' /\ OneStartAtATime'
    BY DEF WakeInv, StartsMarked, OneStartAtATime
  <1>5. PromisedRetry'
    BY <1>1 DEF WakeInv, PromisedRetry, NoWake
  <1> QED
    BY <1>3, <1>4, <1>5 DEF WakeInv

(* A loop that ends takes its promise back from the object the runner has by *)
(* then; the one it was made on, if that is another, is the runner's no more.*)
LEMMA FinishStep ==
  ASSUME WakeInv, NEW m \in Callers, NEW at, NEW text, Finish(m, at, text),
         UNCHANGED <<caller, holds>>
  PROVE  WakeInv'
  <1>1. PICK o \in WakeIds :
          WakeStateFor(o) /\ retrying' = retrying \ {o} /\ recent' = recent \cup {o}
    BY DEF Finish, Unmarked
  <1>2. DOMAIN loopOf' = Callers
    BY DEF Finish, WakeInv, WakeTypeOK
  <1>3. /\ wake' = o /\ made' \in 0 .. MaxStates /\ made <= made' /\ o \in 1 .. made'
    BY <1>1, WakeStateForFinds
  <1>4. WakeTypeOK'
    <2>1. made \in Nat /\ retrying \subseteq 1 .. made
      BY WakeAssumption DEF WakeInv, WakeTypeOK
    <2>2. retrying' \subseteq 1 .. made' /\ wake' \in 0 .. made'
      BY <1>1, <1>3, <2>1, WakeAssumption
    <2>3. \A n \in Callers : caller'[n] \in {"start", "mark"} => holds'[n] \in 1 .. made'
      <3> SUFFICES ASSUME NEW n \in Callers, caller'[n] \in {"start", "mark"}
                   PROVE  holds'[n] \in 1 .. made'
        OBVIOUS
      <3>1. holds[n] \in 1 .. made /\ holds' = holds
        BY DEF WakeInv, WakeTypeOK
      <3> QED
        BY <1>3, <2>1, <3>1, WakeAssumption
    <2> QED
      BY <1>2, <1>3, <2>2, <2>3 DEF WakeInv, WakeTypeOK
  <1>5. StartsMarked' /\ OneStartAtATime' /\ PromisedRetry'
    BY <1>1, <1>3 DEF WakeInv, StartsMarked, OneStartAtATime, PromisedRetry
  <1> QED
    BY <1>4, <1>5 DEF WakeInv

(* What the host does leaves marks and loops; the runner's object is dropped *)
(* when it connects, and the interval is over when no start is requested.    *)
LEMMA HostStep ==
  ASSUME WakeInv, HostMoves
  PROVE  WakeInv'
  <1>1. CASE Connects
    <2>1. wake' = NoWake /\ UNCHANGED <<made, recent, retrying, caller, holds, loopOf>>
      BY <1>1 DEF Connects, wakeCalls, wakeLoops
    <2>2. NoWake \in 0 .. made
      BY WakeAssumption DEF WakeInv, WakeTypeOK, NoWake
    <2> QED
      BY <2>1, <2>2 DEF WakeInv, WakeTypeOK, StartsMarked, OneStartAtATime, PromisedRetry
  <1>2. CASE Greets \/ StopsItself \/ HasStopped
    <2>1. UNCHANGED <<wake, made, recent, retrying, caller, holds, loopOf>>
      BY <1>2 DEF Greets, StopsItself, HasStopped, wakeObjects, wakeCalls, wakeLoops
    <2> QED
      BY <2>1 DEF WakeInv, WakeTypeOK, StartsMarked, OneStartAtATime, PromisedRetry
  <1>3. CASE IntervalPasses
    <2>1. /\ UNCHANGED <<wake, made, retrying, caller, holds, loopOf>>
          /\ \A m \in Callers : caller[m] # "start"
      BY <1>3 DEF IntervalPasses, wakeCalls, wakeLoops
    <2> QED
      BY <2>1 DEF WakeInv, WakeTypeOK, StartsMarked, OneStartAtATime, PromisedRetry
  <1> QED
    BY <1>1, <1>2, <1>3 DEF HostMoves

(* Every step keeps the invariant.                                           *)
LEMMA WakeNextInv == WakeInv /\ [WakeNext]_wakeVars => WakeInv'
  <1> SUFFICES ASSUME WakeInv, [WakeNext]_wakeVars PROVE WakeInv'
    OBVIOUS
  <1>1. ASSUME NEW m \in Callers, QueueMessage(m) PROVE WakeInv'
    BY <1>1, StepsToStep DEF QueueMessage, wakeObjects, wakeLoops
  <1>2. ASSUME NEW m \in Callers, Asks(m) PROVE WakeInv'
    <2>1. CASE RequestWake(m)
      BY <2>1, RequestWakeStep
    <2>2. CASE StartMachine(m)
      <3>1. UNCHANGED <<wake, made, recent, retrying, holds, loopOf>>
        BY <2>2 DEF StartMachine, wakeObjects, wakeLoops
      <3>2. StepsTo(m, "start", "mark") \/ StepsTo(m, "start", "post")
        BY <2>2 DEF StartMachine
      <3> QED
        BY <3>1, <3>2, StepsToStep
    <2>3. CASE StartLoop(m)
      BY <2>3, StartLoopStep
    <2>4. CASE PostNotice(m)
      BY <2>4, StepsToStep DEF PostNotice, wakeObjects, wakeLoops
    <2>5. CASE ListNotice(m)
      <3>1. PICK o \in WakeIds : WakeStateFor(o)
        BY <2>5 DEF ListNotice
      <3>2. /\ caller' = [caller EXCEPT ![m] = "over"]
            /\ UNCHANGED <<recent, retrying, holds, loopOf>>
        BY <2>5 DEF ListNotice, StepsTo, wakeLoops
      <3>3. /\ DOMAIN caller' = Callers /\ DOMAIN loopOf' = Callers
            /\ \A n \in Callers : caller'[n] \in {"start", "mark"} => caller'[n] = caller[n]
        BY <3>2 DEF WakeInv, WakeTypeOK
      <3> QED
        BY <3>1, <3>2, <3>3, FindsStep
    <2> QED
      BY <1>2, <2>1, <2>2, <2>3, <2>4, <2>5 DEF Asks
  <1>3. ASSUME NEW m \in Callers, Retries(m) PROVE WakeInv'
    <2>1. CASE RetryOnline(m)
      BY <2>1, FinishStep DEF RetryOnline
    <2>2. CASE RetryStart(m)
      BY <2>2, FinishStep DEF RetryStart
    <2>3. CASE RetryExpires(m)
      BY <2>3, FinishStep DEF RetryExpires
    <2>4. CASE ReadNotices(m)
      <3>1. PICK o \in WakeIds : WakeStateFor(o)
        BY <2>4 DEF ReadNotices
      <3>2. /\ loopOf[m] = "read" /\ loopOf' = [loopOf EXCEPT ![m] = "edit"]
            /\ UNCHANGED <<recent, retrying, caller, holds>>
        BY <2>4 DEF ReadNotices, wakeCalls
      <3>3. /\ DOMAIN caller' = Callers /\ DOMAIN loopOf' = Callers
            /\ \A n \in Callers : loopOf[n] = "sleep" => loopOf'[n] = "sleep"
        BY <3>2 DEF WakeInv, WakeTypeOK
      <3> QED
        BY <3>1, <3>2, <3>3, FindsStep
    <2>5. CASE EditNotices(m)
      <3>1. /\ DOMAIN loopOf' = Callers /\ UNCHANGED <<wake, made, recent, retrying, caller, holds>>
            /\ \A n \in Callers : loopOf[n] = "sleep" => loopOf'[n] = "sleep"
        BY <2>5 DEF EditNotices, wakeObjects, wakeCalls, WakeInv, WakeTypeOK
      <3> QED
        BY <3>1 DEF WakeInv, WakeTypeOK, StartsMarked, OneStartAtATime, PromisedRetry
    <2> QED
      BY <1>3, <2>1, <2>2, <2>3, <2>4, <2>5 DEF Retries
  <1>4. CASE HostMoves
    BY <1>4, HostStep
  <1>5. CASE UNCHANGED wakeVars
    BY <1>5 DEF wakeVars, wakeObjects, wakeCalls, wakeLoops,
                WakeInv, WakeTypeOK, StartsMarked, OneStartAtATime, PromisedRetry
  <1> QED
    BY <1>1, <1>2, <1>3, <1>4, <1>5 DEF WakeNext

(* In every reachable state.                                                 *)
LEMMA WakeInvCorrect == WakeSpec => []WakeInv
  <1>1. WakeInit => WakeInv
    BY WakeAssumption
    DEF WakeInit, WakeInv, WakeTypeOK, StartsMarked, OneStartAtATime, PromisedRetry, NoWake
  <1> QED
    BY <1>1, WakeNextInv, PTL DEF WakeSpec

(* No two starts of one wake object are requested at a time, however many    *)
(* messages ask and whatever the runner does meanwhile (requestWake).        *)
THEOREM OneStartAtATimeCorrect == WakeSpec => []OneStartAtATime
  <1>1. WakeInv => OneStartAtATime
    BY DEF WakeInv
  <1> QED
    BY <1>1, WakeInvCorrect, PTL

(* As long as messages are told that the machine will be started, a retry    *)
(* loop is there to start it, though loops end by the runner's name and not  *)
(* by the object they were started on (retryWakeAfterStop).                  *)
THEOREM PromisedRetryCorrect == WakeSpec => []PromisedRetry
  <1>1. WakeInv => PromisedRetry
    BY DEF WakeInv
  <1> QED
    BY <1>1, WakeInvCorrect, PTL

-----------------------------------------------------------------------------
(* The working indicator *)

(* In a channel that refused the indicator nothing keeps one: setWorking     *)
(* looks under the mutex that runWorking forgets them under.                 *)
THEOREM RefusedIsOffCorrect == WorkingSpec => []RefusedIsOff
  <1>1. WorkingInit => RefusedIsOff
    BY DEF WorkingInit, RefusedIsOff
  <1>2. RefusedIsOff /\ [WorkingNext]_workingVars => RefusedIsOff'
    <2> SUFFICES ASSUME RefusedIsOff, [WorkingNext]_workingVars PROVE RefusedIsOff'
      OBVIOUS
    <2>1. ASSUME NEW t \in Indicated, TurnShows(t) PROVE RefusedIsOff'
      BY <2>1 DEF TurnShows, SetWorking, TouchWorking, ClearWorking, Refusing, RefusedIsOff
    <2>2. ASSUME NEW t \in Indicated, HandOver(t) \/ Forget(t) \/ Refresh(t) \/ Expires(t)
          PROVE  RefusedIsOff'
      BY <2>2 DEF HandOver, Forget, Refresh, Expires, RefusedIsOff
    <2>3. CASE TickWorking \/ Worker \/ StatusFails \/ StatusUnavailable
      BY <2>3 DEF TickWorking, Worker, TakeOp, SetStatus, StatusFails, StatusUnavailable,
                  RefusedIsOff
    <2>4. CASE UNCHANGED workingVars
      BY <2>4 DEF workingVars, RefusedIsOff
    <2> QED
      BY <2>1, <2>2, <2>3, <2>4 DEF WorkingNext
  <1> QED
    BY <1>1, <1>2, PTL DEF WorkingSpec

=============================================================================
