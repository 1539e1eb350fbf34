------------------------------ MODULE Working ------------------------------
(***************************************************************************)
(* The working indicator of the threads of one channel.  Turns set it,     *)
(* keep it alive and clear it; a ticker sets again what the surface would  *)
(* expire.  Each notes what it wants under a mutex, releases it, and hands *)
(* the call to one worker through a bounded queue that drops what does not *)
(* fit.  The surface may fail a call, or refuse the channel for good.      *)
(***************************************************************************)
EXTENDS Naturals, FiniteSets, SequencesExt

CONSTANTS
  Indicated,    \* threads of the channel
  OpsCap,       \* capacity of the worker's queue (256 in the code)
  MaxShows,     \* bound: turns, and frames that touch the indicator
  MaxHiccups    \* bound: expiries, failed and refused calls

ASSUME WorkingAssumption ==
  OpsCap \in Nat \ {0} /\ MaxShows \in Nat /\ MaxHiccups \in Nat

VARIABLES
  entries,  \* threads with an indicator to keep
  running,  \* of those, the ones of a turn that was dispatched
  holder,   \* thread -> the call its turn has noted and not handed over
  tick,     \* threads the ticker is about to set again
  ops,      \* the worker's queue
  worker,   \* the call the worker makes, or NoOp
  latched,  \* the channel is refused for good
  shown,    \* threads that show the indicator
  turnOn,   \* threads whose turn is in flight
  shows,    \* turns and touches so far
  hiccups   \* failures so far

workingVars == <<entries, running, holder, tick, ops, worker, latched, shown, turnOn,
                 shows, hiccups>>

Op(t, on) == [thread |-> t, on |-> on]
NoOp == Op("none", FALSE)

WorkingInit ==
  /\ entries = {} /\ running = {} /\ turnOn = {} /\ shown = {} /\ tick = {}
  /\ holder = [t \in Indicated |-> NoOp]
  /\ ops = <<>> /\ worker = NoOp
  /\ latched = FALSE
  /\ shows = 0 /\ hiccups = 0

Hiccup == hiccups < MaxHiccups /\ hiccups' = hiccups + 1
Holds(t, on) == holder' = [holder EXCEPT ![t] = Op(t, on)]

-----------------------------------------------------------------------------
(* The turn *)

\* Mutant: latched is looked at before the mutex is taken, and may be set since.
SeenEarlier == FALSE
Refusing == latched
\* setWorking: for a message that waits, or for a dispatched turn.
SetWorking(t, dispatched) ==
  /\ holder[t] = NoOp
  /\ IF dispatched THEN t \notin running /\ (t \in turnOn \/ shows < MaxShows)
                   ELSE t \notin turnOn /\ shows < MaxShows
  /\ shows' = IF t \in turnOn THEN shows ELSE shows + 1
  /\ turnOn' = turnOn \cup {t}
  /\ IF Refusing THEN UNCHANGED <<entries, running, holder>>
     ELSE /\ entries' = entries \cup {t}
          /\ running' = IF dispatched THEN running \cup {t} ELSE running
          /\ Holds(t, TRUE)
  /\ UNCHANGED <<tick, ops, worker, latched, shown, hiccups>>
\* touchWorking: whether the last call is long enough ago is left open.
TouchWorking(t) ==
  /\ holder[t] = NoOp /\ t \in entries \cap turnOn
  /\ shows < MaxShows /\ shows' = shows + 1
  /\ Holds(t, TRUE)
  /\ UNCHANGED <<entries, running, tick, ops, worker, latched, shown, turnOn, hiccups>>
ClearWorking(t) ==
  /\ holder[t] = NoOp /\ t \in turnOn
  /\ turnOn' = turnOn \ {t}
  /\ entries' = entries \ {t}
  /\ running' = running \ {t}
  /\ IF t \in entries THEN Holds(t, FALSE) ELSE UNCHANGED holder
  /\ UNCHANGED <<tick, ops, worker, latched, shown, shows, hiccups>>

\* sendWorking.
Queued(op) == IF Len(ops) < OpsCap THEN Append(ops, op) ELSE ops
HandOver(t) ==
  /\ holder[t] # NoOp
  /\ ops' = Queued(holder[t])
  /\ holder' = [holder EXCEPT ![t] = NoOp]
  /\ UNCHANGED <<entries, running, tick, worker, latched, shown, turnOn, shows, hiccups>>

-----------------------------------------------------------------------------
(* refreshWorking *)

\* A tick comes a minute after the last: the worker has caught up.
OnlyWaiting == entries \ running  \* mutant: a running turn's is not set again
Due == entries
TickWorking ==
  /\ tick = {} /\ Due # {} /\ ops = <<>> /\ worker = NoOp
  /\ tick' = Due
  /\ UNCHANGED <<entries, running, holder, ops, worker, latched, shown, turnOn, shows, hiccups>>
\* A waiting indicator past its window is forgotten, and expires by itself.
Forget(t) ==
  /\ tick = {} /\ t \in entries \ running
  /\ entries' = entries \ {t}
  /\ UNCHANGED <<running, holder, tick, ops, worker, latched, shown, turnOn, shows, hiccups>>
Refresh(t) ==
  /\ t \in tick
  /\ tick' = tick \ {t}
  /\ ops' = Queued(Op(t, TRUE))
  /\ UNCHANGED <<entries, running, holder, worker, latched, shown, turnOn, shows, hiccups>>

-----------------------------------------------------------------------------
(* runWorking, and the surface *)

TakeOp ==
  /\ worker = NoOp /\ ops # <<>>
  /\ worker' = IF latched THEN NoOp ELSE Head(ops)
  /\ ops' = Tail(ops)
  /\ UNCHANGED <<entries, running, holder, tick, latched, shown, turnOn, shows, hiccups>>
SetStatus ==
  /\ worker # NoOp
  /\ shown' = IF worker.on THEN shown \cup {worker.thread} ELSE shown \ {worker.thread}
  /\ worker' = NoOp
  /\ UNCHANGED <<entries, running, holder, tick, ops, latched, turnOn, shows, hiccups>>
StatusFails ==
  /\ Hiccup
  /\ worker # NoOp
  /\ worker' = NoOp
  /\ UNCHANGED <<entries, running, holder, tick, ops, latched, shown, turnOn, shows>>
StatusUnavailable ==
  /\ Hiccup
  /\ worker # NoOp
  /\ latched' = TRUE
  /\ entries' = {} /\ running' = {}
  /\ worker' = NoOp
  /\ UNCHANGED <<holder, tick, ops, shown, turnOn, shows>>
\* The surface expires the indicator, or clears it when the app posts.
Expires(t) ==
  /\ Hiccup
  /\ t \in shown
  /\ shown' = shown \ {t}
  /\ UNCHANGED <<entries, running, holder, tick, ops, worker, latched, turnOn, shows>>

-----------------------------------------------------------------------------
TurnShows(t) ==
  \/ \E dispatched \in BOOLEAN : SetWorking(t, dispatched)
  \/ TouchWorking(t)
  \/ ClearWorking(t)
Worker ==
  \/ TakeOp
  \/ SetStatus
WorkingNext ==
  \/ \E t \in Indicated : TurnShows(t) \/ HandOver(t) \/ Forget(t) \/ Refresh(t) \/ Expires(t)
  \/ TickWorking
  \/ Worker
  \/ StatusFails
  \/ StatusUnavailable

\* The worker and the ticker run for the life of the process; nothing a turn
\* does waits for them.
WorkingFairness ==
  /\ WF_workingVars(Worker)
  /\ WF_workingVars(TickWorking)
  /\ \A t \in Indicated : WF_workingVars(Refresh(t)) /\ WF_workingVars(HandOver(t))
WorkingSpec == WorkingInit /\ [][WorkingNext]_workingVars /\ WorkingFairness

-----------------------------------------------------------------------------
(* Properties *)

\* In a channel that refused it nothing keeps an indicator: neither one set
\* before nor one set while the refusal was on its way (runWorking, setWorking).
RefusedIsOff == latched => entries = {} /\ running = {}

\* Running turns get their indicators back after they were lost, whether they
\* expired, a call failed or the queue was full (refreshWorking).
ShownWhileRunning == []<>(running \subseteq shown)
=============================================================================
