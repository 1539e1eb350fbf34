------------------------------- MODULE Wake -------------------------------
(***************************************************************************)
(* Starting a sleeping runner's machine when a message arrives.  Each      *)
(* message that is queued for the runner asks for a start, at most one per *)
(* interval; a machine caught while it shuts down is asked again by a      *)
(* retry loop; the notices posted about it are edited by the loop and when *)
(* the runner connects.                                                    *)
(*                                                                         *)
(* What the gateway keeps of a wake is an object found by the runner's     *)
(* name.  Connecting drops it while goroutines may still hold it, and the  *)
(* next one who asks makes another.                                        *)
(***************************************************************************)
EXTENDS Naturals, FiniteSets, SequencesExt

CONSTANTS
  MaxCallers, \* bound: messages queued for the runner
  MaxStates,  \* bound: wake objects
  MaxNaps     \* bound: times the machine stops itself, or a start fails

ASSUME WakeAssumption == MaxCallers \in Nat /\ MaxStates \in Nat /\ MaxNaps \in Nat

Callers == 1 .. MaxCallers
WakeIds == 1 .. MaxStates
NoWake  == 0

VARIABLES
  machine,  \* "stopped", "stopping" or "running"
  online,   \* the runner is connected
  wake,     \* the runner's wake object, or NoWake
  made,     \* wake objects made
  recent,   \* objects with a start request inside the interval
  retrying, \* objects marked as having a retry loop
  noticesOf,\* object -> callers whose notices it lists
  caller,   \* message -> where its goroutine is
  holds,    \* message -> the object it holds
  outcome,  \* message -> what its request came to
  loopOf,   \* message -> where the retry loop it started is
  edits2do, \* message -> notices its retry loop is about to edit
  greets,   \* notices wakeConnected is about to edit
  notice,   \* message -> what its notice says
  naps      \* stops and failures so far

wakeObjects == <<wake, made, recent, retrying, noticesOf>>
wakeCalls   == <<caller, holds, outcome>>
wakeLoops   == <<loopOf, edits2do>>
wakeHost    == <<machine, online, naps>>
wakeVars == <<wakeObjects, wakeCalls, wakeLoops, wakeHost, greets, notice>>

WakeInit ==
  /\ machine = "stopped" /\ online = FALSE /\ naps = 0
  /\ wake = NoWake /\ made = 0
  /\ recent = {} /\ retrying = {}
  /\ noticesOf = [o \in WakeIds |-> {}]
  /\ caller = [m \in Callers |-> "none"]
  /\ holds = [m \in Callers |-> NoWake]
  /\ outcome = [m \in Callers |-> "none"]
  /\ loopOf = [m \in Callers |-> "none"]
  /\ edits2do = [m \in Callers |-> {}]
  /\ greets = {}
  /\ notice = [m \in Callers |-> "none"]

\* wakeStateFor, under wakeMu: the runner's object, made if it has none.
WakeStateFor(o) ==
  \/ /\ wake # NoWake /\ o = wake
     /\ UNCHANGED <<wake, made>>
  \/ /\ wake = NoWake /\ made < MaxStates
     /\ o = made + 1
     /\ wake' = o /\ made' = o

StepsTo(m, from, to) == caller[m] = from /\ caller' = [caller EXCEPT ![m] = to]

-----------------------------------------------------------------------------
(* requestWake and postWakeNotice *)

QueueMessage(m) ==
  /\ ~online
  /\ StepsTo(m, "none", "request")
  /\ \A n \in Callers : n < m => caller[n] # "none"
  /\ UNCHANGED <<wakeObjects, holds, outcome, wakeLoops, wakeHost, greets, notice>>

MarksLater(o) == recent  \* mutant: the request is noted when it has been made
Marked(o) == recent \cup {o}
RequestWake(m) ==
  /\ caller[m] = "request"
  /\ \E o \in WakeIds :
       /\ WakeStateFor(o)
       /\ holds' = [holds EXCEPT ![m] = o]
       /\ IF o \in retrying \/ o \in recent
          THEN /\ StepsTo(m, "request", "post")
               /\ outcome' = [outcome EXCEPT ![m] = IF o \in retrying THEN "waiting" ELSE "starting"]
               /\ UNCHANGED recent
          ELSE /\ StepsTo(m, "request", "start")
               /\ recent' = Marked(o)
               /\ UNCHANGED outcome
  /\ UNCHANGED <<retrying, noticesOf, wakeLoops, wakeHost, greets, notice>>

\* The start request, and what it finds.
Starts ==
  /\ machine' = IF machine = "stopped" THEN "running" ELSE machine
  /\ UNCHANGED <<online, naps>>
Found == IF machine = "stopping" THEN "waiting" ELSE "starting"
Refused ==
  /\ naps < MaxNaps /\ naps' = naps + 1
  /\ UNCHANGED <<machine, online>>

StartMachine(m) ==
  /\ \/ /\ StepsTo(m, "start", IF Found = "waiting" THEN "mark" ELSE "post")
        /\ outcome' = [outcome EXCEPT ![m] = Found]
        /\ Starts
     \/ /\ StepsTo(m, "start", "post")
        /\ outcome' = [outcome EXCEPT ![m] = "failed"]
        /\ Refused
  /\ UNCHANGED <<wakeObjects, holds, wakeLoops, greets, notice>>
\* The object the request was made with is marked, whatever has become of it.
StartLoop(m) ==
  /\ StepsTo(m, "mark", "post")
  /\ retrying' = retrying \cup {holds[m]}
  /\ loopOf' = [loopOf EXCEPT ![m] = "sleep"]
  /\ UNCHANGED <<wake, made, recent, noticesOf, holds, outcome, edits2do, wakeHost, greets,
                 notice>>
PostNotice(m) ==
  /\ StepsTo(m, "post", "list")
  /\ notice' = [notice EXCEPT ![m] = outcome[m]]
  /\ UNCHANGED <<wakeObjects, holds, outcome, wakeLoops, wakeHost, greets>>
ListNotice(m) ==
  /\ StepsTo(m, "list", "over")
  /\ \E o \in WakeIds :
       /\ WakeStateFor(o)
       /\ noticesOf' = [noticesOf EXCEPT ![o] = @ \cup {m}]
  /\ UNCHANGED <<recent, retrying, holds, outcome, wakeLoops, wakeHost, greets, notice>>

-----------------------------------------------------------------------------
(* retryWakeAfterStop *)

ForgetsFlag(o) == retrying  \* mutant: the loop ends and stays marked
Unmarked(o) == retrying \ {o}
\* finish: by the runner's name, which may be another object by now.
Finish(m, at, text) ==
  /\ loopOf' = [loopOf EXCEPT ![m] = at]
  /\ outcome' = [outcome EXCEPT ![m] = text]
  /\ \E o \in WakeIds :
       /\ WakeStateFor(o)
       /\ retrying' = Unmarked(o)
       /\ recent' = recent \cup {o}

RetryOnline(m) ==
  /\ loopOf[m] = "sleep" /\ online
  /\ Finish(m, "over", outcome[m])
  /\ UNCHANGED <<noticesOf, caller, holds, edits2do, wakeHost, greets, notice>>
RetryStart(m) ==
  /\ loopOf[m] = "sleep" /\ ~online /\ machine # "stopping"
  /\ \/ Starts /\ Finish(m, "read", "starting")
     \/ Refused /\ Finish(m, "read", "failed")
  /\ UNCHANGED <<noticesOf, caller, holds, edits2do, greets, notice>>
\* The retry window closes.
RetryExpires(m) ==
  /\ loopOf[m] = "sleep"
  /\ Finish(m, "read", "failed")
  /\ UNCHANGED <<noticesOf, caller, holds, edits2do, wakeHost, greets, notice>>
\* editWakeNotices: the notices are listed under wakeMu and edited without it.
ReadNotices(m) ==
  /\ loopOf[m] = "read"
  /\ loopOf' = [loopOf EXCEPT ![m] = "edit"]
  /\ \E o \in WakeIds :
       /\ WakeStateFor(o)
       /\ edits2do' = [edits2do EXCEPT ![m] = noticesOf[o]]
  /\ UNCHANGED <<recent, retrying, noticesOf, wakeCalls, wakeHost, greets, notice>>
EditNotices(m) ==
  /\ loopOf[m] = "edit"
  /\ loopOf' = [loopOf EXCEPT ![m] = "over"]
  /\ notice' = [n \in Callers |-> IF n \in edits2do[m] THEN outcome[m] ELSE notice[n]]
  /\ edits2do' = [edits2do EXCEPT ![m] = {}]
  /\ UNCHANGED <<wakeObjects, wakeCalls, wakeHost, greets>>

-----------------------------------------------------------------------------
(* The runner, and the clock *)

\* drainQueue's wakeConnected: the object is dropped, its notices are edited.
Connects ==
  /\ machine = "running" /\ ~online
  /\ online' = TRUE
  /\ greets' = IF wake = NoWake THEN greets ELSE greets \cup noticesOf[wake]
  /\ wake' = NoWake
  /\ UNCHANGED <<made, recent, retrying, noticesOf, wakeCalls, wakeLoops, machine, naps, notice>>
Greets ==
  /\ greets # {}
  /\ notice' = [n \in Callers |-> IF n \in greets THEN "awake" ELSE notice[n]]
  /\ greets' = {}
  /\ UNCHANGED <<wakeObjects, wakeCalls, wakeLoops, wakeHost>>
StopsItself ==
  /\ naps < MaxNaps /\ naps' = naps + 1
  /\ machine = "running"
  /\ online' = FALSE /\ machine' = "stopping"
  /\ UNCHANGED <<wakeObjects, wakeCalls, wakeLoops, greets, notice>>
HasStopped ==
  /\ machine = "stopping"
  /\ machine' = "stopped"
  /\ UNCHANGED <<wakeObjects, wakeCalls, wakeLoops, online, naps, greets, notice>>
\* The interval is longer than a start request may take.
IntervalPasses ==
  /\ wake \in recent
  /\ \A m \in Callers : caller[m] # "start"
  /\ recent' = recent \ {wake}
  /\ UNCHANGED <<wake, made, retrying, noticesOf, wakeCalls, wakeLoops, wakeHost, greets, notice>>

-----------------------------------------------------------------------------
Asks(m) ==
  \/ RequestWake(m)
  \/ StartMachine(m)
  \/ StartLoop(m)
  \/ PostNotice(m)
  \/ ListNotice(m)
Retries(m) ==
  \/ RetryOnline(m)
  \/ RetryStart(m)
  \/ RetryExpires(m)
  \/ ReadNotices(m)
  \/ EditNotices(m)
HostMoves ==
  \/ Connects
  \/ Greets
  \/ StopsItself
  \/ HasStopped
  \/ IntervalPasses
WakeNext ==
  \/ \E m \in Callers : QueueMessage(m) \/ Asks(m) \/ Retries(m)
  \/ HostMoves

WakeSpec == WakeInit /\ [][WakeNext]_wakeVars

-----------------------------------------------------------------------------
(* Properties *)

\* A burst of messages to a sleeping host is one start request of theirs, also
\* while that request is being answered (requestWake).
OneStartAtATime ==
  \A m, n \in Callers :
    m # n /\ caller[m] = "start" /\ caller[n] = "start" => holds[m] # holds[n]

\* The mark of a retry loop does not outlive it: as long as messages are told the
\* machine will be started once it has stopped, a loop is there to start it, or
\* has been started and is about to run (retryWakeAfterStop).
PromisedRetry ==
  wake # NoWake /\ wake \in retrying => \E m \in Callers : loopOf[m] = "sleep"
=============================================================================
