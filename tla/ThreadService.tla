--------------------------- MODULE ThreadService ---------------------------
(***************************************************************************)
(* What the gateway promises the conversations it serves, with no queue,   *)
(* goroutine or lock in sight: the messages of a thread are answered one   *)
(* at a time in the order they came, and the runner never works on more    *)
(* than its cap at once.  (gateway.go:55-86, inbound.go:190-195)           *)
(***************************************************************************)
EXTENDS Naturals, FiniteSets

CONSTANTS
  Threads,   \* conversation threads
  MaxMsgs,   \* bound: messages
  Cap        \* most turns at once; 0 is no cap

ServiceMsgs == 1 .. MaxMsgs

VARIABLES
  arrived,   \* how many messages have come
  thread,    \* message -> its thread
  served     \* message -> how far its service is

Init ==
  /\ arrived = 0
  /\ thread \in [ServiceMsgs -> Threads]
  /\ served = [m \in ServiceMsgs |-> "new"]

Earlier(m) == {n \in 1 .. m - 1 : thread[n] = thread[m]}
Running    == {m \in ServiceMsgs : served[m] = "running"}
Move(m, from, to) ==
  /\ served[m] = from
  /\ served' = [served EXCEPT ![m] = to]

Accept ==
  /\ arrived < MaxMsgs
  /\ arrived' = arrived + 1
  /\ Move(arrived + 1, "new", "accepted")
  /\ UNCHANGED thread

Begin(m) ==
  /\ \A n \in Earlier(m) : served[n] = "ended"
  /\ Cap > 0 => Cardinality(Running) < Cap
  /\ Move(m, "accepted", "running")
  /\ UNCHANGED <<arrived, thread>>

End(m) ==
  /\ Move(m, "running", "ended")
  /\ UNCHANGED <<arrived, thread>>

Refuse(m) ==
  /\ Move(m, "accepted", "refused")
  /\ UNCHANGED <<arrived, thread>>

Next == Accept \/ \E m \in ServiceMsgs : Begin(m) \/ End(m) \/ Refuse(m)

Spec == Init /\ [][Next]_<<arrived, thread, served>>
=============================================================================
