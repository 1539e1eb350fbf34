------------------------------ MODULE Sessions ------------------------------
(***************************************************************************)
(* The runner's harness sessions: one process per conversation thread.     *)
(*                                                                         *)
(* Every message has a goroutine (handleMessage) that starts or finds its  *)
(* thread's session and hands it the input.  Starting one may first have   *)
(* to evict others (makeRoom); a ticker reaps quiet ones (sweepIdle); one  *)
(* goroutine per process forwards its events (pumpEvents), also for a      *)
(* process that was replaced.  They meet at each thread's mutex, which is  *)
(* held from before makeRoom until the new process is in place.            *)
(*                                                                         *)
(* Messages and the turns they carry have one number.  The gateway sends a *)
(* thread's next message when a frame has ended the previous one's turn.   *)
(* A session id is the number of the process that began the conversation.  *)
(***************************************************************************)
EXTENDS Naturals, FiniteSets, SequencesExt

CONSTANTS
  SThreads,    \* conversation threads
  MaxSessions, \* the runner's cap on live processes; 0 is no cap
  EventCap,    \* capacity of a process's event channel (256 in the code)
  MaxMessages, \* bound: messages
  MaxProcs,    \* bound: processes started
  MaxMishaps   \* bound: failed starts and writes, crashes and restarts

ASSUME SessionsAssumption ==
  /\ IsFiniteSet(SThreads) /\ "none" \notin SThreads
  /\ MaxSessions \in Nat /\ EventCap \in Nat \ {0}
  /\ MaxMessages \in Nat /\ MaxProcs \in Nat /\ MaxMishaps \in Nat

Messages == 1 .. MaxMessages
ProcIds  == 1 .. MaxProcs
None     == 0

VARIABLES
  got,      \* messages received
  about,    \* message -> its thread
  job,      \* message -> where its goroutine is
  room,     \* message -> what its makeRoom has found: how many to evict, of whom
  mu,       \* thread -> message whose goroutine holds sessionMu, or None
  sess,     \* thread -> its process, or None
  known,    \* thread -> the session id to resume, or None
  current,  \* thread -> the turn it works on or worked on last
  busy,     \* threads in the middle of a turn
  started,  \* processes started
  proc,     \* process -> its state
  reported, \* turns a Done or Error frame was sent for
  index,    \* thread -> session id in memory, the map to be persisted
  disk,     \* thread -> session id in the state directory
  sweep,    \* the thread sweepIdle has found quiet, or "none"
  marker,   \* the activity marker exists
  mishaps,  \* failures so far
  unsaved,  \* a write of the index has failed
  heard     \* thread -> session ids its processes have announced, for checking

jobs    == <<got, about, job, room>>
threads == <<mu, sess, known, current, busy>>
procs   == <<started, proc>>
saved   == <<index, disk, unsaved>>
rest    == <<sweep, marker, mishaps, heard>>
sessionVars == <<jobs, threads, procs, reported, saved, rest>>

NoProc == [thread |-> "none", sid |-> None, prior |-> {}, running |-> FALSE,
           alive |-> FALSE, work |-> <<>>, events |-> <<>>, pump |-> "none"]
NoRoom == [need |-> 0, victims |-> {}]

SessionsInit ==
  /\ got = 0
  /\ about = [m \in Messages |-> "none"]
  /\ job = [m \in Messages |-> "none"]
  /\ room = [m \in Messages |-> NoRoom]
  /\ mu = [t \in SThreads |-> None]
  /\ sess = [t \in SThreads |-> None]
  /\ known = [t \in SThreads |-> None]
  /\ current = [t \in SThreads |-> None]
  /\ busy = {}
  /\ started = 0
  /\ proc = [p \in ProcIds |-> NoProc]
  /\ reported = {}
  /\ index = [t \in SThreads |-> None]
  /\ disk = [t \in SThreads |-> None]
  /\ unsaved = FALSE
  /\ sweep = "none" /\ marker = FALSE /\ mishaps = 0
  /\ heard = [t \in SThreads |-> {}]

Live(t) == sess[t] # None /\ proc[sess[t]].running
Mishap == mishaps < MaxMishaps /\ mishaps' = mishaps + 1
Moves(m, from, to) == job[m] = from /\ job' = [job EXCEPT ![m] = to]
KeepsLock(t) == UNCHANGED mu  \* mutant: a path out leaves the mutex locked
Unlock(t) == mu' = [mu EXCEPT ![t] = None]

\* session.Close: the process is not running from our side, and is killed.
Closed(p) == [proc EXCEPT ![p].running = FALSE]

-----------------------------------------------------------------------------
(* handleMessage *)

Receive(t) ==
  /\ got < MaxMessages
  /\ \A m \in 1 .. got : about[m] = t => m \in reported
  /\ got' = got + 1
  /\ about' = [about EXCEPT ![got + 1] = t]
  /\ job' = [job EXCEPT ![got + 1] = "lock"]
  /\ UNCHANGED <<room, threads, procs, reported, saved, rest>>

\* sessionFor takes the thread's mutex; a live session is used as it is.
Lock(m) ==
  LET t == about[m] IN
  /\ job[m] = "lock"
  /\ mu[t] = None
  /\ \/ /\ Live(t)
        /\ Moves(m, "lock", "turn")
        /\ UNCHANGED mu
     \/ /\ ~Live(t)
        /\ Moves(m, "lock", "scan")
        /\ mu' = [mu EXCEPT ![t] = m]
  /\ UNCHANGED <<got, about, room, sess, known, current, busy, procs, reported,
                 saved, rest>>

\* makeRoom's scan.  A thread whose mutex is held counts as resident.
Unseen(t) == FALSE  \* mutant: a session in mid-start is not counted
Locked(t) == mu[t] # None
Resident(t) == {u \in SThreads \ {t} : Locked(u) \/ Live(u)}
Evictable(t) == {u \in Resident(t) : ~Locked(u) /\ u \notin busy}
\* Mutant: the scan locks each session, and waits for those in mid-start.
WaitsForLocks(m) == \A u \in SThreads \ {about[m]} : ~Locked(u)
\* TryLock: the scan waits for no mutex.
CanScan(m) == TRUE
Scan(m) ==
  LET t == about[m]  n == Cardinality(Resident(t)) IN
  /\ CanScan(m)
  /\ room' = [room EXCEPT ![m] =
       [need |-> IF n < MaxSessions THEN 0 ELSE n - MaxSessions + 1,
        victims |-> IF n < MaxSessions THEN {} ELSE Evictable(t)]]
  /\ Moves(m, "scan", IF MaxSessions = 0 THEN "start" ELSE "room")
  /\ UNCHANGED <<got, about, threads, procs, reported, saved, rest>>

\* One victim, looked at again under its mutex; longest idle first, in any order
\* here.
AsScanned(u) == mu[u] = None /\ Live(u)  \* mutant: no second look at the turn
StillIdle(u) == mu[u] = None /\ u \notin busy /\ Live(u)
Evict(m, u) ==
  /\ job[m] = "room" /\ room[m].need > 0 /\ u \in room[m].victims
  /\ \/ /\ StillIdle(u)
        /\ proc' = Closed(sess[u])
        /\ sess' = [sess EXCEPT ![u] = None]
        /\ room' = [room EXCEPT ![m] = [need |-> @.need - 1, victims |-> @.victims \ {u}]]
     \/ /\ ~StillIdle(u)
        /\ room' = [room EXCEPT ![m].victims = @ \ {u}]
        /\ UNCHANGED <<proc, sess>>
  /\ UNCHANGED <<got, about, job, mu, known, current, busy, started, reported,
                 saved, rest>>

\* fail: the turn is reported, and its goroutine is over.
Fail(m, at) ==
  /\ Moves(m, at, "over")
  /\ reported' = reported \cup {m}

HasRoom(m) ==
  /\ room[m].need = 0
  /\ Moves(m, "room", "start")
  /\ UNCHANGED <<got, about, room, threads, procs, reported, saved, rest>>
NoRoomLeft(m) ==
  /\ room[m].need > 0 /\ room[m].victims = {}
  /\ Fail(m, "room")
  /\ Unlock(about[m])
  /\ UNCHANGED <<got, about, room, sess, known, current, busy, procs, saved, rest>>

\* The adapter starts the process, resuming the thread's session if it has one.
StartsOver(t) == None  \* mutant: the id is not passed on
ResumeID(t) == known[t]
Started(t, p) ==
  [NoProc EXCEPT !.thread = t, !.running = TRUE, !.alive = TRUE, !.pump = "read",
     !.sid = IF ResumeID(t) = None THEN p ELSE ResumeID(t), !.prior = heard[t]]
StartProc(m) ==
  LET t == about[m]  p == started + 1 IN
  /\ p <= MaxProcs
  /\ Moves(m, "start", "turn")
  /\ started' = p
  /\ proc' = [proc EXCEPT ![p] = Started(t, p)]
  /\ sess' = [sess EXCEPT ![t] = p]
  /\ Unlock(t)
  /\ UNCHANGED <<got, about, room, known, current, busy, reported, saved, rest>>
StartFails(m) ==
  /\ IF started = MaxProcs THEN UNCHANGED mishaps ELSE Mishap
  /\ Fail(m, "start")
  /\ Unlock(about[m])
  /\ UNCHANGED <<got, about, room, sess, known, current, busy, procs, saved,
                 sweep, marker, heard>>

\* setTurn and touchActive.
SetTurn(m) ==
  /\ Moves(m, "turn", "send")
  /\ current' = [current EXCEPT ![about[m]] = m]
  /\ busy' = busy \cup {about[m]}
  /\ marker' = TRUE
  /\ UNCHANGED <<got, about, room, mu, sess, known, procs, reported, saved,
                 sweep, mishaps, heard>>

\* session.Send writes the input to the process.
Fed(p, m) == [proc EXCEPT ![p].work = Append(@, m)]
\* send takes the mutex to read the session: it may have been reaped meanwhile.
SendInput(m) ==
  LET t == about[m] IN
  /\ job[m] = "send"
  /\ mu[t] = None
  /\ \/ /\ Live(t)
        /\ Moves(m, "send", "over")
        /\ proc' = Fed(sess[t], m)
        /\ UNCHANGED reported
     \/ /\ ~Live(t)
        /\ Fail(m, "send")
        /\ UNCHANGED proc
  /\ UNCHANGED <<got, about, room, threads, started, saved, rest>>

-----------------------------------------------------------------------------
(* The harness process, and readStdout beside it *)

\* emit drops the event when the channel is full.
Emit(p, e) == IF Len(proc[p].events) < EventCap THEN Append(proc[p].events, e)
              ELSE proc[p].events

\* The CLI announces its session, then answers its inputs in order.
Announce(p) ==
  /\ proc[p].alive /\ proc[p].work # <<>> /\ proc[p].pump = "read"
  /\ proc' = [proc EXCEPT ![p].events = Emit(p, "session"), ![p].pump = "announced"]
  /\ UNCHANGED <<jobs, threads, started, reported, saved, rest>>
Answer(p) ==
  /\ proc[p].alive /\ proc[p].work # <<>> /\ proc[p].pump # "read"
  /\ proc' = [proc EXCEPT ![p].events = Emit(p, "done"), ![p].work = Tail(@)]
  /\ UNCHANGED <<jobs, threads, started, reported, saved, rest>>

\* It exits by itself, which is an error unless it was closed from our side.
Crash(p) ==
  /\ Mishap
  /\ proc[p].alive /\ proc[p].running
  /\ proc' = [proc EXCEPT ![p].events = Emit(p, "error"), ![p].alive = FALSE,
                          ![p].running = FALSE, ![p].work = <<>>]
  /\ UNCHANGED <<jobs, threads, started, reported, saved, sweep, marker, heard>>
Killed(p) ==
  /\ proc[p].alive /\ ~proc[p].running
  /\ proc' = [proc EXCEPT ![p].alive = FALSE, ![p].work = <<>>]
  /\ UNCHANGED <<jobs, threads, started, reported, saved, rest>>

-----------------------------------------------------------------------------
(* pumpEvents, one goroutine per process *)

\* sessionIndex.set: an unchanged id is not written again.
Remember(t, id) ==
  /\ index' = [index EXCEPT ![t] = id]
  /\ \/ /\ disk' = IF index[t] = id THEN disk ELSE index'
        /\ UNCHANGED <<unsaved, mishaps>>
     \/ /\ index[t] # id
        /\ Mishap
        /\ unsaved' = TRUE
        /\ UNCHANGED disk

Shift(p)  == proc' = [proc EXCEPT ![p].events = Tail(@)]

\* The turn that is current when the frame is sent gets it, and settleActive
\* looks whether it was the last.
EndTurn(t) ==
  /\ busy' = busy \ {t}
  /\ reported' = IF current[t] = None THEN reported ELSE reported \cup {current[t]}
  /\ marker' = (marker /\ busy \ {t} # {})

PumpSession(p) ==
  LET t == proc[p].thread IN
  /\ proc[p].events # <<>> /\ Head(proc[p].events) = "session"
  /\ mu[t] = None
  /\ Shift(p)
  /\ known' = [known EXCEPT ![t] = proc[p].sid]
  /\ heard' = [heard EXCEPT ![t] = @ \cup {proc[p].sid}]
  /\ Remember(t, proc[p].sid)
  /\ UNCHANGED <<jobs, mu, sess, current, busy, started, reported, sweep, marker>>
PumpDone(p) ==
  LET t == proc[p].thread IN
  /\ proc[p].events # <<>> /\ Head(proc[p].events) = "done"
  /\ mu[t] = None
  /\ Shift(p)
  /\ known' = [known EXCEPT ![t] = proc[p].sid]
  /\ Remember(t, proc[p].sid)
  /\ EndTurn(t)
  /\ UNCHANGED <<jobs, mu, sess, current, started, sweep, heard>>
PumpError(p) ==
  /\ proc[p].events # <<>> /\ Head(proc[p].events) = "error"
  /\ Shift(p)
  /\ EndTurn(proc[p].thread)
  /\ UNCHANGED <<jobs, mu, sess, known, current, started, saved, sweep, mishaps,
                 heard>>

\* The channel is closed: a turn still open is reported.
PumpEnds(p) ==
  LET t == proc[p].thread IN
  /\ proc[p].pump \in {"read", "announced"}
  /\ ~proc[p].alive /\ proc[p].events = <<>>
  /\ proc' = [proc EXCEPT ![p].pump = "over"]
  /\ IF t \in busy THEN EndTurn(t) ELSE UNCHANGED <<busy, reported, marker>>
  /\ UNCHANGED <<jobs, mu, sess, known, current, started, saved, sweep, mishaps,
                 heard>>

-----------------------------------------------------------------------------
(* Tickers, and the runner's restart *)

\* sweepIdle looks under the mutex, and closes under it later.  Quiet is: no
\* event for the timeout.
SweepFinds(t) ==
  /\ sweep = "none" /\ mu[t] = None /\ Live(t)
  /\ proc[sess[t]].events = <<>>
  /\ sweep' = t
  /\ UNCHANGED <<jobs, threads, procs, reported, saved, marker, mishaps, heard>>
SweepCloses ==
  /\ sweep # "none" /\ mu[sweep] = None
  /\ proc' = IF sess[sweep] = None THEN proc ELSE Closed(sess[sweep])
  /\ sess' = [sess EXCEPT ![sweep] = None]
  /\ sweep' = "none"
  /\ UNCHANGED <<jobs, mu, known, current, busy, started, reported, saved, marker,
                 mishaps, heard>>

\* maintainActive's tick.
Maintain ==
  /\ marker' = (busy # {})
  /\ UNCHANGED <<jobs, threads, procs, reported, saved, sweep, mishaps, heard>>

\* A restart loses everything in memory, and with it the processes.  The gateway
\* fails the open turns; the marker is settled by the first tick.
RestartRunner ==
  /\ Mishap
  /\ job' = [m \in Messages |-> IF m <= got THEN "over" ELSE "none"]
  /\ room' = [m \in Messages |-> NoRoom]
  /\ mu' = [t \in SThreads |-> None]
  /\ sess' = [t \in SThreads |-> None]
  /\ current' = [t \in SThreads |-> None]
  /\ busy' = {} /\ marker' = FALSE /\ sweep' = "none"
  /\ proc' = [p \in ProcIds |-> [NoProc EXCEPT !.sid = proc[p].sid,
                                               !.prior = proc[p].prior]]
  /\ reported' = 1 .. got
  /\ known' = disk /\ index' = disk
  /\ UNCHANGED <<got, about, started, disk, unsaved, heard>>

-----------------------------------------------------------------------------
Handles(m) ==
  \/ Lock(m)
  \/ Scan(m)
  \/ \E u \in SThreads : Evict(m, u)
  \/ HasRoom(m)
  \/ NoRoomLeft(m)
  \/ StartProc(m)
  \/ StartFails(m)
  \/ SetTurn(m)
  \/ SendInput(m)
Pumps(p) ==
  \/ PumpSession(p)
  \/ PumpDone(p)
  \/ PumpError(p)
  \/ PumpEnds(p)
Works(p) ==
  \/ Announce(p)
  \/ Answer(p)
  \/ Killed(p)

SessionsNext ==
  \/ \E t \in SThreads : Receive(t)
  \/ \E m \in Messages : Handles(m)
  \/ \E p \in ProcIds : Works(p) \/ Pumps(p) \/ Crash(p)
  \/ \E t \in SThreads : SweepFinds(t)
  \/ SweepCloses
  \/ Maintain
  \/ RestartRunner

\* Goroutines run, a mutex is granted again and again to others but not forever,
\* processes work on what they are given, and a session that stays quiet is
\* found by the sweep.
SessionsFairness ==
  /\ \A m \in Messages : SF_sessionVars(Handles(m))
  /\ \A p \in ProcIds : WF_sessionVars(Works(p)) /\ SF_sessionVars(Pumps(p))
  /\ \A t \in SThreads : SF_sessionVars(SweepFinds(t))
  /\ WF_sessionVars(SweepCloses)

SessionsSpec == SessionsInit /\ [][SessionsNext]_sessionVars /\ SessionsFairness

-----------------------------------------------------------------------------
(* Properties *)

\* The shape of the state, with what the mutexes and the session table mean: a
\* mutex is held by the one goroutine that starts its thread's session, and a
\* thread's session is a process of that thread.
SessionsTypeOK ==
  /\ got \in 0 .. MaxMessages /\ started \in 0 .. MaxProcs
  /\ reported \subseteq 1 .. got /\ busy \subseteq SThreads
  /\ \A t \in SThreads, m \in Messages :
       mu[t] = m <=> about[m] = t /\ job[m] \in {"scan", "room", "start"}
  /\ \A t \in SThreads : sess[t] # None =>
       sess[t] \in 1 .. started /\ proc[sess[t]].thread = t
  /\ \A p \in ProcIds : Len(proc[p].events) <= EventCap

\* At most MaxSessions processes run, however starts, evictions and sweeps
\* overlap (makeRoom).
SessionCap ==
  MaxSessions > 0 => Cardinality({p \in ProcIds : proc[p].running}) <= MaxSessions

\* A turn its thread is busy with is never closed to make room for another
\* thread: the session that is closed has none, or its turn was reported
\* (makeRoom's second look).
RoomSparesTurns ==
  [][\A m \in Messages, u \in SThreads :
       Evict(m, u) /\ sess'[u] # sess[u] =>
         current[u] = None \/ current[u] \in reported]_sessionVars

\* A conversation goes on: once a process of the thread has announced its
\* session, later ones resume a session of the thread, also after a restart,
\* unless the index could not be written (sessionFor, sessionIndex).
Resumes ==
  \A p \in ProcIds : proc[p].prior # {} => unsaved \/ proc[p].sid \in proc[p].prior

\* Every turn ends with a Done or Error frame: the process ends or is reaped,
\* whatever events were dropped (pumpEvents, handleMessage).
TurnReported == []<>(\A m \in Messages : job[m] = "none" \/ m \in reported)
=============================================================================
