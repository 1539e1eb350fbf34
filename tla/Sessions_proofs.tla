----------------------------- MODULE Sessions_proofs -----------------------------
(***************************************************************************)
(* The runner's sessions: who holds a thread's mutex, how many processes   *)
(* run, which turns an eviction spares and what a thread resumes.          *)
(***************************************************************************)
EXTENDS Sessions, SequenceTheorems, FiniteSetTheorems, TLAPS

-----------------------------------------------------------------------------
(* Mutexes and the session table                                             *)

\* A goroutine holds its thread's mutex from its scan until the process is started.
Holding == {"scan", "room", "start"}
JobsOK ==
  /\ got \in 0 .. MaxMessages
  /\ DOMAIN about = Messages /\ DOMAIN job = Messages /\ DOMAIN room = Messages
  /\ \A m \in Messages : IF m <= got THEN about[m] \in SThreads ELSE job[m] = "none"
  /\ reported \subseteq 1 .. got
  /\ DOMAIN current = SThreads /\ \A t \in SThreads : current[t] \in 0 .. got
  /\ busy \subseteq SThreads /\ sweep \in SThreads \cup {"none"}
HoldersOK ==
  /\ DOMAIN mu = SThreads
  /\ \A t \in SThreads, m \in Messages : mu[t] = m <=> about[m] = t /\ job[m] \in Holding
  /\ \A t \in SThreads : mu[t] \in Messages \cup {None}

\* A process that runs is its thread's session, and no goroutine is starting another.
ProcFields == {"thread", "sid", "prior", "running", "alive", "work", "events", "pump"}
TableOK ==
  /\ started \in 0 .. MaxProcs
  /\ DOMAIN sess = SThreads /\ DOMAIN proc = ProcIds
  /\ \A p \in ProcIds : DOMAIN proc[p] = ProcFields
  /\ \A t \in SThreads : sess[t] \in 0 .. started
       /\ (sess[t] # None => proc[sess[t]].thread = t)
  /\ \A p \in ProcIds : proc[p].running => \E t \in SThreads : sess[t] = p
  /\ \A t \in SThreads : Locked(t) => ~Live(t)

SessionsOK == JobsOK /\ HoldersOK /\ TableOK

-----------------------------------------------------------------------------
(* Places for processes                                                      *)

\* Threads that have a process, or whose goroutine has made its scan for one.
Starting(t) == mu[t] # None /\ job[mu[t]] \in {"room", "start"}
Takers == {t \in SThreads : Live(t) \/ Starting(t)}
\* How many a thread has yet to evict.
Needs(t) == IF mu[t] # None /\ job[mu[t]] = "room" THEN room[mu[t]].need ELSE 0
\* However some of them are chosen, one of them has found, or made, room for all.
RoomForAll ==
  /\ \A m \in Messages : DOMAIN room[m] = {"need", "victims"} /\ room[m].need \in Nat
  /\ MaxSessions > 0 =>
       \A A \in (SUBSET Takers) \ {{}} :
         \E t \in A : Cardinality(A) <= MaxSessions + Needs(t)

-----------------------------------------------------------------------------
(* Turns                                                                     *)

\* A thread is busy from the moment it has a turn until that is reported.
TurnsReported ==
  \A t \in SThreads : t \notin busy => current[t] = None \/ current[t] \in reported

-----------------------------------------------------------------------------
(* Session ids                                                               *)

EventKinds == {"session", "done", "error"}
\* A process announces its session before it answers, and that event is not dropped.
EventsOK(q, ids) ==
  LET announced == q.sid \in ids[q.thread] \/ (q.events # <<>> /\ q.events[1] = "session")
  IN
  /\ q.events \in Seq(EventKinds) /\ Len(q.events) <= EventCap
  /\ q.events # <<>> \/ q.alive => q.thread \in SThreads /\ q.sid # None
  /\ q.alive /\ q.pump = "read" => q.events = <<>>
  /\ q.alive /\ q.pump # "read" => announced
  /\ (\E i \in DOMAIN q.events : q.events[i] = "done") => announced
\* A thread resumes a session it has announced, also from the directory.
IdsOK ==
  /\ DOMAIN known = SThreads /\ DOMAIN heard = SThreads /\ index = known
  /\ \A t \in SThreads : known[t] \in heard[t] \cup {None}
  /\ ~unsaved => \A t \in SThreads : disk[t] = index[t] /\ (heard[t] # {} => known[t] # None)
  /\ DOMAIN disk = SThreads /\ \A t \in SThreads : disk[t] \in heard[t] \cup {None}
ResumesOK ==
  /\ \A p \in ProcIds : EventsOK(proc[p], heard)
  /\ IdsOK
  /\ Resumes

-----------------------------------------------------------------------------
(* Goroutines and what they hold                                           *)

(* A goroutine that is at something has a message of a thread.               *)
LEMMA AtWork ==
  ASSUME JobsOK, NEW m \in Messages, job[m] # "none"
  PROVE  m \in 1 .. got /\ about[m] \in SThreads /\ m # None
  BY SessionsAssumption DEF JobsOK, Messages, None

(* Goroutines move, threads get turns, and turns are reported.               *)
LEMMA JobsKept ==
  ASSUME JobsOK, \A p \in ProcIds : EventsOK(proc[p], heard), [SessionsNext]_sessionVars
  PROVE  JobsOK'
  <1> USE DEF jobs, threads, procs, saved, rest
  <1>0. got \in Nat /\ Messages = 1 .. MaxMessages /\ MaxMessages \in Nat /\ got <= MaxMessages
    BY SessionsAssumption DEF JobsOK, Messages
  <1>1. ASSUME NEW t \in SThreads, Receive(t) PROVE JobsOK'
    <2>1. got + 1 \in Messages /\ got' = got + 1 /\ got' \in 0 .. MaxMessages
      BY <1>0, <1>1 DEF Receive
    <2>2. /\ about' = [about EXCEPT ![got + 1] = t] /\ job' = [job EXCEPT ![got + 1] = "lock"]
          /\ UNCHANGED <<room, reported, current, busy, sweep>>
      BY <1>1 DEF Receive
    <2>3. ASSUME NEW m \in Messages PROVE IF m <= got' THEN about'[m] \in SThreads ELSE job'[m] = "none"
      <3>1. CASE m = got + 1
        BY <2>1, <2>2, <3>1 DEF JobsOK
      <3>2. CASE m # got + 1
        BY <1>0, <2>1, <2>2, <3>2 DEF JobsOK
      <3> QED
        BY <3>1, <3>2
    <2>4. reported \subseteq 1 .. got'
      BY <1>0, <2>1 DEF JobsOK
    <2>5. \A u \in SThreads : current[u] \in 0 .. got'
      BY <1>0, <2>1 DEF JobsOK
    <2> QED
      BY <2>1, <2>2, <2>3, <2>4, <2>5 DEF JobsOK
  <1>2. ASSUME NEW m \in Messages, NEW from, NEW to, from # "none", Moves(m, from, to),
               UNCHANGED <<got, about, sweep>>, room' = room \/ \E r : room' = [room EXCEPT ![m] = r],
               current' = current \/ current' = [current EXCEPT ![about[m]] = m],
               busy' = busy \/ busy' = busy \cup {about[m]},
               reported' = reported \/ reported' = reported \cup {m}
        PROVE  JobsOK'
    <2>1. m \in 1 .. got /\ about[m] \in SThreads
      BY <1>2, AtWork DEF Moves
    <2>2. \A k \in Messages : job'[k] = IF k = m THEN to ELSE job[k]
      BY <1>2 DEF Moves, JobsOK
    <2>3. \A k \in Messages : IF k <= got THEN about[k] \in SThreads ELSE job'[k] = "none"
      BY <1>0, <2>1, <2>2 DEF JobsOK
    <2>4. DOMAIN current' = SThreads /\ \A t \in SThreads : current'[t] \in 0 .. got
      BY <1>0, <1>2, <2>1 DEF JobsOK
    <2>5. DOMAIN job' = Messages /\ DOMAIN room' = Messages
      BY <1>2 DEF Moves, JobsOK
    <2>6. reported' \subseteq 1 .. got /\ busy' \subseteq SThreads
      BY <1>2, <2>1 DEF JobsOK
    <2> QED
      BY <1>2, <2>3, <2>4, <2>5, <2>6 DEF JobsOK
  <1>3. ASSUME NEW m \in Messages, Handles(m) PROVE JobsOK'
    <2>1. CASE Lock(m)
      BY <1>2, <2>1 DEF Lock
    <2>2. CASE Scan(m)
      <3>1. PICK to : Moves(m, "scan", to)
        BY <2>2 DEF Scan
      <3>2. \E r : room' = [room EXCEPT ![m] = r]
        BY <2>2 DEF Scan
      <3> QED
        BY <1>2, <2>2, <3>1, <3>2 DEF Scan
    <2>3. ASSUME NEW u \in SThreads, Evict(m, u) PROVE JobsOK'
      <3>1. DOMAIN room' = Messages /\ UNCHANGED <<got, about, job, current, busy, reported, sweep>>
        BY <2>3 DEF Evict, JobsOK
      <3> QED
        BY <3>1 DEF JobsOK
    <2>4. CASE HasRoom(m)
      BY <1>2, <2>4 DEF HasRoom
    <2>5. CASE NoRoomLeft(m)
      BY <1>2, <2>5 DEF NoRoomLeft, Fail
    <2>6. CASE StartProc(m)
      BY <1>2, <2>6 DEF StartProc
    <2>7. CASE StartFails(m)
      BY <1>2, <2>7 DEF StartFails, Fail
    <2>8. CASE SetTurn(m)
      BY <1>2, <2>8 DEF SetTurn
    <2>9. CASE SendInput(m)
      BY <1>2, <2>9 DEF SendInput, Fail
    <2> QED
      BY <1>3, <2>1, <2>2, <2>3, <2>4, <2>5, <2>6, <2>7, <2>8, <2>9 DEF Handles
  <1>4. ASSUME UNCHANGED <<got, about, job, room, current>>,
               busy' \subseteq busy, sweep' \in SThreads \cup {"none"},
               reported' = reported \/ \E t \in SThreads : current[t] # None /\ reported' = reported \cup {current[t]}
        PROVE  JobsOK'
    <2>1. \A t \in SThreads : current[t] # None => current[t] \in 1 .. got
      BY <1>0 DEF JobsOK, None
    <2> QED
      BY <1>4, <2>1 DEF JobsOK
  <1>5. ASSUME NEW p \in ProcIds, Works(p) \/ Crash(p) PROVE JobsOK'
    BY <1>5 DEF Works, Crash, Announce, Answer, Killed, JobsOK
  <1>6. ASSUME NEW p \in ProcIds, Pumps(p) PROVE JobsOK'
    <2> USE DEF EndTurn
    <2>0. /\ proc[p].events # <<>> => proc[p].thread \in SThreads
          /\ busy \subseteq SThreads
      BY DEF EventsOK, JobsOK
    <2>1. CASE PumpSession(p)
      BY <1>4, <2>1 DEF PumpSession, JobsOK
    <2>2. CASE PumpDone(p) \/ PumpError(p) \/ PumpEnds(p)
      BY <1>4, <1>6, <2>0, <2>2 DEF PumpDone, PumpError, PumpEnds, JobsOK
    <2> QED
      BY <1>6, <2>1, <2>2 DEF Pumps
  <1>7. ASSUME NEW t \in SThreads, SweepFinds(t) PROVE JobsOK'
    BY <1>4, <1>7 DEF SweepFinds, JobsOK
  <1>8. CASE SweepCloses \/ Maintain
    BY <1>4, <1>8 DEF SweepCloses, Maintain, JobsOK
  <1>9. CASE RestartRunner
    <2>1. /\ \A m \in Messages : job'[m] = IF m <= got THEN "over" ELSE "none"
          /\ DOMAIN job' = Messages /\ DOMAIN room' = Messages
          /\ DOMAIN current' = SThreads /\ \A t \in SThreads : current'[t] = 0
          /\ busy' = {} /\ sweep' = "none" /\ reported' = 1 .. got
          /\ UNCHANGED <<got, about>>
      BY <1>9 DEF RestartRunner, None
    <2> QED
      BY <1>0, <2>1 DEF JobsOK
  <1>10. CASE UNCHANGED sessionVars
    BY <1>10 DEF sessionVars, JobsOK
  <1> QED
    BY <1>1, <1>3, <1>5, <1>6, <1>7, <1>8, <1>9, <1>10 DEF SessionsNext

(* A goroutine takes its thread's mutex when it is free, keeps it while it   *)
(* starts a session, and gives it back.                                      *)
LEMMA HolderMoves ==
  ASSUME JobsOK, HoldersOK, NEW m \in Messages, NEW from, NEW to, from # "none",
         Moves(m, from, to), UNCHANGED about,
         \/ (from \in Holding <=> to \in Holding) /\ mu' = mu
         \/ /\ from \notin Holding /\ to \in Holding /\ mu[about[m]] = None
            /\ mu' = [mu EXCEPT ![about[m]] = m]
         \/ from \in Holding /\ to \notin Holding /\ Unlock(about[m])
  PROVE  HoldersOK'
  <1>1. about[m] \in SThreads /\ m # None
    BY AtWork DEF Moves
  <1>2. /\ job[m] = from
        /\ \A k \in Messages : job'[k] = IF k = m THEN to ELSE job[k]
    BY DEF Moves, JobsOK
  <1>3. None \notin Messages
    BY DEF Messages, None
  <1>4. DOMAIN mu' = SThreads /\ \A t \in SThreads : mu'[t] \in Messages \cup {None}
    BY <1>1 DEF HoldersOK, Unlock
  <1>5. ASSUME NEW t \in SThreads, NEW k \in Messages
        PROVE  mu'[t] = k <=> about'[k] = t /\ job'[k] \in Holding
    <2>1. mu[t] = k <=> about[k] = t /\ job[k] \in Holding
      BY DEF HoldersOK
    <2>2. mu[about[m]] = m <=> job[m] \in Holding
      BY <1>1 DEF HoldersOK
    <2>3. CASE (from \in Holding <=> to \in Holding) /\ mu' = mu
      BY <1>2, <2>1, <2>3
    <2>4. CASE t # about[m]
      <3>1. mu'[t] = mu[t]
        BY <2>4 DEF HoldersOK, Unlock
      <3> QED
        BY <1>2, <2>1, <2>4, <3>1
    <2>5. CASE t = about[m] /\ mu' = [mu EXCEPT ![about[m]] = m] /\ to \in Holding /\ mu[about[m]] = None
      <3>1. mu'[t] = m
        BY <1>1, <2>5 DEF HoldersOK
      <3> QED
        BY <1>2, <1>3, <2>1, <2>5, <3>1
    <2>6. CASE t = about[m] /\ Unlock(about[m]) /\ from \in Holding /\ to \notin Holding
      <3>1. mu'[t] = None /\ mu[t] = m
        BY <1>1, <1>2, <2>2, <2>6 DEF HoldersOK, Unlock
      <3> QED
        BY <1>2, <1>3, <2>1, <2>6, <3>1
    <2> QED
      BY <2>3, <2>4, <2>5, <2>6
  <1> QED
    BY <1>4, <1>5 DEF HoldersOK

(* So mutexes are held by those that start sessions.                         *)
LEMMA HoldersKept ==
  ASSUME JobsOK, HoldersOK, [SessionsNext]_sessionVars
  PROVE  HoldersOK'
  <1> USE DEF jobs, threads, procs, saved, rest
  <1>1. ASSUME NEW t \in SThreads, Receive(t) PROVE HoldersOK'
    <2>1. got \in Nat /\ Messages = 1 .. MaxMessages /\ got + 1 \in Messages /\ ~(got + 1 <= got)
      BY <1>1, SessionsAssumption DEF JobsOK, Messages, Receive
    <2>2. /\ job[got + 1] = "none" /\ UNCHANGED mu
          /\ \A m \in Messages : IF m = got + 1 THEN job'[m] = "lock"
                                 ELSE about'[m] = about[m] /\ job'[m] = job[m]
      BY <1>1, <2>1 DEF Receive, JobsOK
    <2> QED
      BY <2>1, <2>2 DEF HoldersOK, Holding
  <1>2. ASSUME NEW m \in Messages, Handles(m) PROVE HoldersOK'
    <2>1. CASE Lock(m)
      <3>1. UNCHANGED about /\ mu[about[m]] = None
        BY <2>1 DEF Lock
      <3>2. CASE Moves(m, "lock", "turn") /\ UNCHANGED mu
        BY <3>1, <3>2, HolderMoves DEF Holding
      <3>3. CASE Moves(m, "lock", "scan") /\ mu' = [mu EXCEPT ![about[m]] = m]
        BY <3>1, <3>3, HolderMoves DEF Holding
      <3> QED
        BY <2>1, <3>2, <3>3 DEF Lock
    <2>2. CASE Scan(m)
      <3>1. PICK to \in {"start", "room"} : Moves(m, "scan", to)
        BY <2>2 DEF Scan
      <3>2. UNCHANGED <<mu, about>>
        BY <2>2 DEF Scan
      <3> QED
        BY <3>1, <3>2, HolderMoves DEF Holding
    <2>3. ASSUME NEW u \in SThreads, Evict(m, u) PROVE HoldersOK'
      BY <2>3 DEF Evict, HoldersOK
    <2>4. CASE HasRoom(m)
      <3>1. Moves(m, "room", "start") /\ UNCHANGED <<mu, about>>
        BY <2>4 DEF HasRoom
      <3> QED
        BY <3>1, HolderMoves DEF Holding
    <2>5. CASE NoRoomLeft(m)
      <3>1. Moves(m, "room", "over") /\ Unlock(about[m]) /\ UNCHANGED about
        BY <2>5 DEF NoRoomLeft, Fail
      <3> QED
        BY <3>1, HolderMoves DEF Holding
    <2>6. CASE StartProc(m)
      <3>1. Moves(m, "start", "turn") /\ Unlock(about[m]) /\ UNCHANGED about
        BY <2>6 DEF StartProc
      <3> QED
        BY <3>1, HolderMoves DEF Holding
    <2>7. CASE StartFails(m)
      <3>1. Moves(m, "start", "over") /\ Unlock(about[m]) /\ UNCHANGED about
        BY <2>7 DEF StartFails, Fail
      <3> QED
        BY <3>1, HolderMoves DEF Holding
    <2>8. CASE SetTurn(m)
      <3>1. Moves(m, "turn", "send") /\ UNCHANGED <<mu, about>>
        BY <2>8 DEF SetTurn
      <3> QED
        BY <3>1, HolderMoves DEF Holding
    <2>9. CASE SendInput(m)
      <3>1. Moves(m, "send", "over") /\ UNCHANGED <<mu, about>>
        BY <2>9 DEF SendInput, Fail
      <3> QED
        BY <3>1, HolderMoves DEF Holding
    <2> QED
      BY <1>2, <2>1, <2>2, <2>3, <2>4, <2>5, <2>6, <2>7, <2>8, <2>9 DEF Handles
  <1>3. CASE RestartRunner
    <2>1. /\ \A m \in Messages : job'[m] \in {"over", "none"}
          /\ DOMAIN mu' = SThreads /\ \A t \in SThreads : mu'[t] = None
      BY <1>3 DEF RestartRunner
    <2>2. None \notin Messages
      BY DEF Messages, None
    <2> QED
      BY <2>1, <2>2 DEF HoldersOK, Holding
  <1>4. CASE UNCHANGED <<mu, about, job>>
    BY <1>4 DEF HoldersOK
  <1>5. ASSUME NEW p \in ProcIds, Works(p) \/ Pumps(p) \/ Crash(p) PROVE UNCHANGED <<mu, about, job>>
    BY <1>5 DEF Works, Pumps, Crash, Announce, Answer, Killed, PumpSession, PumpDone, PumpError, PumpEnds
  <1>6. ASSUME NEW t \in SThreads, SweepFinds(t) PROVE UNCHANGED <<mu, about, job>>
    BY <1>6 DEF SweepFinds
  <1>7. CASE SweepCloses \/ Maintain \/ UNCHANGED sessionVars
    BY <1>4, <1>7 DEF SweepCloses, Maintain, sessionVars
  <1> QED
    BY <1>1, <1>2, <1>3, <1>4, <1>5, <1>6, <1>7 DEF SessionsNext

(* A process goes on or ends: no thread gets another, and none is locked     *)
(* that has one.                                                             *)
LEMMA TableMoves ==
  ASSUME TableOK, UNCHANGED <<started, sess>>, DOMAIN proc' = ProcIds,
         \A p \in ProcIds : /\ DOMAIN proc'[p] = ProcFields
                            /\ proc'[p].thread = proc[p].thread
                            /\ proc'[p].running => proc[p].running,
         \A t \in SThreads : Locked(t)' => Locked(t) \/ ~Live(t)
  PROVE  TableOK'
  <1>1. \A t \in SThreads : sess[t] # None => sess[t] \in ProcIds
    BY SessionsAssumption DEF TableOK, ProcIds, None
  <1>2. \A t \in SThreads : Live(t)' => Live(t)
    BY <1>1 DEF Live
  <1> QED
    BY <1>1, <1>2 DEF TableOK

(* A session that is closed is taken out of the table.                       *)
LEMMA TableCloses ==
  ASSUME TableOK, NEW u \in SThreads, UNCHANGED <<started, mu>>,
         sess' = [sess EXCEPT ![u] = None],
         proc' = IF sess[u] = None THEN proc ELSE Closed(sess[u])
  PROVE  TableOK'
  <1>1. \A t \in SThreads : sess[t] # None => sess[t] \in ProcIds
    BY SessionsAssumption DEF TableOK, ProcIds, None
  <1>2. /\ DOMAIN sess' = SThreads /\ sess'[u] = None
        /\ \A t \in SThreads \ {u} : sess'[t] = sess[t]
    BY DEF TableOK
  <1>3. /\ DOMAIN proc' = ProcIds
        /\ \A p \in ProcIds : /\ DOMAIN proc'[p] = ProcFields /\ proc'[p].thread = proc[p].thread
                              /\ proc'[p].running => proc[p].running /\ p # sess[u]
    BY <1>1 DEF TableOK, Closed, None, ProcIds, ProcFields
  <1>4. \A t \in SThreads : Live(t)' => Live(t)
    BY <1>1, <1>2, <1>3 DEF Live
  <1>5. \A t \in SThreads : sess'[t] \in 0 .. started /\ (sess'[t] # None => proc'[sess'[t]].thread = t)
    BY <1>1, <1>2, <1>3 DEF TableOK, None
  <1>6. \A p \in ProcIds : proc'[p].running => \E t \in SThreads : sess'[t] = p
    BY <1>2, <1>3 DEF TableOK
  <1> QED
    BY <1>2, <1>3, <1>4, <1>5, <1>6 DEF TableOK, Locked

(* A process that works, exits or is read from stays in its thread's place,  *)
(* and none begins to run.                                                   *)
LEMMA ProcessSteps ==
  ASSUME TableOK, NEW p \in ProcIds, Works(p) \/ Pumps(p) \/ Crash(p)
  PROVE  /\ UNCHANGED <<sess, started, mu, job, room>>
         /\ DOMAIN proc' = ProcIds
         /\ \A q \in ProcIds : /\ DOMAIN proc'[q] = ProcFields
                               /\ proc'[q].thread = proc[q].thread
                               /\ proc'[q].running => proc[q].running
  <1>1. UNCHANGED <<sess, started, mu, job, room>>
    BY DEF Works, Pumps, Crash, Announce, Answer, Killed, PumpSession, PumpDone, PumpError,
           PumpEnds, jobs, threads
  <1>2. CASE Works(p)
    <2>1. CASE Announce(p)
      BY <1>1, <2>1 DEF Announce, TableOK, ProcFields
    <2>2. CASE Answer(p)
      BY <1>1, <2>2 DEF Answer, TableOK, ProcFields
    <2>3. CASE Killed(p)
      BY <1>1, <2>3 DEF Killed, TableOK, ProcFields
    <2> QED
      BY <1>2, <2>1, <2>2, <2>3 DEF Works
  <1>3. CASE Pumps(p)
    <2>1. \/ Shift(p)
          \/ proc' = [proc EXCEPT ![p].pump = "over"]
      BY <1>3 DEF Pumps, PumpSession, PumpDone, PumpError, PumpEnds
    <2> QED
      BY <1>1, <2>1 DEF Shift, TableOK, ProcFields
  <1>4. CASE Crash(p)
    <2>1. proc' = [proc EXCEPT ![p].events = Emit(p, "error"), ![p].alive = FALSE,
                               ![p].running = FALSE, ![p].work = <<>>]
      BY <1>4 DEF Crash
    <2> QED
      BY <1>1, <2>1 DEF TableOK, ProcFields
  <1> QED
    BY <1>1, <1>2, <1>3, <1>4

(* The table keeps its meaning.                                              *)
LEMMA TableKept ==
  ASSUME JobsOK, HoldersOK, TableOK, [SessionsNext]_sessionVars
  PROVE  TableOK'
  <1> USE DEF jobs, threads, procs, saved, rest
  <1>1. ASSUME UNCHANGED <<mu, sess, procs>> PROVE TableOK'
    BY <1>1 DEF TableOK, Locked, Live
  <1>2. ASSUME NEW m \in Messages, Handles(m) PROVE TableOK'
    <2>1. CASE Lock(m)
      <3>1. UNCHANGED <<sess, proc, started>>
        BY <2>1 DEF Lock
      <3>2. about[m] \in SThreads
        BY <2>1, AtWork DEF Lock
      <3>3. \A t \in SThreads : Locked(t)' => Locked(t) \/ ~Live(t)
        BY <2>1, <3>2 DEF Lock, Locked, HoldersOK
      <3> QED
        BY <3>1, <3>3, TableMoves DEF TableOK
    <2>2. ASSUME NEW u \in SThreads, Evict(m, u) PROVE TableOK'
      <3>1. CASE UNCHANGED <<proc, sess>>
        BY <1>1, <2>2, <3>1 DEF Evict
      <3>2. CASE StillIdle(u) /\ proc' = Closed(sess[u]) /\ sess' = [sess EXCEPT ![u] = None]
        <4>1. sess[u] # None
          BY <3>2 DEF StillIdle, Live
        <4> QED
          BY <2>2, <3>2, <4>1, TableCloses DEF Evict
      <3> QED
        BY <2>2, <3>1, <3>2 DEF Evict
    <2>3. CASE NoRoomLeft(m) \/ StartFails(m)
      <3>1. UNCHANGED <<sess, proc, started>> /\ Unlock(about[m])
        BY <2>3 DEF NoRoomLeft, StartFails
      <3>2. \A t \in SThreads : Locked(t)' => Locked(t)
        BY <3>1 DEF Unlock, Locked, HoldersOK
      <3> QED
        BY <3>1, <3>2, TableMoves DEF TableOK
    <2>4. CASE StartProc(m)
      <3> DEFINE t == about[m]
                 p == started + 1
      <3>1. /\ p \in ProcIds /\ t \in SThreads /\ mu[t] = m /\ m # None
            /\ started \in Nat /\ started' = p /\ started' \in 0 .. MaxProcs
            /\ proc' = [proc EXCEPT ![p] = Started(t, p)]
            /\ sess' = [sess EXCEPT ![t] = p] /\ Unlock(t)
        <4>1. t \in SThreads /\ mu[t] = m /\ m # None
          BY <2>4, AtWork DEF StartProc, Moves, HoldersOK, Holding
        <4> QED
          BY <2>4, <4>1, SessionsAssumption DEF StartProc, TableOK, ProcIds
      <3>2. ~Live(t) /\ \A u \in SThreads : sess[u] \in Nat /\ sess[u] # p /\ (sess[u] # None => sess[u] \in ProcIds)
        BY <3>1, SessionsAssumption DEF TableOK, Locked, ProcIds, None
      <3>3. /\ DOMAIN sess' = SThreads /\ sess'[t] = p
            /\ \A u \in SThreads \ {t} : sess'[u] = sess[u]
            /\ DOMAIN proc' = ProcIds /\ \A q \in ProcIds \ {p} : proc'[q] = proc[q]
            /\ proc'[p] = Started(t, p)
            /\ mu'[t] = None /\ \A u \in SThreads \ {t} : mu'[u] = mu[u]
        BY <3>1 DEF TableOK, HoldersOK, Unlock
      <3>4. DOMAIN Started(t, p) = ProcFields /\ Started(t, p).thread = t
        BY DEF Started, NoProc, ProcFields
      <3> HIDE DEF p, t
      <3>5. \A q \in ProcIds : DOMAIN proc'[q] = ProcFields
        BY <3>3, <3>4 DEF TableOK
      <3>6. ASSUME NEW u \in SThreads
            PROVE  sess'[u] \in 0 .. started' /\ (sess'[u] # None => proc'[sess'[u]].thread = u)
        <4>1. CASE u = t
          BY <3>1, <3>3, <3>4, <4>1
        <4>2. CASE u # t
          <5>1. sess[u] \in 0 .. started'
            BY <3>1 DEF TableOK, p
          <5> QED
            BY <3>2, <3>3, <4>2, <5>1 DEF TableOK
        <4> QED
          BY <4>1, <4>2
      <3>7. ASSUME NEW q \in ProcIds, proc'[q].running PROVE \E u \in SThreads : sess'[u] = q
        <4>1. CASE q = p
          BY <3>1, <3>3, <4>1
        <4>2. CASE q # p
          <5>1. PICK u \in SThreads : sess[u] = q
            BY <3>3, <3>7, <4>2 DEF TableOK
          <5>2. u # t
            BY <3>2, <3>3, <3>7, <4>2, <5>1 DEF Live, ProcIds, None
          <5> QED
            BY <3>3, <5>1, <5>2
        <4> QED
          BY <4>1, <4>2
      <3>8. ASSUME NEW u \in SThreads, Locked(u)' PROVE ~Live(u)'
        <4>1. u # t
          BY <3>3, <3>8 DEF Locked
        <4>2. Locked(u) /\ sess'[u] = sess[u]
          BY <3>3, <3>8, <4>1 DEF Locked
        <4> QED
          BY <3>2, <3>3, <4>2 DEF TableOK, Live
      <3> QED
        BY <3>1, <3>3, <3>5, <3>6, <3>7, <3>8 DEF TableOK
    <2>5. CASE SendInput(m)
      <3>1. UNCHANGED <<sess, started, mu>> /\ (proc' = proc \/ proc' = Fed(sess[about[m]], m))
        BY <2>5 DEF SendInput
      <3>2. /\ DOMAIN proc' = ProcIds
            /\ \A p \in ProcIds : /\ DOMAIN proc'[p] = ProcFields /\ proc'[p].thread = proc[p].thread
                                  /\ proc'[p].running = proc[p].running
        BY <3>1 DEF Fed, TableOK, ProcFields
      <3> QED
        BY <3>1, <3>2, TableMoves DEF Locked
    <2>6. CASE Scan(m) \/ HasRoom(m) \/ SetTurn(m)
      BY <1>1, <2>6 DEF Scan, HasRoom, SetTurn
    <2> QED
      BY <1>2, <2>1, <2>2, <2>3, <2>4, <2>5, <2>6 DEF Handles
  <1>3. ASSUME NEW p \in ProcIds, Works(p) \/ Pumps(p) \/ Crash(p) PROVE TableOK'
    <2>1. /\ UNCHANGED <<sess, started, mu>>
          /\ DOMAIN proc' = ProcIds
          /\ \A q \in ProcIds : /\ DOMAIN proc'[q] = ProcFields /\ proc'[q].thread = proc[q].thread
                                /\ proc'[q].running => proc[q].running
      BY <1>3, ProcessSteps
    <2> QED
      BY <2>1, TableMoves DEF Locked
  <1>4. CASE SweepCloses
    <2>1. sweep \in SThreads
      BY <1>4 DEF SweepCloses, JobsOK
    <2> QED
      BY <1>4, <2>1, TableCloses DEF SweepCloses
  <1>5. CASE RestartRunner
    <2>1. /\ DOMAIN sess' = SThreads /\ \A t \in SThreads : sess'[t] = None
          /\ DOMAIN proc' = ProcIds
          /\ \A p \in ProcIds : DOMAIN proc'[p] = ProcFields /\ ~proc'[p].running
          /\ UNCHANGED started
      BY <1>5 DEF RestartRunner, NoProc, ProcFields
    <2> QED
      BY <2>1, SessionsAssumption DEF TableOK, None, Live
  <1>6. ASSUME NEW t \in SThreads, Receive(t) \/ SweepFinds(t) PROVE TableOK'
    BY <1>1, <1>6 DEF Receive, SweepFinds
  <1>7. CASE Maintain \/ UNCHANGED sessionVars
    BY <1>1, <1>7 DEF Maintain, sessionVars
  <1> QED
    BY <1>2, <1>3, <1>4, <1>5, <1>6, <1>7 DEF SessionsNext

-----------------------------------------------------------------------------
(* Events and session ids                                                    *)

(* What is known of a process stays so when more has been heard, while it    *)
(* has the same events and is as it was, or dead.                            *)
LEMMA EventsStay ==
  ASSUME NEW q, NEW r, NEW h, NEW k, EventsOK(q, h), \A t \in SThreads : h[t] \subseteq k[t],
         r.thread = q.thread, r.sid = q.sid, r.events = q.events,
         r.alive => q.alive /\ r.pump = q.pump
  PROVE  EventsOK(r, k)
  <1>1. q.events # <<>> \/ q.alive => h[q.thread] \subseteq k[q.thread]
    BY DEF EventsOK
  <1>2. (\E i \in DOMAIN q.events : q.events[i] = "done") => q.events # <<>>
    OBVIOUS
  <1> QED
    BY <1>1, <1>2 DEF EventsOK

(* The first event is forwarded; if it announces the session, that is heard. *)
LEMMA EventsShift ==
  ASSUME NEW q, NEW r, NEW h, NEW k, EventsOK(q, h), \A t \in SThreads : h[t] \subseteq k[t],
         q.events # <<>>, q.events[1] = "session" => q.sid \in k[q.thread],
         r.thread = q.thread, r.sid = q.sid, r.events = Tail(q.events),
         r.alive = q.alive, r.pump = q.pump
  PROVE  EventsOK(r, k)
  <1>1. /\ q.events \in Seq(EventKinds) /\ Tail(q.events) \in Seq(EventKinds)
        /\ Len(Tail(q.events)) = Len(q.events) - 1 /\ Len(q.events) \in Nat
        /\ Len(q.events) <= EventCap
        /\ \A i \in 1 .. Len(Tail(q.events)) : Tail(q.events)[i] = q.events[i + 1] /\ i + 1 \in 1 .. Len(q.events)
    BY HeadTailProperties, LenProperties DEF EventsOK
  <1>2. Len(Tail(q.events)) <= EventCap
    BY <1>1, SessionsAssumption
  <1>3. ASSUME NEW i \in DOMAIN Tail(q.events), Tail(q.events)[i] = "done"
        PROVE  \E j \in DOMAIN q.events : q.events[j] = "done"
    <2>1. DOMAIN Tail(q.events) = 1 .. Len(Tail(q.events)) /\ DOMAIN q.events = 1 .. Len(q.events)
      BY <1>1, LenProperties
    <2> QED
      BY <1>1, <1>3, <2>1
  <1>4. (\E j \in DOMAIN q.events : q.events[j] = "done") \/ q.alive
          => q.sid \in k[q.thread]
    BY DEF EventsOK
  <1>5. q.thread \in SThreads /\ q.sid # None /\ (q.alive => q.pump # "read")
    BY DEF EventsOK
  <1> QED
    BY <1>1, <1>2, <1>3, <1>4, <1>5 DEF EventsOK

(* An event that is added, or dropped for want of room, comes after those    *)
(* there are.                                                                *)
LEMMA EventsEmitted ==
  ASSUME NEW p \in ProcIds, EventsOK(proc[p], heard), NEW e \in EventKinds
  PROVE  LET x == proc[p].events  y == Emit(p, e) IN
         /\ y \in Seq(EventKinds) /\ Len(y) <= EventCap
         /\ (\E i \in DOMAIN y : y[i] = "done") => (\E i \in DOMAIN x : x[i] = "done") \/ e = "done"
         /\ x # <<>> => y # <<>> /\ y[1] = x[1]
         /\ x = <<>> => y = <<e>>
  <1> DEFINE x == proc[p].events
             y == Emit(p, e)
  <1>1. x \in Seq(EventKinds) /\ Len(x) <= EventCap /\ Len(x) \in Nat /\ DOMAIN x = 1 .. Len(x)
    BY LenProperties DEF EventsOK
  <1>2. CASE Len(x) < EventCap
    <2>1. y = Append(x, e)
      BY <1>2 DEF Emit
    <2> HIDE DEF x, y
    <2>2. /\ Append(x, e) \in Seq(EventKinds) /\ Len(Append(x, e)) = Len(x) + 1
          /\ \A i \in 1 .. Len(x) : Append(x, e)[i] = x[i]
          /\ Append(x, e)[Len(x) + 1] = e
      BY <1>1, AppendProperties
    <2>3. DOMAIN y = 1 .. Len(x) + 1
      BY <2>1, <2>2, LenProperties
    <2>4. Len(y) <= EventCap
      BY <1>1, <1>2, <2>1, <2>2, SessionsAssumption
    <2>5. x # <<>> => 1 \in 1 .. Len(x)
      BY <1>1, EmptySeq
    <2>6. x # <<>> => y # <<>> /\ y[1] = x[1]
      BY <1>1, <2>1, <2>2, <2>5
    <2>7. (\E i \in DOMAIN y : y[i] = "done") => (\E i \in DOMAIN x : x[i] = "done") \/ e = "done"
      BY <1>1, <2>1, <2>2, <2>3
    <2>8. x = <<>> => y = <<e>>
      BY <2>1
    <2> QED
      BY <2>1, <2>2, <2>4, <2>6, <2>7, <2>8 DEF x, y
  <1>3. CASE ~(Len(x) < EventCap)
    <2>1. y = x
      BY <1>3 DEF Emit
    <2>2. x # <<>>
      BY <1>1, <1>3, SessionsAssumption
    <2> HIDE DEF x, y
    <2> QED
      BY <1>1, <2>1, <2>2 DEF x, y
  <1> QED
    BY <1>2, <1>3

(* What is left of a process when the runner restarts.                       *)
Restarted(s, h) == [NoProc EXCEPT !.sid = s, !.prior = h]

(* It has no events, does not live and has the same session.                 *)
LEMMA RestartedProc ==
  ASSUME NEW s, NEW h
  PROVE  /\ Restarted(s, h).events = <<>> /\ ~Restarted(s, h).alive
         /\ Restarted(s, h).sid = s /\ Restarted(s, h).prior = h
  BY DEF Restarted, NoProc

(* Every step keeps the announcements in front of the answers, and what may  *)
(* be resumed among the ids that were heard.                                 *)
LEMMA ResumesKept ==
  ASSUME JobsOK, TableOK, ResumesOK, [SessionsNext]_sessionVars
  PROVE  ResumesOK'
  <1> USE DEF jobs, threads, procs, saved, rest
  <1> DEFINE Grows == \A t \in SThreads : heard[t] \subseteq heard'[t]
  <1>0. \A q \in ProcIds : EventsOK(proc[q], heard) /\ DOMAIN proc[q] = ProcFields
    BY DEF ResumesOK, TableOK
  <1>1. ASSUME Grows, DOMAIN proc' = ProcIds, IdsOK', unsaved => unsaved',
               \A q \in ProcIds : /\ EventsOK(proc'[q], heard')
                                  /\ proc'[q].sid = proc[q].sid /\ proc'[q].prior = proc[q].prior
        PROVE  ResumesOK'
    <2>1. Resumes'
      BY <1>1 DEF ResumesOK, Resumes
    <2> QED
      BY <1>1, <2>1 DEF ResumesOK
  <1>2. ASSUME UNCHANGED <<known, heard, saved>>, DOMAIN proc' = ProcIds,
               \A q \in ProcIds : /\ proc'[q].sid = proc[q].sid /\ proc'[q].prior = proc[q].prior
                                  /\ proc'[q].thread = proc[q].thread /\ proc'[q].events = proc[q].events
                                  /\ proc'[q].alive => proc[q].alive /\ proc'[q].pump = proc[q].pump
        PROVE  ResumesOK'
    <2>1. Grows /\ IdsOK'
      BY <1>2 DEF ResumesOK, IdsOK
    <2>2. \A q \in ProcIds : EventsOK(proc'[q], heard')
      <3> SUFFICES ASSUME NEW q \in ProcIds PROVE EventsOK(proc'[q], heard')
        OBVIOUS
      <3> DEFINE a == proc[q]
                 b == proc'[q]
      <3>1. /\ EventsOK(a, heard) /\ b.thread = a.thread /\ b.sid = a.sid /\ b.events = a.events
            /\ b.alive => a.alive /\ b.pump = a.pump
        BY <1>0, <1>2
      <3> HIDE DEF a, b
      <3>2. EventsOK(b, heard')
        BY <2>1, <3>1, EventsStay
      <3> QED
        BY <3>2 DEF b
    <2> QED
      BY <1>1, <1>2, <2>1, <2>2
  <1>3. ASSUME UNCHANGED <<known, heard, saved, proc>> PROVE ResumesOK'
    BY <1>2, <1>3 DEF TableOK
  <1>4. ASSUME NEW p \in ProcIds, UNCHANGED <<known, heard, saved>>,
               NEW e \in EventKinds, NEW r,
               proc' = [proc EXCEPT ![p] = r], DOMAIN r = ProcFields, r.events = Emit(p, e),
               r.sid = proc[p].sid, r.prior = proc[p].prior, r.thread = proc[p].thread,
               proc[p].thread \in SThreads, proc[p].sid # None,
               r.alive => r.pump # "read",
               r.alive \/ e = "done" => proc[p].alive /\ (e = "session" \/ proc[p].pump # "read"),
               e = "session" => proc[p].pump = "read"
        PROVE  ResumesOK'
    <2>1. Grows /\ IdsOK' /\ UNCHANGED heard
      BY <1>4 DEF ResumesOK, IdsOK
    <2>2. /\ DOMAIN proc' = ProcIds /\ proc'[p] = r
          /\ \A q \in ProcIds \ {p} : proc'[q] = proc[q]
      BY <1>4 DEF TableOK
    <2>3. EventsOK(r, heard)
      <3> DEFINE x == proc[p].events
                 y == Emit(p, e)
      <3>1. /\ y \in Seq(EventKinds) /\ Len(y) <= EventCap
            /\ (\E i \in DOMAIN y : y[i] = "done") => (\E i \in DOMAIN x : x[i] = "done") \/ e = "done"
            /\ x # <<>> => y # <<>> /\ y[1] = x[1]
            /\ x = <<>> => y = <<e>>
        BY <1>0, EventsEmitted
      <3>2. r.events = y /\ EventsOK(proc[p], heard)
        BY <1>0, <1>4
      <3> HIDE DEF y
      <3>3. CASE e = "session"
        <4>1. r.alive => x = <<>>
          BY <1>4, <3>2, <3>3 DEF EventsOK
        <4>2. r.alive => y # <<>> /\ y[1] = "session"
          BY <3>1, <3>3, <4>1
        <4> QED
          BY <1>4, <3>1, <3>2, <3>3, <4>2 DEF EventsOK
      <3>4. CASE e # "session"
        <4>1. r.alive \/ (\E i \in DOMAIN y : y[i] = "done") =>
                proc[p].sid \in heard[proc[p].thread] \/ (x # <<>> /\ x[1] = "session")
          BY <1>4, <3>1, <3>2, <3>4 DEF EventsOK
        <4>2. r.alive \/ (\E i \in DOMAIN y : y[i] = "done") =>
                r.sid \in heard[r.thread] \/ (y # <<>> /\ y[1] = "session")
          BY <1>4, <3>1, <4>1
        <4> QED
          BY <1>4, <3>1, <3>2, <4>2 DEF EventsOK
      <3> QED
        BY <3>3, <3>4
    <2> QED
      BY <1>0, <1>1, <1>4, <2>1, <2>2, <2>3
  <1>5. ASSUME NEW p \in ProcIds, proc[p].events # <<>>, Shift(p), Grows, IdsOK', unsaved => unsaved',
               proc[p].events[1] = "session" => proc[p].sid \in heard'[proc[p].thread]
        PROVE  ResumesOK'
    <2> DEFINE a == proc[p]
               b == [proc[p] EXCEPT !.events = Tail(@)]
    <2>1. /\ DOMAIN proc' = ProcIds /\ proc'[p] = b
          /\ \A q \in ProcIds \ {p} : proc'[q] = proc[q]
      BY <1>5 DEF TableOK, Shift
    <2>2. /\ b.thread = a.thread /\ b.sid = a.sid /\ b.events = Tail(a.events)
          /\ b.alive = a.alive /\ b.pump = a.pump /\ b.prior = a.prior
          /\ EventsOK(a, heard) /\ a.events # <<>>
          /\ a.events[1] = "session" => a.sid \in heard'[a.thread]
      BY <1>0, <1>5 DEF ProcFields
    <2> HIDE DEF b
    <2>3. EventsOK(b, heard')
      <3> HIDE DEF a
      <3> QED
        BY <1>5, <2>2, EventsShift
    <2>4. ASSUME NEW q \in ProcIds \ {p} PROVE EventsOK(proc'[q], heard')
      <3> DEFINE c == proc[q]
      <3>1. EventsOK(c, heard)
        BY <1>0
      <3> HIDE DEF c
      <3>2. EventsOK(c, heard')
        BY <1>5, <3>1, EventsStay
      <3> QED
        BY <2>1, <3>2 DEF c
    <2> QED
      BY <1>1, <1>5, <2>1, <2>2, <2>3, <2>4
  <1>6. ASSUME NEW m \in Messages, Handles(m) PROVE ResumesOK'
    <2>1. CASE StartProc(m)
      <3> DEFINE t == about[m]
                 p == started + 1
                 r == Started(t, p)
      <3>1. /\ p \in ProcIds /\ p # None /\ t \in SThreads /\ UNCHANGED <<known, heard, saved>>
            /\ DOMAIN proc' = ProcIds /\ proc'[p] = r
            /\ \A q \in ProcIds \ {p} : proc'[q] = proc[q]
        <4>1. t \in SThreads
          BY <2>1, AtWork DEF StartProc, Moves
        <4>2. p \in ProcIds /\ p # None
          BY <2>1, SessionsAssumption DEF StartProc, TableOK, ProcIds, None
        <4> QED
          BY <2>1, <4>1, <4>2 DEF StartProc, TableOK
      <3>2. /\ r.thread = t /\ r.events = <<>> /\ r.alive /\ r.pump = "read" /\ r.prior = heard[t]
            /\ r.sid = IF known[t] = None THEN p ELSE known[t]
        BY DEF Started, NoProc, ResumeID
      <3> HIDE DEF p, t, r
      <3>3. EventsOK(r, heard)
        BY <3>1, <3>2, SessionsAssumption DEF EventsOK
      <3>4. r.prior # {} => unsaved \/ r.sid \in r.prior
        BY <3>1, <3>2 DEF ResumesOK, IdsOK
      <3>5. IdsOK'
        BY <3>1 DEF ResumesOK, IdsOK
      <3>6. Resumes'
        BY <3>1, <3>4 DEF ResumesOK, Resumes
      <3> QED
        BY <1>0, <3>1, <3>3, <3>5, <3>6 DEF ResumesOK
    <2>2. ASSUME NEW u \in SThreads, Evict(m, u) PROVE ResumesOK'
      <3>1. UNCHANGED <<known, heard, saved>> /\ (proc' = proc \/ proc' = Closed(sess[u]))
        BY <2>2 DEF Evict
      <3> QED
        BY <1>0, <1>2, <1>3, <3>1 DEF Closed, TableOK, ProcFields
    <2>3. CASE SendInput(m)
      <3>1. UNCHANGED <<known, heard, saved>> /\ (proc' = proc \/ proc' = Fed(sess[about[m]], m))
        BY <2>3 DEF SendInput
      <3> QED
        BY <1>0, <1>2, <1>3, <3>1 DEF Fed, TableOK, ProcFields
    <2>4. CASE Lock(m) \/ Scan(m) \/ HasRoom(m) \/ NoRoomLeft(m) \/ StartFails(m) \/ SetTurn(m)
      BY <1>3, <2>4 DEF Lock, Scan, HasRoom, NoRoomLeft, StartFails, SetTurn
    <2> QED
      BY <1>6, <2>1, <2>2, <2>3, <2>4 DEF Handles
  <1>7. ASSUME NEW p \in ProcIds, Works(p) \/ Crash(p) PROVE ResumesOK'
    <2>0. proc[p].alive => proc[p].thread \in SThreads /\ proc[p].sid # None
      BY <1>0 DEF EventsOK
    <2>1. CASE Announce(p)
      <3> DEFINE r == [proc[p] EXCEPT !.events = Emit(p, "session"), !.pump = "announced"]
      <3>1. /\ proc' = [proc EXCEPT ![p] = r] /\ UNCHANGED <<known, heard, saved>>
            /\ proc[p].alive /\ proc[p].pump = "read"
        BY <2>1 DEF Announce
      <3>2. /\ DOMAIN r = ProcFields /\ r.events = Emit(p, "session") /\ r.pump = "announced"
            /\ r.sid = proc[p].sid /\ r.prior = proc[p].prior /\ r.thread = proc[p].thread
        BY <1>0 DEF ProcFields
      <3> HIDE DEF r
      <3> QED
        BY <1>4, <2>0, <3>1, <3>2 DEF EventKinds
    <2>2. CASE Answer(p)
      <3> DEFINE r == [proc[p] EXCEPT !.events = Emit(p, "done"), !.work = Tail(@)]
      <3>1. /\ proc' = [proc EXCEPT ![p] = r] /\ UNCHANGED <<known, heard, saved>>
            /\ proc[p].alive /\ proc[p].pump # "read"
        BY <2>2 DEF Answer
      <3>2. /\ DOMAIN r = ProcFields /\ r.events = Emit(p, "done") /\ r.pump = proc[p].pump
            /\ r.sid = proc[p].sid /\ r.prior = proc[p].prior /\ r.thread = proc[p].thread
        BY <1>0 DEF ProcFields
      <3> HIDE DEF r
      <3> QED
        BY <1>4, <2>0, <3>1, <3>2 DEF EventKinds
    <2>3. CASE Crash(p)
      <3> DEFINE r == [proc[p] EXCEPT !.events = Emit(p, "error"), !.alive = FALSE,
                                      !.running = FALSE, !.work = <<>>]
      <3>1. /\ proc' = [proc EXCEPT ![p] = r] /\ UNCHANGED <<known, heard, saved>>
            /\ proc[p].alive
        BY <2>3 DEF Crash
      <3>2. /\ DOMAIN r = ProcFields /\ r.events = Emit(p, "error") /\ ~r.alive
            /\ r.sid = proc[p].sid /\ r.prior = proc[p].prior /\ r.thread = proc[p].thread
        BY <1>0 DEF ProcFields
      <3> HIDE DEF r
      <3> QED
        BY <1>4, <2>0, <3>1, <3>2 DEF EventKinds
    <2>4. CASE Killed(p)
      BY <1>0, <1>2, <2>4 DEF Killed, TableOK, ProcFields
    <2> QED
      BY <1>7, <2>1, <2>2, <2>3, <2>4 DEF Works
  <1>8. ASSUME NEW p \in ProcIds, Pumps(p) PROVE ResumesOK'
    <2> DEFINE t == proc[p].thread
    <2>0. /\ proc[p].events # <<>> => t \in SThreads /\ proc[p].sid # None /\ Head(proc[p].events) = proc[p].events[1]
          /\ (\E i \in DOMAIN proc[p].events : proc[p].events[i] = "done") =>
               proc[p].sid \in heard[t] \/ proc[p].events[1] = "session"
          /\ proc[p].events # <<>> => 1 \in DOMAIN proc[p].events
      <3>1. proc[p].events # <<>> => 1 \in DOMAIN proc[p].events /\ Head(proc[p].events) = proc[p].events[1]
        <4>1. proc[p].events \in Seq(EventKinds)
          BY <1>0 DEF EventsOK
        <4> QED
          BY <4>1, EmptySeq, LenProperties
      <3> QED
        BY <1>0, <3>1 DEF EventsOK
    <2>1. ASSUME t \in SThreads, proc[p].sid # None, proc[p].sid \in heard'[t], DOMAIN heard' = SThreads,
                 \A u \in SThreads : heard[u] \subseteq heard'[u],
                 \A u \in SThreads \ {t} : heard'[u] = heard[u],
                 known' = [known EXCEPT ![t] = proc[p].sid], Remember(t, proc[p].sid)
          PROVE  Grows /\ IdsOK' /\ (unsaved => unsaved')
      <3>1. /\ DOMAIN known = SThreads /\ index = known /\ DOMAIN disk = SThreads
            /\ \A u \in SThreads : known[u] \in heard[u] \cup {None} /\ disk[u] \in heard[u] \cup {None}
            /\ ~unsaved => \A u \in SThreads : disk[u] = index[u] /\ (heard[u] # {} => known[u] # None)
        BY DEF ResumesOK, IdsOK
      <3>2. /\ index' = known' /\ DOMAIN known' = SThreads /\ known'[t] = proc[p].sid
            /\ \A u \in SThreads \ {t} : known'[u] = known[u]
        BY <2>1, <3>1 DEF Remember
      <3>3. /\ unsaved => unsaved'
            /\ disk' = disk \/ disk' = index'
            /\ ~unsaved' => ~unsaved /\ \A u \in SThreads : disk'[u] = index'[u]
        <4>1. CASE disk' = (IF index[t] = proc[p].sid THEN disk ELSE index') /\ unsaved' = unsaved
          <5>1. CASE index[t] = proc[p].sid
            <6>1. \A u \in SThreads : index'[u] = index[u]
              BY <3>1, <3>2, <5>1
            <6> QED
              BY <3>1, <4>1, <5>1, <6>1
          <5>2. CASE index[t] # proc[p].sid
            BY <4>1, <5>2
          <5> QED
            BY <5>1, <5>2
        <4>2. CASE unsaved' = TRUE /\ disk' = disk
          BY <4>2
        <4> QED
          BY <2>1, <4>1, <4>2 DEF Remember
      <3>4. \A u \in SThreads : known'[u] \in heard'[u] \cup {None} /\ disk'[u] \in heard'[u] \cup {None}
        BY <2>1, <3>1, <3>2, <3>3
      <3>5. ~unsaved' => \A u \in SThreads : heard'[u] # {} => known'[u] # None
        BY <2>1, <3>1, <3>2, <3>3
      <3> QED
        BY <2>1, <3>1, <3>2, <3>3, <3>4, <3>5 DEF IdsOK
    <2>2. CASE PumpSession(p)
      <3>1. /\ proc[p].events # <<>> /\ Shift(p)
            /\ known' = [known EXCEPT ![t] = proc[p].sid] /\ Remember(t, proc[p].sid)
            /\ heard' = [heard EXCEPT ![t] = @ \cup {proc[p].sid}]
        BY <2>2 DEF PumpSession
      <3>2. t \in SThreads /\ proc[p].sid # None /\ DOMAIN heard = SThreads
        BY <2>0, <3>1 DEF ResumesOK, IdsOK
      <3> HIDE DEF t
      <3>3. /\ DOMAIN heard' = SThreads /\ proc[p].sid \in heard'[t] /\ \A u \in SThreads : heard[u] \subseteq heard'[u]
            /\ \A u \in SThreads \ {t} : heard'[u] = heard[u]
        BY <3>1, <3>2
      <3>4. Grows /\ IdsOK' /\ (unsaved => unsaved')
        BY <2>1, <3>1, <3>2, <3>3 DEF t
      <3> QED
        BY <1>5, <3>1, <3>3, <3>4 DEF t
    <2>3. CASE PumpDone(p)
      <3>1. /\ proc[p].events # <<>> /\ Shift(p) /\ Head(proc[p].events) = "done"
            /\ known' = [known EXCEPT ![t] = proc[p].sid] /\ Remember(t, proc[p].sid)
            /\ UNCHANGED heard
        BY <2>3 DEF PumpDone
      <3>2. t \in SThreads /\ proc[p].sid # None /\ proc[p].sid \in heard[t] /\ DOMAIN heard = SThreads
        BY <2>0, <3>1 DEF ResumesOK, IdsOK
      <3> HIDE DEF t
      <3>3. Grows /\ IdsOK' /\ (unsaved => unsaved')
        BY <2>1, <3>1, <3>2 DEF t
      <3> QED
        BY <1>5, <3>1, <3>2, <3>3 DEF t
    <2>4. CASE PumpError(p)
      <3>1. /\ proc[p].events # <<>> /\ Shift(p) /\ Head(proc[p].events) = "error"
            /\ UNCHANGED <<known, heard, saved>>
        BY <2>4 DEF PumpError
      <3>2. Grows /\ IdsOK' /\ (unsaved => unsaved')
        BY <3>1 DEF ResumesOK, IdsOK
      <3> QED
        BY <1>5, <2>0, <3>1, <3>2
    <2>5. CASE PumpEnds(p)
      <3>1. /\ UNCHANGED <<known, heard, saved>> /\ ~proc[p].alive
            /\ proc' = [proc EXCEPT ![p].pump = "over"]
        BY <2>5 DEF PumpEnds
      <3> QED
        BY <1>0, <1>2, <3>1 DEF TableOK, ProcFields
    <2> QED
      BY <1>8, <2>2, <2>3, <2>4, <2>5 DEF Pumps
  <1>9. CASE SweepCloses
    <2>1. UNCHANGED <<known, heard, saved>> /\ (proc' = proc \/ proc' = Closed(sess[sweep]))
      BY <1>9 DEF SweepCloses
    <2> QED
      BY <1>0, <1>2, <1>3, <2>1 DEF Closed, TableOK, ProcFields
  <1>10. CASE RestartRunner
    <2>1. /\ UNCHANGED <<disk, unsaved, heard>> /\ known' = disk /\ index' = disk
          /\ DOMAIN proc' = ProcIds
          /\ \A q \in ProcIds : proc'[q] = [NoProc EXCEPT !.sid = proc[q].sid, !.prior = proc[q].prior]
      BY <1>10 DEF RestartRunner
    <2>2. Grows /\ IdsOK'
      BY <2>1 DEF ResumesOK, IdsOK
    <2>3. ASSUME NEW q \in ProcIds
          PROVE  /\ EventsOK(proc'[q], heard') /\ proc'[q].sid = proc[q].sid /\ proc'[q].prior = proc[q].prior
      <3> DEFINE r == proc'[q]
      <3>1. /\ r.events = <<>> /\ ~r.alive /\ r.sid = proc[q].sid /\ r.prior = proc[q].prior
        <4>1. r = Restarted(proc[q].sid, proc[q].prior)
          BY <2>1 DEF Restarted
        <4> HIDE DEF r
        <4> QED
          BY <4>1, RestartedProc
      <3> HIDE DEF r
      <3>2. EventsOK(r, heard')
        BY <3>1, SessionsAssumption DEF EventsOK
      <3> QED
        BY <3>1, <3>2 DEF r
    <2> QED
      BY <1>1, <2>1, <2>2, <2>3
  <1>11. ASSUME NEW t \in SThreads, Receive(t) \/ SweepFinds(t) PROVE ResumesOK'
    BY <1>3, <1>11 DEF Receive, SweepFinds
  <1>12. CASE Maintain \/ UNCHANGED sessionVars
    BY <1>3, <1>12 DEF Maintain, sessionVars
  <1> QED
    BY <1>6, <1>7, <1>8, <1>9, <1>10, <1>11, <1>12 DEF SessionsNext

-----------------------------------------------------------------------------
(* Room for processes                                                        *)

(* What a thread has yet to evict is a number, of a goroutine of its own.    *)
LEMMA NeedsNumber ==
  ASSUME JobsOK, HoldersOK, RoomForAll, NEW t \in SThreads
  PROVE  /\ Needs(t) \in Nat
         /\ mu[t] # None => mu[t] \in Messages /\ about[mu[t]] = t /\ job[mu[t]] \in Holding
         /\ ~Locked(t) => Needs(t) = 0 /\ ~Starting(t)
  BY DEF Needs, RoomForAll, HoldersOK, Locked, Starting

(* Fewer threads that have or look for a place still have room, if none is   *)
(* to evict less than before.                                                *)
LEMMA RoomShrinks ==
  ASSUME RoomForAll, Takers' \subseteq Takers, \A t \in Takers' : Needs(t)' = Needs(t),
         \A m \in Messages : DOMAIN room'[m] = {"need", "victims"} /\ room'[m].need \in Nat
  PROVE  RoomForAll'
  BY DEF RoomForAll

(* A goroutine's step leaves alone what other threads have or look for.      *)
LEMMA OthersStay ==
  ASSUME JobsOK, HoldersOK, RoomForAll, NEW m \in Messages,
         \A k \in Messages \ {m} : job'[k] = job[k] /\ room'[k] = room[k],
         NEW u \in SThreads, mu'[u] = mu[u], mu[u] # m
  PROVE  (Starting(u)' <=> Starting(u)) /\ Needs(u)' = Needs(u)
  BY NeedsNumber DEF Starting, Needs

(* However starts, evictions and ends of processes follow each other.        *)
LEMMA RoomKept ==
  ASSUME JobsOK, JobsOK', HoldersOK, HoldersOK', TableOK, TableOK', RoomForAll,
         [SessionsNext]_sessionVars
  PROVE  RoomForAll'
  <1> USE DEF jobs, threads, procs, saved, rest
  <1>0. \A k \in Messages : DOMAIN room[k] = {"need", "victims"} /\ room[k].need \in Nat
    BY DEF RoomForAll
  <1>1. ASSUME UNCHANGED <<mu, job, room>>, \A t \in SThreads : Live(t)' => Live(t)
        PROVE  RoomForAll'
    BY <1>0, <1>1, RoomShrinks DEF Takers, Needs, Starting
  <1>2. ASSUME NEW m \in Messages, NEW from, NEW to, from # "none", Moves(m, from, to),
               UNCHANGED about,
               \A u \in SThreads \ {about[m]} : mu'[u] = mu[u] /\ (Live(u)' => Live(u)),
               \A k \in Messages \ {m} : room'[k] = room[k],
               DOMAIN room'[m] = {"need", "victims"}, room'[m].need \in Nat,
               LET t == about[m] IN
               t \in SThreads /\ t \in Takers' => t \in Takers /\ Needs(t)' = Needs(t)
        PROVE  RoomForAll'
    <2>1. /\ about[m] \in SThreads
          /\ \A k \in Messages \ {m} : job'[k] = job[k] /\ room'[k] = room[k]
      BY <1>2, AtWork DEF Moves, JobsOK
    <2>2. ASSUME NEW u \in SThreads, u # about[m]
          PROVE  (Starting(u)' <=> Starting(u)) /\ Needs(u)' = Needs(u)
      <3>1. mu[u] # m /\ mu'[u] = mu[u]
        BY <1>2, <2>2 DEF HoldersOK
      <3> QED
        BY <2>1, <3>1, OthersStay
    <2>3. Takers' \subseteq Takers /\ \A t \in Takers' : Needs(t)' = Needs(t)
      BY <1>2, <2>1, <2>2 DEF Takers
    <2> QED
      BY <1>0, <1>2, <2>3, RoomShrinks
  <1>3. ASSUME NEW m \in Messages, NEW from, NEW to, from # "none", Moves(m, from, to),
               from \notin Holding, to \notin Holding,
               UNCHANGED <<about, mu, room>>, \A t \in SThreads : Live(t)' => Live(t)
        PROVE  RoomForAll'
    <2>1. about[m] \in SThreads /\ mu[about[m]] # m
      BY <1>3, AtWork DEF Moves, HoldersOK
    <2>2. \A k \in Messages \ {m} : job'[k] = job[k]
      BY <1>3 DEF Moves, JobsOK
    <2>3. (Starting(about[m])' <=> Starting(about[m])) /\ Needs(about[m])' = Needs(about[m])
      BY <1>3, <2>1, <2>2, OthersStay
    <2> QED
      BY <1>0, <1>2, <1>3, <2>3 DEF Takers
  <1>4. ASSUME NEW t \in SThreads, Receive(t) PROVE RoomForAll'
    <2>1. got \in Nat /\ got + 1 \in Messages /\ ~(got + 1 <= got)
      BY <1>4, SessionsAssumption DEF JobsOK, Messages, Receive
    <2>2. /\ job[got + 1] = "none" /\ UNCHANGED <<mu, sess, proc, room>>
          /\ \A k \in Messages \ {got + 1} : job'[k] = job[k] /\ room'[k] = room[k]
      BY <1>4, <2>1 DEF Receive, JobsOK
    <2>3. ASSUME NEW u \in SThreads PROVE (Starting(u)' <=> Starting(u)) /\ Needs(u)' = Needs(u) /\ (Live(u)' <=> Live(u))
      <3>1. mu[u] # got + 1
        BY <2>1, <2>2 DEF HoldersOK, Holding
      <3> QED
        BY <2>1, <2>2, <3>1, OthersStay DEF Live
    <2> QED
      BY <1>0, <2>2, <2>3, RoomShrinks DEF Takers
  <1>5. ASSUME NEW m \in Messages, Handles(m) PROVE RoomForAll'
    <2> DEFINE t == about[m]
    <2>0. job[m] # "none" => t \in SThreads /\ m # None
      BY AtWork
    <2>1. CASE Lock(m)
      <3>1. CASE Moves(m, "lock", "turn") /\ UNCHANGED mu
        BY <1>3, <2>1, <3>1 DEF Lock, Live, Holding
      <3>2. CASE Moves(m, "lock", "scan") /\ mu' = [mu EXCEPT ![t] = m] /\ ~Live(t)
        <4>1. t \in SThreads /\ m # None
          BY <2>0, <3>2 DEF Moves
        <4>2. /\ UNCHANGED <<about, room, sess, proc>> /\ mu'[t] = m
              /\ \A u \in SThreads \ {t} : mu'[u] = mu[u]
          BY <2>1, <3>2, <4>1 DEF Lock, HoldersOK
        <4>3. job'[m] = "scan"
          BY <3>2 DEF Moves, JobsOK
        <4>4. t \notin Takers'
          BY <3>2, <4>1, <4>2, <4>3 DEF Takers, Starting, Live
        <4> QED
          BY <1>0, <1>2, <3>2, <4>2, <4>4 DEF Live
      <3> QED
        BY <2>1, <3>1, <3>2 DEF Lock
    <2>2. CASE Scan(m)
      <3> DEFINE n == Cardinality(Resident(t))
                 need == IF n < MaxSessions THEN 0 ELSE n - MaxSessions + 1
      <3>1. /\ job[m] = "scan" /\ t \in SThreads /\ m # None /\ mu[t] = m
            /\ UNCHANGED <<about, mu, sess, proc>>
            /\ MaxSessions > 0 => job'[m] = "room"
            /\ \A k \in Messages \ {m} : job'[k] = job[k]
        <4>1. job[m] = "scan" /\ UNCHANGED <<about, mu, sess, proc>>
          BY <2>2 DEF Scan, Moves
        <4>2. t \in SThreads /\ m # None /\ mu[t] = m
          BY <2>0, <4>1 DEF HoldersOK, Holding
        <4>3. job' = [job EXCEPT ![m] = IF MaxSessions = 0 THEN "start" ELSE "room"]
          BY <2>2 DEF Scan, Moves
        <4> QED
          BY <4>1, <4>2, <4>3, SessionsAssumption DEF JobsOK
      <3>2. /\ room'[m].need = need /\ DOMAIN room'[m] = {"need", "victims"}
            /\ \A k \in Messages \ {m} : room'[k] = room[k]
        BY <2>2 DEF Scan, JobsOK
      <3>3. Resident(t) \subseteq SThreads /\ IsFiniteSet(Resident(t)) /\ n \in Nat
            /\ t \notin Resident(t)
        <4>1. Resident(t) \subseteq SThreads /\ t \notin Resident(t)
          BY DEF Resident
        <4> QED
          BY <4>1, FS_Subset, FS_CardinalityType, SessionsAssumption
      <3>4. need \in Nat /\ n + 1 <= MaxSessions + need
        BY <3>3, SessionsAssumption
      <3>5. \A k \in Messages : DOMAIN room'[k] = {"need", "victims"} /\ room'[k].need \in Nat
        BY <1>0, <3>2, <3>4
      <3>6. ASSUME NEW u \in SThreads, u # t
            PROVE  (Starting(u)' <=> Starting(u)) /\ Needs(u)' = Needs(u) /\ (Live(u)' <=> Live(u))
        <4>1. mu[u] # m
          BY <3>6 DEF HoldersOK
        <4> QED
          BY <3>1, <3>2, <4>1, OthersStay DEF Live
      <3>7. Takers' \subseteq Resident(t) \cup {t}
        BY <3>6 DEF Takers, Resident, Starting, Locked
      <3>8. ASSUME MaxSessions > 0, NEW A \in (SUBSET Takers') \ {{}}
            PROVE  \E x \in A : Cardinality(A) <= MaxSessions + Needs(x)'
        <4>1. CASE t \in A
          <5>1. Needs(t)' = need
            BY <3>1, <3>2, <3>8 DEF Needs
          <5>2. /\ IsFiniteSet(Resident(t) \cup {t}) /\ Cardinality(Resident(t) \cup {t}) = n + 1
            BY <3>3, FS_AddElement
          <5>3. A \in SUBSET (Resident(t) \cup {t})
            BY <3>7, <3>8
          <5>4. Cardinality(A) <= n + 1 /\ Cardinality(A) \in Nat
            BY <5>2, <5>3, FS_Subset, FS_CardinalityType
          <5> QED
            BY <3>1, <3>3, <3>4, <4>1, <5>1, <5>4, SessionsAssumption
        <4>2. CASE t \notin A
          <5>1. A \in (SUBSET Takers) \ {{}} /\ A \subseteq SThreads \ {t}
            BY <3>6, <3>8, <4>2 DEF Takers
          <5>2. PICK x \in A : Cardinality(A) <= MaxSessions + Needs(x)
            BY <3>8, <5>1 DEF RoomForAll
          <5> QED
            BY <3>6, <5>1, <5>2
        <4> QED
          BY <4>1, <4>2
      <3> QED
        BY <3>5, <3>8 DEF RoomForAll
    <2>3. ASSUME NEW u \in SThreads, Evict(m, u) PROVE RoomForAll'
      <3>1. /\ job[m] = "room" /\ t \in SThreads /\ m # None /\ mu[t] = m
            /\ UNCHANGED <<about, mu, job>> /\ room[m].need > 0
        BY <2>0, <2>3 DEF Evict, HoldersOK, Holding
      <3>2. CASE UNCHANGED <<proc, sess>> /\ room' = [room EXCEPT ![m].victims = @ \ {u}]
        <4>1. \A k \in Messages : DOMAIN room'[k] = {"need", "victims"} /\ room'[k].need = room[k].need
          BY <1>0, <3>2 DEF JobsOK
        <4>2. \A x \in SThreads : mu[x] # None => mu[x] \in Messages
          BY DEF HoldersOK
        <4>3. Takers' = Takers /\ \A x \in SThreads : Needs(x)' = Needs(x)
          BY <3>1, <3>2, <4>1, <4>2 DEF Takers, Needs, Starting, Live
        <4> QED
          BY <1>0, <4>1, <4>3, RoomShrinks DEF Takers
      <3>3. CASE /\ StillIdle(u) /\ proc' = Closed(sess[u]) /\ sess' = [sess EXCEPT ![u] = None]
                 /\ room' = [room EXCEPT ![m] = [need |-> @.need - 1, victims |-> @.victims \ {u}]]
        <4>1. /\ \A k \in Messages \ {m} : room'[k] = room[k]
              /\ DOMAIN room'[m] = {"need", "victims"} /\ room'[m].need = room[m].need - 1
          BY <3>3 DEF JobsOK
        <4>2. /\ \A k \in Messages : DOMAIN room'[k] = {"need", "victims"} /\ room'[k].need \in Nat
          BY <1>0, <3>1, <4>1
        <4>3. /\ u \in Takers /\ u # t /\ Needs(u) = 0 /\ mu[u] = None
              /\ sess'[u] = None
          BY <3>1, <3>3 DEF StillIdle, Takers, Needs, TableOK
        <4>4. ASSUME NEW x \in SThreads PROVE Live(x)' => Live(x) /\ x # u
          <5>1. CASE x = u
            BY <4>3, <5>1 DEF Live
          <5>2. CASE x # u
            <6>1. sess'[x] = sess[x] /\ (sess[x] # None => sess[x] \in ProcIds)
              BY <3>3, <5>2, SessionsAssumption DEF TableOK, ProcIds, None
            <6> QED
              BY <3>3, <5>2, <6>1 DEF Live, Closed, TableOK
          <5> QED
            BY <5>1, <5>2
        <4>5. Takers' \subseteq Takers \ {u}
          BY <3>1, <4>3, <4>4 DEF Takers, Starting
        <4>6. ASSUME NEW x \in SThreads, x # t PROVE Needs(x)' = Needs(x)
          <5>1. mu[x] # m
            BY <4>6 DEF HoldersOK
          <5> QED
            BY <3>1, <4>1, <5>1, OthersStay
        <4>7. Needs(t)' = Needs(t) - 1 /\ Needs(t) \in Nat
          BY <1>0, <3>1, <4>1 DEF Needs
        <4>8. ASSUME MaxSessions > 0, NEW A \in (SUBSET Takers') \ {{}}
              PROVE  \E x \in A : Cardinality(A) <= MaxSessions + Needs(x)'
          <5>1. A \subseteq SThreads /\ u \notin A /\ A \cup {u} \in (SUBSET Takers) \ {{}}
            BY <4>3, <4>5, <4>8 DEF Takers
          <5>2. IsFiniteSet(A) /\ Cardinality(A) \in Nat /\ Cardinality(A \cup {u}) = Cardinality(A) + 1
            BY <5>1, FS_Subset, FS_CardinalityType, FS_AddElement, SessionsAssumption
          <5>3. PICK x \in A \cup {u} : Cardinality(A \cup {u}) <= MaxSessions + Needs(x)
            BY <4>8, <5>1 DEF RoomForAll
          <5>4. CASE x = t
            BY <3>1, <4>3, <4>7, <5>2, <5>3, <5>4, SessionsAssumption
          <5>5. CASE x # t /\ x \in A
            <6>1. Needs(x)' = Needs(x) /\ Needs(x) \in Nat
              BY <4>6, <5>1, <5>5, NeedsNumber
            <6> QED
              BY <5>2, <5>3, <5>5, <6>1, SessionsAssumption
          <5>6. CASE x = u
            <6>1. Cardinality(A) + 1 <= MaxSessions
              BY <4>3, <5>2, <5>3, <5>6, SessionsAssumption
            <6>2. PICK y \in A : TRUE
              BY <4>8
            <6>3. Needs(y)' \in Nat
              <7>1. CASE y = t
                BY <3>1, <4>1, <4>2, <7>1 DEF Needs
              <7>2. CASE y # t
                BY <4>6, <5>1, <7>2, NeedsNumber
              <7> QED
                BY <7>1, <7>2
            <6> QED
              BY <5>2, <6>1, <6>2, <6>3, SessionsAssumption
          <5> QED
            BY <5>3, <5>4, <5>5, <5>6
        <4> QED
          BY <4>2, <4>8 DEF RoomForAll
      <3> QED
        BY <2>3, <3>2, <3>3 DEF Evict
    <2>4. CASE HasRoom(m)
      <3>1. /\ room[m].need = 0 /\ Moves(m, "room", "start") /\ UNCHANGED <<about, mu, room, sess, proc>>
        BY <2>4 DEF HasRoom
      <3>2. /\ t \in SThreads /\ mu[t] = m /\ m # None /\ job[m] = "room" /\ job'[m] = "start"
        BY <2>0, <3>1 DEF Moves, HoldersOK, Holding, JobsOK
      <3>3. t \in Takers /\ Needs(t)' = Needs(t)
        BY <3>1, <3>2 DEF Takers, Starting, Needs
      <3> QED
        BY <1>0, <1>2, <3>1, <3>3 DEF Live
    <2>5. CASE NoRoomLeft(m) \/ StartFails(m)
      <3>1. PICK from \in {"room", "start"} : Moves(m, from, "over")
        BY <2>5 DEF NoRoomLeft, StartFails, Fail
      <3>2. /\ UNCHANGED <<about, room, sess, proc>> /\ mu' = [mu EXCEPT ![t] = None]
            /\ t \in SThreads /\ mu[t] = m
        BY <2>0, <2>5, <3>1 DEF NoRoomLeft, StartFails, Unlock, Moves, HoldersOK, Holding
      <3>3. mu'[t] = None /\ \A u \in SThreads \ {t} : mu'[u] = mu[u]
        BY <3>2 DEF HoldersOK
      <3>4. t \notin Takers'
        <4>1. ~Live(t)
          BY <2>0, <3>1, <3>2 DEF TableOK, Locked, Moves
        <4> QED
          BY <3>2, <3>3, <4>1 DEF Takers, Starting, Live
      <3> QED
        BY <1>0, <1>2, <3>1, <3>2, <3>3, <3>4 DEF Live
    <2>6. CASE StartProc(m)
      <3> DEFINE p == started + 1
      <3>1. /\ Moves(m, "start", "turn") /\ UNCHANGED <<about, room>> /\ mu' = [mu EXCEPT ![t] = None]
            /\ proc' = [proc EXCEPT ![p] = Started(t, p)] /\ sess' = [sess EXCEPT ![t] = p]
        BY <2>6 DEF StartProc, Unlock
      <3>2. t \in SThreads /\ mu[t] = m /\ m # None /\ job[m] = "start"
        BY <2>0, <3>1 DEF Moves, HoldersOK, Holding
      <3>3. mu'[t] = None /\ \A u \in SThreads \ {t} : mu'[u] = mu[u] /\ sess'[u] = sess[u]
        BY <3>1, <3>2 DEF HoldersOK, TableOK
      <3>4. ASSUME NEW u \in SThreads, u # t PROVE Live(u)' => Live(u)
        <4>1. sess[u] # p
          BY SessionsAssumption DEF TableOK
        <4>2. Live(u)' => sess[u] \in ProcIds
          BY <3>3, <3>4, SessionsAssumption DEF Live, TableOK, ProcIds, None
        <4>3. Live(u)' => proc'[sess[u]] = proc[sess[u]]
          BY <3>1, <4>1, <4>2 DEF TableOK
        <4> QED
          BY <3>3, <3>4, <4>3 DEF Live
      <3>5. t \in Takers /\ Needs(t)' = Needs(t)
        BY <3>1, <3>2, <3>3 DEF Takers, Starting, Needs
      <3> HIDE DEF p
      <3> QED
        BY <1>0, <1>2, <3>1, <3>3, <3>4, <3>5
    <2>7. CASE SetTurn(m)
      BY <1>3, <2>7 DEF SetTurn, Live, Holding
    <2>8. CASE SendInput(m)
      <3>1. Moves(m, "send", "over") /\ UNCHANGED <<about, mu, room, sess>> /\ (proc' = proc \/ proc' = Fed(sess[t], m))
        BY <2>8 DEF SendInput, Fail
      <3>2. \A u \in SThreads : sess[u] # None => sess[u] \in ProcIds
        BY SessionsAssumption DEF TableOK, ProcIds, None
      <3>3. \A u \in SThreads : Live(u)' => Live(u)
        BY <3>1, <3>2 DEF Fed, TableOK, Live, ProcFields
      <3> QED
        BY <1>3, <3>1, <3>3 DEF Holding
    <2> QED
      BY <1>5, <2>1, <2>2, <2>3, <2>4, <2>5, <2>6, <2>7, <2>8 DEF Handles
  <1>6. \A u \in SThreads : sess[u] # None => sess[u] \in ProcIds
    BY SessionsAssumption DEF TableOK, ProcIds, None
  <1>7. ASSUME NEW p \in ProcIds, Works(p) \/ Pumps(p) \/ Crash(p) PROVE RoomForAll'
    <2>1. /\ UNCHANGED <<sess, mu, job, room>>
          /\ \A q \in ProcIds : proc'[q].running => proc[q].running
      BY <1>7, ProcessSteps
    <2> QED
      BY <1>1, <1>6, <2>1 DEF Live
  <1>8. CASE SweepCloses
    <2>1. sweep \in SThreads /\ UNCHANGED <<mu, job, room>>
      BY <1>8 DEF SweepCloses, JobsOK
    <2>2. ASSUME NEW u \in SThreads PROVE Live(u)' => Live(u)
      <3>1. sess'[u] = None \/ sess'[u] = sess[u]
        BY <1>8, <2>1 DEF SweepCloses, TableOK
      <3>2. \A q \in ProcIds : proc'[q].running => proc[q].running
        BY <1>8 DEF SweepCloses, Closed, TableOK, ProcFields
      <3> QED
        BY <1>6, <3>1, <3>2 DEF Live
    <2> QED
      BY <1>1, <2>1, <2>2
  <1>9. CASE RestartRunner
    <2>1. /\ \A t \in SThreads : mu'[t] = None /\ sess'[t] = None
          /\ \A k \in Messages : room'[k] = NoRoom
      BY <1>9 DEF RestartRunner
    <2>2. Takers' = {}
      BY <2>1 DEF Takers, Live, Starting
    <2> QED
      BY <2>1, <2>2 DEF RoomForAll, NoRoom
  <1>10. ASSUME NEW t \in SThreads, SweepFinds(t) PROVE RoomForAll'
    BY <1>1, <1>10 DEF SweepFinds, Live
  <1>11. CASE Maintain \/ UNCHANGED sessionVars
    BY <1>1, <1>11 DEF Maintain, sessionVars, Live
  <1> QED
    BY <1>4, <1>5, <1>7, <1>8, <1>9, <1>10, <1>11 DEF SessionsNext

-----------------------------------------------------------------------------
(* The theorems                                                              *)

(* A thread gets a turn and is busy with it; it is no longer when that is    *)
(* reported.                                                                 *)
LEMMA TurnsKept ==
  ASSUME JobsOK, TurnsReported, [SessionsNext]_sessionVars
  PROVE  TurnsReported'
  <1> USE DEF jobs, threads, procs, saved, rest
  <1>1. ASSUME UNCHANGED <<current, busy>>, reported \subseteq reported' PROVE TurnsReported'
    BY <1>1 DEF TurnsReported
  <1>2. ASSUME NEW t, EndTurn(t), UNCHANGED current PROVE TurnsReported'
    BY <1>2 DEF EndTurn, TurnsReported
  <1>3. ASSUME NEW m \in Messages, Handles(m) PROVE TurnsReported'
    <2>1. CASE SetTurn(m)
      <3>1. about[m] \in SThreads
        BY <2>1, AtWork DEF SetTurn, Moves
      <3> QED
        BY <2>1, <3>1 DEF SetTurn, JobsOK, TurnsReported
    <2>2. CASE ~SetTurn(m)
      <3>1. UNCHANGED <<current, busy>> /\ reported \subseteq reported'
        BY <1>3, <2>2
        DEF Handles, Lock, Scan, Evict, HasRoom, NoRoomLeft, StartProc, StartFails, SendInput, Fail
      <3> QED
        BY <1>1, <3>1
    <2> QED
      BY <2>1, <2>2
  <1>4. ASSUME NEW p \in ProcIds, Works(p) \/ Pumps(p) \/ Crash(p) PROVE TurnsReported'
    <2>1. CASE Works(p) \/ Crash(p) \/ PumpSession(p)
      BY <1>1, <2>1 DEF Works, Crash, Announce, Answer, Killed, PumpSession
    <2>2. CASE PumpDone(p) \/ PumpError(p) \/ PumpEnds(p)
      <3>1. EndTurn(proc[p].thread) \/ UNCHANGED <<busy, reported>>
        BY <2>2 DEF PumpDone, PumpError, PumpEnds
      <3>2. UNCHANGED current
        BY <2>2 DEF PumpDone, PumpError, PumpEnds
      <3> QED
        BY <1>1, <1>2, <3>1, <3>2
    <2> QED
      BY <1>4, <2>1, <2>2 DEF Pumps
  <1>5. CASE RestartRunner
    BY <1>5 DEF RestartRunner, TurnsReported
  <1>6. ASSUME NEW t \in SThreads, Receive(t) \/ SweepFinds(t) PROVE TurnsReported'
    BY <1>1, <1>6 DEF Receive, SweepFinds
  <1>7. CASE SweepCloses \/ Maintain \/ UNCHANGED sessionVars
    BY <1>1, <1>7 DEF SweepCloses, Maintain, sessionVars
  <1> QED
    BY <1>3, <1>4, <1>5, <1>6, <1>7 DEF SessionsNext

\* What every step keeps.
SessionsInv == SessionsOK /\ RoomForAll /\ TurnsReported /\ ResumesOK

(* It holds before the first message.                                        *)
LEMMA SessionsInitOK == SessionsInit => SessionsInv
  <1> SUFFICES ASSUME SessionsInit PROVE SessionsInv
    OBVIOUS
  <1>1. JobsOK
    <2>1. \A m \in Messages : ~(m <= 0)
      BY SessionsAssumption DEF Messages
    <2> QED
      BY <2>1, SessionsAssumption DEF SessionsInit, JobsOK, None
  <1>2. HoldersOK
    BY DEF SessionsInit, HoldersOK, Holding, Messages, None
  <1>3. TableOK
    BY SessionsAssumption DEF SessionsInit, TableOK, NoProc, ProcFields, None, Live, Locked
  <1>4. RoomForAll
    <2>1. Takers = {}
      BY DEF SessionsInit, Takers, Live, Starting, None
    <2> QED
      BY <2>1 DEF SessionsInit, RoomForAll, NoRoom
  <1>5. TurnsReported
    BY DEF SessionsInit, TurnsReported
  <1>6. ResumesOK
    <2>1. <<>> \in Seq(EventKinds) /\ Len(<<>>) <= EventCap
      BY SessionsAssumption
    <2>2. EventsOK(NoProc, heard)
      BY <2>1 DEF EventsOK, NoProc
    <2> QED
      BY <2>2 DEF SessionsInit, ResumesOK, IdsOK, Resumes, NoProc
  <1> QED
    BY <1>1, <1>2, <1>3, <1>4, <1>5, <1>6 DEF SessionsInv, SessionsOK

(* So it always holds.                                                       *)
LEMMA SessionsCorrect == SessionsSpec => []SessionsInv
  <1>1. SessionsInv /\ [SessionsNext]_sessionVars => SessionsInv'
    <2> SUFFICES ASSUME SessionsInv, [SessionsNext]_sessionVars PROVE SessionsInv'
      OBVIOUS
    <2>1. JobsOK' /\ HoldersOK' /\ TableOK'
      BY JobsKept, HoldersKept, TableKept DEF SessionsInv, SessionsOK, ResumesOK
    <2>2. RoomForAll'
      BY <2>1, RoomKept DEF SessionsInv, SessionsOK
    <2>3. TurnsReported' /\ ResumesOK'
      BY TurnsKept, ResumesKept DEF SessionsInv, SessionsOK
    <2> QED
      BY <2>1, <2>2, <2>3 DEF SessionsInv, SessionsOK
  <1> QED
    BY <1>1, SessionsInitOK, PTL DEF SessionsSpec

(* A thread's mutex is held by the one goroutine that starts its session,    *)
(* and its session is a process of its own (sessionFor, makeRoom).           *)
THEOREM SessionsTypeCorrect == SessionsSpec => []SessionsTypeOK
  <1>1. SessionsInv => SessionsTypeOK
    <2> SUFFICES ASSUME SessionsInv PROVE SessionsTypeOK
      OBVIOUS
    <2>1. /\ got \in 0 .. MaxMessages /\ started \in 0 .. MaxProcs
          /\ reported \subseteq 1 .. got /\ busy \subseteq SThreads
      BY DEF SessionsInv, SessionsOK, JobsOK, TableOK
    <2>2. \A t \in SThreads, m \in Messages :
            mu[t] = m <=> about[m] = t /\ job[m] \in {"scan", "room", "start"}
      BY DEF SessionsInv, SessionsOK, HoldersOK, Holding
    <2>3. \A t \in SThreads : sess[t] # None =>
            sess[t] \in 1 .. started /\ proc[sess[t]].thread = t
      BY SessionsAssumption DEF SessionsInv, SessionsOK, TableOK, None
    <2>4. \A p \in ProcIds : Len(proc[p].events) <= EventCap
      BY DEF SessionsInv, ResumesOK, EventsOK
    <2> QED
      BY <2>1, <2>2, <2>3, <2>4 DEF SessionsTypeOK
  <1> QED
    BY <1>1, SessionsCorrect, PTL

(* No more processes run than the cap allows, for any number of threads that *)
(* start sessions and evict others at once (makeRoom).                       *)
THEOREM SessionCapCorrect == SessionsSpec => []SessionCap
  <1>1. SessionsInv => SessionCap
    <2> SUFFICES ASSUME SessionsInv, MaxSessions > 0
                 PROVE  Cardinality({p \in ProcIds : proc[p].running}) <= MaxSessions
      BY DEF SessionCap
    <2> DEFINE R == {p \in ProcIds : proc[p].running}
               L == {t \in SThreads : Live(t)}
               f == [p \in R |-> proc[p].thread]
    <2>1. ASSUME NEW p \in R PROVE f[p] \in L /\ sess[f[p]] = p
      <3>1. PICK t \in SThreads : sess[t] = p
        BY DEF SessionsInv, SessionsOK, TableOK
      <3>2. p # None
        BY DEF ProcIds, None
      <3>3. proc[p].thread = t
        BY <3>1, <3>2 DEF SessionsInv, SessionsOK, TableOK
      <3> QED
        BY <3>1, <3>2, <3>3 DEF Live
    <2>2. f \in Injection(R, L)
      <3>1. DOMAIN f = R /\ f \in [R -> L]
        BY <2>1
      <3> HIDE DEF f, R, L
      <3>2. IsInjective(f)
        BY <2>1, <3>1 DEF IsInjective
      <3> QED
        BY <3>1, <3>2 DEF Injection
    <2>3. IsFiniteSet(L) /\ Cardinality(L) \in Nat
      BY FS_Subset, FS_CardinalityType, SessionsAssumption
    <2>4. IsFiniteSet(R) /\ Cardinality(R) <= Cardinality(L) /\ Cardinality(R) \in Nat
      <3> HIDE DEF f, L, R
      <3> QED
        BY <2>2, <2>3, FS_Injection, FS_CardinalityType
    <2>5. Cardinality(L) <= MaxSessions
      <3>1. CASE L = {}
        BY <3>1, FS_EmptySet, SessionsAssumption
      <3>2. CASE L # {}
        <4>1. L \in (SUBSET Takers) \ {{}}
          BY <3>2 DEF Takers
        <4>2. PICK t \in L : Cardinality(L) <= MaxSessions + Needs(t)
          BY <4>1 DEF SessionsInv, RoomForAll
        <4>3. Needs(t) = 0
          BY NeedsNumber DEF SessionsInv, SessionsOK, TableOK
        <4> QED
          BY <2>3, <4>2, <4>3, SessionsAssumption
      <3> QED
        BY <3>1, <3>2
    <2> QED
      BY <2>3, <2>4, <2>5, SessionsAssumption
  <1> QED
    BY <1>1, SessionsCorrect, PTL

(* A session that is closed to make room for another thread's has no turn,   *)
(* or one that was reported (makeRoom).                                      *)
THEOREM RoomSparesTurnsCorrect == SessionsSpec => RoomSparesTurns
  <1>1. SessionsInv => \A m \in Messages, u \in SThreads :
          Evict(m, u) /\ sess'[u] # sess[u] => current[u] = None \/ current[u] \in reported
    BY DEF SessionsInv, TurnsReported, Evict, StillIdle
  <1> QED
    BY <1>1, SessionsCorrect, PTL DEF SessionsSpec, RoomSparesTurns

(* A thread whose session was announced goes on with one of its own, as long *)
(* as the index is written, also after the runner restarts (sessionFor,      *)
(* pumpEvents, sessionIndex).                                                *)
THEOREM ResumesCorrect == SessionsSpec => []Resumes
  <1>1. SessionsInv => Resumes
    BY DEF SessionsInv, ResumesOK
  <1> QED
    BY <1>1, SessionsCorrect, PTL

-----------------------------------------------------------------------------
(* Who reports a turn                                                        *)

\* A process's events are read until it is dead and they are all handled.
Pumping == {"read", "announced"}
PumpsOK ==
  \A p \in ProcIds :
    /\ proc[p].running => proc[p].alive
    /\ proc[p].alive => proc[p].pump \in Pumping
    /\ proc[p].pump \in Pumping => p <= started

\* A thread has one turn that is not reported; once it was set it is the thread's
\* current one, and once it was sent a process of the thread is still read.
Unreported == {m \in 1 .. got : m \notin reported}
Given == {"send", "over"}
OneOpen == \A m, n \in Unreported : about[m] = about[n] => m = n
SetOnce ==
  /\ \A t \in SThreads : current[t] # None => job[current[t]] \in Given
  /\ \A m \in reported : job[m] \in Given
  /\ \A m \in Unreported :
       job[m] # "none" /\ (job[m] \in Given => current[about[m]] = m)
HasPump ==
  \A m \in Unreported : job[m] = "over" =>
    \E p \in ProcIds : proc[p].thread = about[m] /\ proc[p].pump \in Pumping
ReportersOK == OneOpen /\ SetOnce /\ HasPump

\* A process that was read is still, and is still its thread's.
PumpsStay ==
  \A q \in ProcIds : proc[q].pump \in Pumping =>
    proc'[q].thread = proc[q].thread /\ proc'[q].pump \in Pumping

(* What a step leaves of the processes that are read.                        *)
LEMMA PumpsKept ==
  ASSUME TableOK, PumpsOK, [SessionsNext]_sessionVars
  PROVE  /\ PumpsOK'
         /\ PumpsStay \/ RestartRunner \/ \E p \in ProcIds : PumpEnds(p)
         /\ \A p \in ProcIds : PumpEnds(p) =>
              \A q \in ProcIds \ {p} : proc'[q] = proc[q]
  <1> USE DEF jobs, threads, procs, saved, rest
  <1> DEFINE Goal == /\ PumpsOK'
                     /\ PumpsStay \/ RestartRunner \/ \E p \in ProcIds : PumpEnds(p)
  <1>1. DOMAIN proc = ProcIds /\ \A p \in ProcIds : DOMAIN proc[p] = ProcFields
    BY DEF TableOK
  <1>2. ASSUME started' = started,
               \A q \in ProcIds :
                 /\ proc'[q].thread = proc[q].thread
                 /\ proc'[q].running => proc[q].running
                 /\ proc'[q].alive = proc[q].alive \/ ~(proc'[q].running \/ proc'[q].alive)
                 /\ \/ proc'[q].pump = proc[q].pump
                    \/ proc[q].pump \in Pumping /\ proc'[q].pump \in Pumping
        PROVE  Goal
    <2>1. PumpsStay
      BY <1>2 DEF PumpsStay
    <2>2. PumpsOK'
      BY <1>2 DEF PumpsOK
    <2> QED
      BY <2>1, <2>2
  <1>3. ASSUME NEW x, proc' = Closed(x), started' = started PROVE Goal
    <2>1. ASSUME NEW q \in ProcIds
          PROVE  /\ proc'[q].thread = proc[q].thread
                 /\ proc'[q].running => proc[q].running
                 /\ proc'[q].alive = proc[q].alive /\ proc'[q].pump = proc[q].pump
      BY <1>1, <1>3 DEF Closed, ProcFields
    <2> QED
      BY <1>2, <1>3, <2>1
  <1>4. ASSUME UNCHANGED <<started, proc>> PROVE Goal
    BY <1>2, <1>4
  <1>5. ASSUME NEW p \in ProcIds, Works(p) PROVE Goal
    <2>1. ASSUME NEW q \in ProcIds
          PROVE  /\ proc'[q].thread = proc[q].thread
                 /\ proc'[q].running = proc[q].running
                 /\ proc'[q].alive = proc[q].alive \/ ~(proc'[q].running \/ proc'[q].alive)
                 /\ \/ proc'[q].pump = proc[q].pump
                    \/ proc[q].pump \in Pumping /\ proc'[q].pump \in Pumping
      <3>1. CASE Announce(p)
        BY <1>1, <3>1 DEF Announce, ProcFields, Pumping
      <3>2. CASE Answer(p)
        BY <1>1, <3>2 DEF Answer, ProcFields
      <3>3. CASE Killed(p)
        BY <1>1, <3>3 DEF Killed, ProcFields
      <3> QED
        BY <1>5, <3>1, <3>2, <3>3 DEF Works
    <2>2. started' = started
      BY <1>5 DEF Works, Announce, Answer, Killed
    <2> QED
      BY <1>2, <2>1, <2>2
  <1>6. ASSUME NEW p \in ProcIds, Crash(p) PROVE Goal
    <2>1. ASSUME NEW q \in ProcIds
          PROVE  /\ proc'[q].thread = proc[q].thread
                 /\ proc'[q].running => proc[q].running
                 /\ proc'[q].alive = proc[q].alive \/ ~(proc'[q].running \/ proc'[q].alive)
                 /\ proc'[q].pump = proc[q].pump
      BY <1>1, <1>6 DEF Crash, ProcFields
    <2>2. started' = started
      BY <1>6 DEF Crash
    <2> QED
      BY <1>2, <2>1, <2>2
  <1>7. ASSUME NEW p \in ProcIds, PumpSession(p) \/ PumpDone(p) \/ PumpError(p) PROVE Goal
    <2>1. Shift(p) /\ started' = started
      BY <1>7 DEF PumpSession, PumpDone, PumpError
    <2>2. ASSUME NEW q \in ProcIds
          PROVE  /\ proc'[q].thread = proc[q].thread /\ proc'[q].running = proc[q].running
                 /\ proc'[q].alive = proc[q].alive /\ proc'[q].pump = proc[q].pump
      BY <1>1, <2>1 DEF Shift, ProcFields
    <2> QED
      BY <1>2, <2>1, <2>2
  <1>8. ASSUME NEW p \in ProcIds, PumpEnds(p)
        PROVE  Goal /\ \A q \in ProcIds \ {p} : proc'[q] = proc[q]
    <2>1. /\ ~proc[p].alive /\ proc' = [proc EXCEPT ![p].pump = "over"] /\ started' = started
      BY <1>8 DEF PumpEnds
    <2>2. /\ proc'[p].alive = proc[p].alive /\ proc'[p].running = proc[p].running
          /\ proc'[p].pump \notin Pumping
      BY <1>1, <2>1 DEF ProcFields, Pumping
    <2>3. \A q \in ProcIds \ {p} : proc'[q] = proc[q]
      BY <1>1, <2>1
    <2>4. PumpsOK'
      BY <2>1, <2>2, <2>3 DEF PumpsOK
    <2> QED
      BY <1>8, <2>3, <2>4
  <1>9. ASSUME RestartRunner PROVE Goal
    <2>1. ASSUME NEW q \in ProcIds
          PROVE  ~proc'[q].running /\ ~proc'[q].alive /\ proc'[q].pump \notin Pumping
      BY <1>9 DEF RestartRunner, NoProc, Pumping
    <2>2. PumpsOK'
      BY <2>1 DEF PumpsOK
    <2> QED
      BY <1>9, <2>2
  <1>10. ASSUME NEW m \in Messages, StartProc(m) PROVE Goal
    <2> DEFINE p == started + 1
    <2>1. /\ p \in ProcIds /\ started' = p /\ started \in Nat
          /\ proc' = [proc EXCEPT ![p] = Started(about[m], p)]
      BY <1>10, SessionsAssumption DEF StartProc, ProcIds, TableOK
    <2>2. /\ proc'[p].alive /\ proc'[p].pump \in Pumping
      BY <1>1, <2>1 DEF Started, NoProc, Pumping
    <2>3. \A q \in ProcIds \ {p} : proc'[q] = proc[q]
      BY <1>1, <2>1
    <2>4. \A q \in ProcIds : proc[q].pump \in Pumping => q # p
      BY <2>1 DEF PumpsOK
    <2>5. PumpsStay
      BY <2>3, <2>4 DEF PumpsStay
    <2>6. PumpsOK'
      <3>1. ASSUME NEW q \in ProcIds
            PROVE  /\ proc'[q].running => proc'[q].alive
                   /\ proc'[q].alive => proc'[q].pump \in Pumping
                   /\ proc'[q].pump \in Pumping => q <= started'
        <4> HIDE DEF p
        <4>1. CASE q = p
          BY <2>1, <2>2, <4>1 DEF ProcIds
        <4>2. CASE q # p
          <5>1. q \in Nat
            BY DEF ProcIds
          <5> QED
            BY <2>1, <2>3, <4>2, <5>1 DEF PumpsOK, p
        <4> QED
          BY <4>1, <4>2
      <3> QED
        BY <3>1 DEF PumpsOK
    <2> QED
      BY <2>5, <2>6
  <1>11. ASSUME NEW m \in Messages, SendInput(m) PROVE Goal
    <2>1. started' = started /\ (proc' = proc \/ proc' = Fed(sess[about[m]], m))
      BY <1>11 DEF SendInput
    <2>2. CASE proc' = Fed(sess[about[m]], m)
      <3>1. ASSUME NEW q \in ProcIds
            PROVE  /\ proc'[q].thread = proc[q].thread /\ proc'[q].running = proc[q].running
                   /\ proc'[q].alive = proc[q].alive /\ proc'[q].pump = proc[q].pump
        BY <1>1, <2>2 DEF Fed, ProcFields
      <3> QED
        BY <1>2, <2>1, <3>1
    <2> QED
      BY <1>4, <2>1, <2>2
  <1>12. ASSUME NEW m \in Messages, NEW u \in SThreads, Evict(m, u) PROVE Goal
    BY <1>3, <1>4, <1>12 DEF Evict
  <1>13. ASSUME NEW m \in Messages,
                \/ Lock(m) \/ Scan(m) \/ HasRoom(m) \/ NoRoomLeft(m) \/ StartFails(m) \/ SetTurn(m)
         PROVE  Goal
    BY <1>4, <1>13 DEF Lock, Scan, HasRoom, NoRoomLeft, StartFails, SetTurn
  <1>14. ASSUME SweepCloses PROVE Goal
    <2>1. started' = started /\ (proc' = proc \/ proc' = Closed(sess[sweep]))
      BY <1>14 DEF SweepCloses
    <2> HIDE DEF Goal
    <2>2. CASE proc' = proc
      BY <1>4, <2>1, <2>2
    <2>3. CASE proc' = Closed(sess[sweep])
      BY <1>3, <2>1, <2>3
    <2> QED
      BY <2>1, <2>2, <2>3
  <1>15. ASSUME \/ \E t \in SThreads : Receive(t) \/ SweepFinds(t)
                \/ Maintain \/ UNCHANGED sessionVars
         PROVE  Goal
    <2>1. UNCHANGED <<started, proc>>
      BY <1>15 DEF Receive, SweepFinds, Maintain, sessionVars
    <2> QED
      BY <1>4, <2>1
  <1>16. Goal
    <2> HIDE DEF Goal
    <2>1. ASSUME NEW m \in Messages, Handles(m) PROVE Goal
      BY <1>10, <1>11, <1>12, <1>13, <2>1 DEF Handles
    <2>2. ASSUME NEW p \in ProcIds, Works(p) \/ Pumps(p) \/ Crash(p) PROVE Goal
      BY <1>5, <1>6, <1>7, <1>8, <2>2 DEF Pumps
    <2> QED
      BY <1>9, <1>14, <1>15, <2>1, <2>2 DEF SessionsNext
  <1> HIDE DEF Goal
  <1>17. \A p \in ProcIds : PumpEnds(p) => \A q \in ProcIds \ {p} : proc'[q] = proc[q]
    BY <1>8
  <1> QED
    BY <1>16, <1>17 DEF Goal

(* What the goroutines that read a process have left when they report a turn: *)
(* the reported ones were current.                                            *)
LEMMA ReportersRead ==
  ASSUME JobsOK, ReportersOK, UNCHANGED <<got, about, job, current>>, PumpsStay,
         reported \subseteq reported',
         \A m \in reported' : m \in reported \/ \E t \in SThreads : m = current[t] /\ m # None
  PROVE  ReportersOK'
  <1>1. Unreported' \subseteq Unreported /\ Given' = Given
    BY DEF Unreported, Given
  <1>2. OneOpen'
    BY <1>1 DEF ReportersOK, OneOpen
  <1>3. SetOnce'
    BY <1>1 DEF ReportersOK, SetOnce
  <1>4. HasPump'
    <2>1. ASSUME NEW m \in Unreported', job'[m] = "over"
          PROVE  \E p \in ProcIds : proc'[p].thread = about'[m] /\ proc'[p].pump \in Pumping
      <3>1. PICK p \in ProcIds : proc[p].thread = about[m] /\ proc[p].pump \in Pumping
        BY <1>1, <2>1 DEF ReportersOK, HasPump
      <3> QED
        BY <3>1 DEF PumpsStay
    <2> QED
      BY <2>1 DEF HasPump, Pumping
  <1> QED
    BY <1>2, <1>3, <1>4 DEF ReportersOK

(* What a goroutine has left that moves on before its turn is set.           *)
LEMMA ReportersMove ==
  ASSUME JobsOK, ReportersOK, UNCHANGED <<got, about, current, reported>>, PumpsStay,
         NEW m \in Messages, NEW from, NEW to, Moves(m, from, to),
         from \notin Given, from # "none", to \notin Given, to # "none"
  PROVE  ReportersOK'
  <1>1. Unreported' = Unreported /\ Given' = Given
    BY DEF Unreported, Given
  <1>2. /\ DOMAIN job = Messages
        /\ \A n \in Messages : job'[n] = IF n = m THEN to ELSE job[n]
    BY DEF JobsOK, Moves
  <1>3. \A n \in Unreported : n \in Messages
    BY SessionsAssumption DEF Unreported, Messages, JobsOK
  <1>4. \A n \in reported : n \in Messages
    BY SessionsAssumption DEF Messages, JobsOK
  <1>5. \A t \in SThreads : current[t] # None => current[t] \in Messages
    BY SessionsAssumption DEF Messages, None, JobsOK
  <1>6. job[m] = from /\ "over" \in Given
    BY DEF Moves, Given
  <1>7. OneOpen'
    BY <1>1 DEF ReportersOK, OneOpen
  <1>8. SetOnce'
    <2>1. \A t \in SThreads : current[t] # None => job'[current[t]] \in Given
      BY <1>2, <1>5, <1>6 DEF ReportersOK, SetOnce
    <2>2. \A n \in reported : job'[n] \in Given
      BY <1>2, <1>4, <1>6 DEF ReportersOK, SetOnce
    <2>3. \A n \in Unreported : job'[n] # "none" /\ (job'[n] \in Given => current[about[n]] = n)
      BY <1>2, <1>3, <1>6 DEF ReportersOK, SetOnce
    <2> QED
      BY <1>1, <2>1, <2>2, <2>3 DEF SetOnce, None
  <1>9. HasPump'
    <2>1. ASSUME NEW n \in Unreported, job'[n] = "over"
          PROVE  \E p \in ProcIds : proc'[p].thread = about[n] /\ proc'[p].pump \in Pumping
      <3>1. job[n] = "over"
        BY <1>2, <1>3, <1>6, <2>1
      <3>2. PICK p \in ProcIds : proc[p].thread = about[n] /\ proc[p].pump \in Pumping
        BY <2>1, <3>1 DEF ReportersOK, HasPump
      <3> QED
        BY <3>2 DEF PumpsStay
    <2> QED
      BY <1>1, <2>1 DEF HasPump, Pumping
  <1> QED
    BY <1>7, <1>8, <1>9 DEF ReportersOK

(* What a goroutine has left that hands its input to the thread's process, or *)
(* reports that it could not.                                                 *)
LEMMA ReportersEnd ==
  ASSUME JobsOK, ReportersOK, UNCHANGED <<got, about, current>>, PumpsStay,
         NEW m \in Messages, NEW from, Moves(m, from, "over"), from # "none",
         \/ reported' = reported \cup {m}
         \/ /\ reported' = reported /\ from \in Given
            /\ \E p \in ProcIds : proc[p].thread = about[m] /\ proc[p].pump \in Pumping
  PROVE  ReportersOK'
  <1>1. Unreported' \subseteq Unreported /\ Given' = Given
    BY DEF Unreported, Given
  <1>2. /\ DOMAIN job = Messages
        /\ \A n \in Messages : job'[n] = IF n = m THEN "over" ELSE job[n]
    BY DEF JobsOK, Moves
  <1>3. \A n \in Unreported : n \in Messages
    BY SessionsAssumption DEF Unreported, Messages, JobsOK
  <1>4. \A n \in reported : n \in Messages
    BY SessionsAssumption DEF Messages, JobsOK
  <1>5. \A t \in SThreads : current[t] # None => current[t] \in Messages
    BY SessionsAssumption DEF Messages, None, JobsOK
  <1>6. job[m] = from /\ "over" \in Given
    BY DEF Moves, Given
  <1>7. OneOpen'
    BY <1>1 DEF ReportersOK, OneOpen
  <1>8. SetOnce'
    <2>1. \A t \in SThreads : current[t] # None => job'[current[t]] \in Given
      BY <1>2, <1>5, <1>6 DEF ReportersOK, SetOnce
    <2>2. \A n \in reported' : job'[n] \in Given
      BY <1>2, <1>4, <1>6 DEF ReportersOK, SetOnce
    <2>3. \A n \in Unreported' : job'[n] # "none" /\ (job'[n] \in Given => current[about[n]] = n)
      <3>1. ASSUME NEW n \in Unreported', n # m
            PROVE  job'[n] # "none" /\ (job'[n] \in Given => current[about[n]] = n)
        BY <1>1, <1>2, <1>3, <3>1 DEF ReportersOK, SetOnce
      <3>2. ASSUME m \in Unreported'
            PROVE  job'[m] # "none" /\ (job'[m] \in Given => current[about[m]] = m)
        <4>1. from \in Given
          BY <3>2 DEF Unreported
        <4> QED
          BY <1>1, <1>2, <1>6, <3>2, <4>1 DEF ReportersOK, SetOnce
      <3> QED
        BY <3>1, <3>2
    <2> QED
      BY <1>1, <2>1, <2>2, <2>3 DEF SetOnce, None
  <1>9. HasPump'
    <2>1. ASSUME NEW n \in Unreported', job'[n] = "over"
          PROVE  \E p \in ProcIds : proc'[p].thread = about[n] /\ proc'[p].pump \in Pumping
      <3>1. \E p \in ProcIds : proc[p].thread = about[n] /\ proc[p].pump \in Pumping
        <4>1. CASE n = m
          BY <2>1, <4>1 DEF Unreported
        <4>2. CASE n # m
          BY <1>1, <1>2, <1>3, <2>1, <4>2 DEF ReportersOK, HasPump
        <4> QED
          BY <4>1, <4>2
      <3> QED
        BY <3>1 DEF PumpsStay
    <2> QED
      BY <1>1, <2>1 DEF HasPump, Pumping
  <1> QED
    BY <1>7, <1>8, <1>9 DEF ReportersOK

(* What SetTurn has left: the turn that is not reported is the current one.  *)
LEMMA ReportersSet ==
  ASSUME JobsOK, ReportersOK, PumpsStay, NEW m \in Messages, SetTurn(m)
  PROVE  ReportersOK'
  <1> DEFINE t == about[m]
  <1>1. /\ got' = got /\ about' = about /\ reported' = reported /\ job[m] = "turn"
        /\ current' = [current EXCEPT ![t] = m]
    BY DEF SetTurn, Moves
  <1>2. Unreported' = Unreported /\ Given' = Given
    BY <1>1 DEF Unreported, Given
  <1>3. \A n \in Messages : job'[n] = IF n = m THEN "send" ELSE job[n]
    BY DEF JobsOK, SetTurn, Moves
  <1>4. m \in 1 .. got /\ t \in SThreads /\ m \in Messages
    BY <1>1, SessionsAssumption DEF JobsOK, Messages
  <1>5. m \in Unreported
    BY <1>1, <1>4 DEF ReportersOK, SetOnce, Unreported, Given
  <1>6. /\ \A n \in Unreported : n \in Messages
        /\ \A n \in reported : n \in Messages
        /\ \A u \in SThreads : current[u] # None => current[u] \in Messages
    BY SessionsAssumption DEF Unreported, Messages, None, JobsOK
  <1>7. \A u \in SThreads : current'[u] = IF u = t THEN m ELSE current[u]
    BY <1>1 DEF JobsOK
  <1> HIDE DEF t
  <1>8. OneOpen'
    BY <1>1, <1>2 DEF ReportersOK, OneOpen
  <1>9. SetOnce'
    <2>1. \A u \in SThreads : current'[u] # None => job'[current'[u]] \in Given
      <3>1. job'[m] \in Given
        BY <1>3, <1>4 DEF Given
      <3>2. ASSUME NEW u \in SThreads, u # t, current[u] # None
            PROVE  job'[current[u]] \in Given
        <4>1. job[current[u]] \in Given /\ current[u] \in Messages
          BY <1>6, <3>2 DEF ReportersOK, SetOnce
        <4> QED
          BY <1>3, <3>1, <4>1
      <3> QED
        BY <1>7, <3>1, <3>2
    <2>2. \A n \in reported : job'[n] \in Given
      BY <1>3, <1>6 DEF ReportersOK, SetOnce, Given
    <2>3. \A n \in Unreported : job'[n] # "none" /\ (job'[n] \in Given => current'[about[n]] = n)
      <3>1. ASSUME NEW n \in Unreported, n # m
            PROVE  job'[n] # "none" /\ (job'[n] \in Given => current'[about[n]] = n)
        <4>1. about[n] # t
          BY <1>5, <3>1 DEF ReportersOK, OneOpen, t
        <4>2. about[n] \in SThreads
          BY <1>6, <3>1 DEF JobsOK, Unreported
        <4>3. current'[about[n]] = current[about[n]] /\ job'[n] = job[n]
          BY <1>3, <1>6, <1>7, <3>1, <4>1, <4>2
        <4> QED
          BY <3>1, <4>3 DEF ReportersOK, SetOnce
      <3>2. job'[m] # "none" /\ (job'[m] \in Given => current'[about[m]] = m)
        BY <1>3, <1>4, <1>7 DEF t
      <3> QED
        BY <3>1, <3>2
    <2> QED
      BY <1>1, <1>2, <2>1, <2>2, <2>3 DEF SetOnce, None
  <1>10. HasPump'
    <2>1. ASSUME NEW n \in Unreported, job'[n] = "over"
          PROVE  \E p \in ProcIds : proc'[p].thread = about[n] /\ proc'[p].pump \in Pumping
      <3>1. job[n] = "over"
        BY <1>3, <1>6, <2>1
      <3>2. PICK p \in ProcIds : proc[p].thread = about[n] /\ proc[p].pump \in Pumping
        BY <2>1, <3>1 DEF ReportersOK, HasPump
      <3> QED
        BY <3>2 DEF PumpsStay
    <2> QED
      BY <1>1, <1>2, <2>1 DEF HasPump, Pumping
  <1> QED
    BY <1>8, <1>9, <1>10 DEF ReportersOK

(* What a message that arrives has left: its thread had no other open turn.  *)
LEMMA ReportersReceive ==
  ASSUME JobsOK, ReportersOK, PumpsStay, NEW t \in SThreads, Receive(t)
  PROVE  ReportersOK'
  <1> USE DEF jobs, threads, procs, saved, rest
  <1> DEFINE m == got + 1
  <1>1. /\ current' = current /\ reported' = reported /\ got' = m
        /\ about' = [about EXCEPT ![m] = t] /\ job' = [job EXCEPT ![m] = "lock"]
        /\ \A n \in 1 .. got : about[n] = t => n \in reported
    BY DEF Receive
  <1>2. got \in Nat /\ m \in Messages /\ reported \subseteq 1 .. got /\ m \notin 1 .. got
    BY SessionsAssumption DEF JobsOK, Receive, Messages
  <1>3. Unreported' = Unreported \cup {m} /\ Given' = Given /\ m \notin Unreported
    BY <1>1, <1>2 DEF Unreported, Given
  <1>4. /\ \A n \in Messages : job'[n] = IF n = m THEN "lock" ELSE job[n]
        /\ \A n \in Messages : about'[n] = IF n = m THEN t ELSE about[n]
    BY <1>1 DEF JobsOK
  <1>5. /\ \A n \in Unreported : n \in Messages /\ n # m
        /\ \A n \in reported : n \in Messages /\ n # m
        /\ \A u \in SThreads : current[u] # None => current[u] \in Messages /\ current[u] # m
    BY <1>2, SessionsAssumption DEF Unreported, Messages, None, JobsOK
  <1>6. \A n \in Unreported : about[n] # t
    BY <1>1 DEF Unreported
  <1> HIDE DEF m
  <1>7. \A n \in Unreported : job'[n] = job[n] /\ about'[n] = about[n]
    BY <1>4, <1>5
  <1>8. about'[m] = t /\ job'[m] = "lock"
    BY <1>2, <1>4
  <1>9. OneOpen'
    BY <1>3, <1>6, <1>7, <1>8 DEF ReportersOK, OneOpen
  <1>10. SetOnce'
    <2>1. \A u \in SThreads : current[u] # None => job'[current[u]] \in Given
      BY <1>4, <1>5 DEF ReportersOK, SetOnce
    <2>2. \A n \in reported : job'[n] \in Given
      BY <1>4, <1>5 DEF ReportersOK, SetOnce
    <2>3. \A n \in Unreported' : job'[n] # "none" /\ (job'[n] \in Given => current[about'[n]] = n)
      BY <1>3, <1>7, <1>8 DEF ReportersOK, SetOnce, Given
    <2> QED
      BY <1>1, <1>3, <2>1, <2>2, <2>3 DEF SetOnce, None
  <1>11. HasPump'
    <2>1. ASSUME NEW n \in Unreported', job'[n] = "over"
          PROVE  \E p \in ProcIds : proc'[p].thread = about'[n] /\ proc'[p].pump \in Pumping
      <3>1. n \in Unreported /\ job[n] = "over" /\ about'[n] = about[n]
        BY <1>3, <1>7, <1>8, <2>1
      <3>2. PICK p \in ProcIds : proc[p].thread = about[n] /\ proc[p].pump \in Pumping
        BY <3>1 DEF ReportersOK, HasPump
      <3> QED
        BY <3>1, <3>2 DEF PumpsStay
    <2> QED
      BY <2>1 DEF HasPump, Pumping
  <1> QED
    BY <1>9, <1>10, <1>11 DEF ReportersOK

(* Every step keeps a reporter for the turns that are not reported.          *)
LEMMA ReportersKept ==
  ASSUME JobsOK, TableOK, ResumesOK, TurnsReported, PumpsOK, ReportersOK,
         [SessionsNext]_sessionVars
  PROVE  ReportersOK'
  <1> USE DEF jobs, threads, procs, saved, rest
  <1>1. PumpsStay \/ RestartRunner \/ \E p \in ProcIds : PumpEnds(p)
    BY PumpsKept
  <1>2. CASE RestartRunner
    <2>1. Unreported' = {}
      BY <1>2 DEF RestartRunner, Unreported
    <2>2. OneOpen' /\ HasPump'
      BY <2>1 DEF OneOpen, HasPump
    <2>3. SetOnce'
      <3>1. \A t \in SThreads : current'[t] = None
        BY <1>2 DEF RestartRunner
      <3>2. \A m \in reported' : m \in Messages /\ m <= got
        <4>1. reported' = 1 .. got /\ got \in 0 .. MaxMessages
          BY <1>2 DEF RestartRunner, JobsOK
        <4> QED
          BY <4>1, SessionsAssumption DEF Messages
      <3>3. \A m \in reported' : job'[m] = "over"
        BY <1>2, <3>2 DEF RestartRunner
      <3>4. (\A t \in SThreads : current[t] # None => job[current[t]] \in Given)'
        BY <3>1 DEF None
      <3> QED
        BY <2>1, <3>3, <3>4 DEF SetOnce, Given
    <2> QED
      BY <2>2, <2>3 DEF ReportersOK
  <1>3. ASSUME NEW p \in ProcIds, PumpEnds(p) PROVE ReportersOK'
    <2> DEFINE t == proc[p].thread
    <2>1. UNCHANGED <<got, about, job, current>>
      BY <1>3 DEF PumpEnds
    <2>2. /\ reported \subseteq reported'
          /\ \A m \in reported' : m \in reported \/ \E u \in SThreads : m = current[u] /\ m # None
          /\ t \in busy => \A m \in Unreported : job[m] = "over" /\ about[m] = t => m \in reported'
      <3>1. CASE t \in busy
        <4>1. t \in SThreads /\ EndTurn(t)
          BY <1>3, <3>1 DEF PumpEnds, JobsOK
        <4>2. reported' = IF current[t] = None THEN reported ELSE reported \cup {current[t]}
          BY <4>1 DEF EndTurn
        <4>3. \A m \in Unreported : job[m] = "over" /\ about[m] = t => m = current[t] /\ m # None
          BY SessionsAssumption DEF ReportersOK, SetOnce, Given, Unreported, None, JobsOK
        <4> HIDE DEF t
        <4> QED
          BY <4>1, <4>2, <4>3
      <3>2. CASE t \notin busy
        BY <1>3, <3>2 DEF PumpEnds
      <3> QED
        BY <3>1, <3>2
    <2>3. \A m \in Unreported' : job[m] = "over" => about[m] # t
      <3>1. ASSUME NEW m \in Unreported', job[m] = "over", about[m] = t PROVE FALSE
        <4>1. m \in Unreported /\ m \notin reported'
          BY <2>1, <2>2, <3>1 DEF Unreported
        <4>2. t \in SThreads /\ current[t] = m /\ m # None
          BY <3>1, <4>1, SessionsAssumption
          DEF ReportersOK, SetOnce, Given, Unreported, JobsOK, Messages, None
        <4>3. t \in busy
          BY <4>1, <4>2 DEF TurnsReported, Unreported
        <4> QED
          BY <2>2, <3>1, <4>1, <4>3
      <3> QED
        BY <3>1
    <2>4. \A q \in ProcIds \ {p} : proc'[q] = proc[q]
      BY <1>3, PumpsKept
    <2> HIDE DEF t
    <2>5. Unreported' \subseteq Unreported
      BY <2>1, <2>2 DEF Unreported
    <2>6. HasPump'
      <3>1. ASSUME NEW m \in Unreported', job[m] = "over"
            PROVE  \E q \in ProcIds : proc'[q].thread = about[m] /\ proc'[q].pump \in Pumping
        <4>1. PICK q \in ProcIds : proc[q].thread = about[m] /\ proc[q].pump \in Pumping
          BY <2>5, <3>1 DEF ReportersOK, HasPump
        <4>2. q # p
          BY <2>3, <3>1, <4>1 DEF t
        <4> QED
          BY <2>4, <4>1, <4>2
      <3> QED
        BY <2>1, <3>1 DEF HasPump, Pumping
    <2>7. OneOpen'
      BY <2>1, <2>5 DEF ReportersOK, OneOpen
    <2>8. SetOnce'
      BY <2>1, <2>2, <2>5 DEF ReportersOK, SetOnce, Given, None
    <2> QED
      BY <2>6, <2>7, <2>8 DEF ReportersOK
  <1>4. ASSUME PumpsStay, UNCHANGED <<got, about, job, current, reported>> PROVE ReportersOK'
    BY <1>4, ReportersRead
  <1>5. ASSUME PumpsStay, NEW p \in ProcIds, PumpDone(p) \/ PumpError(p) PROVE ReportersOK'
    <2>1. UNCHANGED <<got, about, job, current>> /\ EndTurn(proc[p].thread)
      BY <1>5 DEF PumpDone, PumpError
    <2>2. proc[p].events # <<>>
      BY <1>5 DEF PumpDone, PumpError
    <2>3. proc[p].thread \in SThreads
      BY <2>2 DEF ResumesOK, EventsOK
    <2>4. /\ reported \subseteq reported'
          /\ \A m \in reported' : m \in reported \/ \E t \in SThreads : m = current[t] /\ m # None
      BY <2>1, <2>3 DEF EndTurn
    <2> QED
      BY <1>5, <2>1, <2>4, ReportersRead
  <1>6. ASSUME PumpsStay, NEW m \in Messages, Handles(m) PROVE ReportersOK'
    <2>1. CASE Lock(m)
      <3>1. PICK to \in {"turn", "scan"} : Moves(m, "lock", to)
        BY <2>1 DEF Lock
      <3> QED
        BY <1>6, <2>1, <3>1, ReportersMove DEF Lock, Given
    <2>2. CASE Scan(m)
      <3>1. PICK to \in {"start", "room"} : Moves(m, "scan", to)
        BY <2>2 DEF Scan
      <3> QED
        BY <1>6, <2>2, <3>1, ReportersMove DEF Scan, Given
    <2>3. CASE \E u \in SThreads : Evict(m, u)
      BY <1>4, <1>6, <2>3 DEF Evict
    <2>4. CASE HasRoom(m)
      BY <1>6, <2>4, ReportersMove DEF HasRoom, Given
    <2>5. CASE NoRoomLeft(m)
      BY <1>6, <2>5, ReportersEnd DEF NoRoomLeft, Fail
    <2>6. CASE StartProc(m)
      BY <1>6, <2>6, ReportersMove DEF StartProc, Given
    <2>7. CASE StartFails(m)
      BY <1>6, <2>7, ReportersEnd DEF StartFails, Fail
    <2>8. CASE SetTurn(m)
      BY <1>6, <2>8, ReportersSet
    <2>9. CASE SendInput(m)
      <3> DEFINE t == about[m]
      <3>1. UNCHANGED <<got, about, current>> /\ Moves(m, "send", "over")
        BY <2>9 DEF SendInput, Fail
      <3>2. CASE reported' = reported \cup {m}
        BY <1>6, <3>1, <3>2, ReportersEnd
      <3>3. CASE Live(t) /\ reported' = reported
        <4>1. job[m] = "send" /\ DOMAIN job = Messages
          BY <2>9 DEF SendInput, JobsOK
        <4>2. t \in SThreads
          BY <4>1 DEF JobsOK
        <4>3. sess[t] \in ProcIds
          BY <3>3, <4>2, SessionsAssumption DEF Live, TableOK, ProcIds, None
        <4>4. proc[sess[t]].thread = t /\ proc[sess[t]].pump \in Pumping
          BY <3>3, <4>2, <4>3 DEF Live, TableOK, PumpsOK
        <4>5. \E p \in ProcIds : proc[p].thread = about[m] /\ proc[p].pump \in Pumping
          BY <4>3, <4>4
        <4> QED
          BY <1>6, <3>1, <3>3, <4>5, ReportersEnd DEF Given
      <3>4. reported' = reported \cup {m} \/ (Live(t) /\ reported' = reported)
        BY <2>9 DEF SendInput, Fail
      <3> QED
        BY <3>2, <3>3, <3>4
    <2> QED
      BY <1>6, <2>1, <2>2, <2>3, <2>4, <2>5, <2>6, <2>7, <2>8, <2>9 DEF Handles
  <1>7. ASSUME PumpsStay, NEW t \in SThreads, Receive(t) PROVE ReportersOK'
    BY <1>7, ReportersReceive
  <1>8. ASSUME PumpsStay, NEW p \in ProcIds, Works(p) \/ PumpSession(p) \/ Crash(p)
        PROVE  ReportersOK'
    <2>1. UNCHANGED <<got, about, job, current, reported>>
      BY <1>8 DEF Works, Announce, Answer, Killed, PumpSession, Crash
    <2> QED
      BY <1>4, <1>8, <2>1
  <1>9. ASSUME PumpsStay,
               \/ \E t \in SThreads : SweepFinds(t)
               \/ SweepCloses \/ Maintain \/ UNCHANGED sessionVars
        PROVE  ReportersOK'
    <2>1. UNCHANGED <<got, about, job, current, reported>>
      BY <1>9 DEF SweepFinds, SweepCloses, Maintain, sessionVars
    <2> QED
      BY <1>4, <1>9, <2>1
  <1> QED
    BY <1>1, <1>2, <1>3, <1>5, <1>6, <1>7, <1>8, <1>9 DEF SessionsNext, Pumps

(* The processes' readers and the turns' reporters, in every reachable state. *)
LEMMA ReportersCorrect == SessionsSpec => [](SessionsInv /\ PumpsOK /\ ReportersOK)
  <1>1. SessionsInit => PumpsOK /\ ReportersOK
    <2> SUFFICES ASSUME SessionsInit PROVE PumpsOK /\ ReportersOK
      OBVIOUS
    <2>1. PumpsOK
      BY DEF SessionsInit, PumpsOK, NoProc, Pumping
    <2>2. Unreported = {} /\ reported = {} /\ \A t \in SThreads : current[t] = None
      BY DEF SessionsInit, Unreported
    <2> QED
      BY <2>1, <2>2 DEF ReportersOK, OneOpen, SetOnce, HasPump
  <1>2. SessionsInv /\ PumpsOK /\ ReportersOK /\ [SessionsNext]_sessionVars
          => PumpsOK' /\ ReportersOK'
    BY PumpsKept, ReportersKept DEF SessionsInv, SessionsOK
  <1> QED
    BY <1>1, <1>2, SessionsCorrect, PTL DEF SessionsSpec

(* A turn that is not reported has somebody left who can report it: its      *)
(* goroutine is in handleMessage, or it is the turn its thread is busy with  *)
(* and the events of a process of the thread are read still; that process    *)
(* has ended, was killed, or is the thread's session, which the sweep finds  *)
(* (handleMessage, pumpEvents, sweepIdle).                                   *)
THEOREM TurnHasReporter ==
  SessionsSpec =>
    [](\A m \in 1 .. got : m \notin reported =>
         \/ job[m] \notin {"none", "over"}
         \/ /\ current[about[m]] = m /\ about[m] \in busy
            /\ \E p \in ProcIds :
                 /\ proc[p].thread = about[m] /\ proc[p].pump \in {"read", "announced"}
                 /\ ~proc[p].running \/ sess[about[m]] = p)
  <1>1. ASSUME SessionsInv, PumpsOK, ReportersOK,
               NEW m \in 1 .. got, m \notin reported, job[m] \in {"none", "over"}
        PROVE  /\ current[about[m]] = m /\ about[m] \in busy
               /\ \E p \in ProcIds :
                    /\ proc[p].thread = about[m] /\ proc[p].pump \in {"read", "announced"}
                    /\ ~proc[p].running \/ sess[about[m]] = p
    <2>1. m \in Unreported /\ job[m] = "over"
      BY <1>1 DEF ReportersOK, SetOnce, Unreported
    <2>2. about[m] \in SThreads /\ m # None
      BY <1>1, SessionsAssumption DEF SessionsInv, SessionsOK, JobsOK, Messages, None
    <2>3. current[about[m]] = m
      BY <1>1, <2>1 DEF ReportersOK, SetOnce, Given
    <2>4. about[m] \in busy
      BY <1>1, <2>2, <2>3 DEF SessionsInv, TurnsReported
    <2>5. PICK p \in ProcIds : proc[p].thread = about[m] /\ proc[p].pump \in Pumping
      BY <1>1, <2>1 DEF ReportersOK, HasPump
    <2>6. ASSUME proc[p].running PROVE sess[about[m]] = p
      <3>1. PICK t \in SThreads : sess[t] = p
        BY <1>1, <2>6 DEF SessionsInv, SessionsOK, TableOK
      <3>2. p # None
        BY DEF ProcIds, None
      <3>3. proc[p].thread = t
        BY <1>1, <3>1, <3>2 DEF SessionsInv, SessionsOK, TableOK
      <3> QED
        BY <2>5, <3>1, <3>3
    <2> QED
      BY <2>3, <2>4, <2>5, <2>6 DEF Pumping
  <1> DEFINE Reporter ==
        \A m \in 1 .. got : m \notin reported =>
          \/ job[m] \notin {"none", "over"}
          \/ /\ current[about[m]] = m /\ about[m] \in busy
             /\ \E p \in ProcIds :
                  /\ proc[p].thread = about[m] /\ proc[p].pump \in {"read", "announced"}
                  /\ ~proc[p].running \/ sess[about[m]] = p
  <1>2. SessionsInv /\ PumpsOK /\ ReportersOK => Reporter
    BY <1>1
  <1> HIDE DEF Reporter
  <1>3. SessionsSpec => []Reporter
    BY <1>2, ReportersCorrect, PTL
  <1> QED
    BY <1>3 DEF Reporter

=============================================================================
