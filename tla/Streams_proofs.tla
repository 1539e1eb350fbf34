---------------------------- MODULE Streams_proofs ----------------------------
(***************************************************************************)
(* What the model said reaches the thread: no prose is dropped, the answer *)
(* is in one message, no empty bubble is opened, and a plan's failures are *)
(* seen, whatever the ticker, a prompt and Close do at once.               *)
(***************************************************************************)
EXTENDS Streams, SequenceTheorems, FiniteSetTheorems, TLAPS

-----------------------------------------------------------------------------
(* The inductive invariant                                                   *)

Known    == Statuses \cup {"none"}
Flushing == {"open", "take", "send", "render", "post"}
Places   == Flushing \cup {"idle", "wait", "finish", "closed"}
Updates  == UNION {[D -> [id : StepIds, status : Known]] : D \in SUBSET (1 .. MaxSteps)}
Flush    == [at : Places, final : BOOLEAN, native : Nat, ref : Nat,
             text : Seq(Nat), lists : BOOLEAN, steps : Updates]
Messages == [prose : Seq(Nat), lists : BOOLEAN, streams : BOOLEAN, open : BOOLEAN,
             slots : SUBSET StepIds, status : [StepIds -> Known],
             shown : [StepIds -> Known], overflow : Known]

BufferType ==
  /\ activity \in Activities \cup {"unset"}
  /\ said \in Nat /\ pending \in Seq(Nat) /\ body \in Seq(Nat) /\ sent \in Nat
  /\ synth \in Nat /\ demoted \in [Synths -> Seq(Nat)]
  /\ order \in Seq(StepIds) /\ step \in [StepIds -> Known]
OutletType ==
  /\ native \in Nat /\ fellBack \in BOOLEAN /\ ref \in Nat
  /\ slack \in Seq(Messages) /\ errors \in [stream : Nat, post : Nat]
LifeType ==
  /\ loop \in {"none", "running", "stopped", "over"} /\ closed \in BOOLEAN
  /\ flush \in [Flushers -> Flush]
StreamsTypeOK == BufferType /\ OutletType /\ LifeType

\* The steps made by the gateway are numbered and all of them are in order.
StepsOK ==
  /\ Len(order) <= MaxSteps /\ synth <= Len(order)
  /\ 1 .. synth \subseteq Range(order) /\ Range(order) \subseteq Calls \cup 1 .. synth
  /\ \A n \in Synths : n > synth => demoted[n] = <<>>
  /\ loop = "none" => said = 0 /\ pending = <<>> /\ body = <<>>

\* The reader is in Close, and makes the last flush, once the ticker is over.
LifeOK ==
  /\ flush["ticker"].at \in Flushing \cup {"idle"} /\ ~flush["ticker"].final
  /\ loop = "over" => flush["ticker"].at = "idle"
  /\ flush["reader"].final => flush["reader"].at \in Flushing
  /\ loop \in {"none", "running"} =>
       flush["reader"].at \in Flushing \cup {"idle"} /\ ~flush["reader"].final
  /\ loop = "stopped" => flush["reader"].at = "wait"
  /\ loop = "over" => flush["reader"].at \in {"wait", "finish", "closed"}
                      \/ flush["reader"].final
  /\ closed => flush["reader"].at = "closed"

\* Whoever uses a stream or a message uses one that was made.
Made(r)  == r = NoRef \/ r \in DOMAIN slack
OutletOK ==
  /\ Made(native) /\ Made(ref)
  /\ \A p \in Flushers :
       /\ flush[p].at \in {"take", "send"} => flush[p].native \in DOMAIN slack
       /\ Made(flush[p].ref)

\* Nothing of the answer is known, or sent, before the last flush; that one sends
\* all of it at once.
Settled  == flush["reader"].at \in {"finish", "closed"}
AnswerOK ==
  /\ ~flush["reader"].final /\ ~Settled =>
       body = <<>> /\ \A p \in Flushers : flush[p].text = <<>>
  /\ ~Settled => sent = 0 /\ \A i \in DOMAIN slack : slack[i].prose = <<>>
  /\ flush["reader"].at \in {"send", "post"} => flush["reader"].text = body
  /\ Settled /\ body # <<>> /\ errors.post = 0 =>
       \E i \in DOMAIN slack : slack[i].prose = body

BubbleOK ==
  /\ \A p \in Flushers : flush[p].at = "open" => order # <<>> \/ body # <<>>
  /\ NoBlankBubble

\* A plan within its cap; until an append fails Slack shows what the adapter keeps.
PlanOK(m, broken) ==
  /\ IsFiniteSet(m.slots) /\ Cardinality(m.slots) < PlanCap
  /\ ~broken => \A id \in StepIds :
       /\ m.shown[id] = m.status[id]
       /\ id \notin m.slots /\ m.status[id] = "failed" => m.overflow = "failed"
PlansOK == \A i \in DOMAIN slack : PlanOK(slack[i], errors.stream > 0)

StreamsInv == /\ StreamsTypeOK /\ StepsOK /\ ProseAccounted
              /\ LifeOK /\ OutletOK /\ AnswerOK /\ BubbleOK /\ PlansOK

-----------------------------------------------------------------------------
(* Updates and the plan of a stream                                          *)

(* An update names steps by places no further than the last step.            *)
LEMMA UpdateType ==
  ASSUME NEW u \in Updates
  PROVE  /\ DOMAIN u \subseteq 1 .. MaxSteps
         /\ \A i \in DOMAIN u : u[i].id \in StepIds /\ u[i].status \in Known
  <1>1. PICK D \in SUBSET (1 .. MaxSteps) : u \in [D -> [id : StepIds, status : Known]]
    BY DEF Updates
  <1> QED
    BY <1>1

(* What take makes of the buffer is an update, and so is no update.          *)
LEMMA TakenType ==
  ASSUME BufferType, StepsOK
  PROVE  /\ Taken.steps \in Updates /\ <<>> \in Updates
         /\ Taken.text \in Seq(Nat)
         /\ sent = 0 => Taken.text = body
  <1>0. MaxSteps \in Nat /\ Len(order) \in Nat /\ Len(body) \in Nat
    BY StreamsAssumption, LenProperties DEF BufferType
  <1>1. Unsent \in SUBSET (1 .. MaxSteps)
    <2>1. DOMAIN order = 1 .. Len(order)
      BY LenProperties DEF BufferType
    <2> QED
      BY <1>0, <2>1 DEF Unsent, StepsOK
  <1>2. Taken.steps \in [Unsent -> [id : StepIds, status : Known]]
    <2>1. \A i \in Unsent : order[i] \in StepIds /\ step[order[i]] \in Known
      BY ElementOfSeq, LenProperties DEF Unsent, BufferType
    <2> QED
      BY <2>1 DEF Taken, Step
  <1>3. Taken.steps \in Updates
    BY <1>1, <1>2 DEF Updates
  <1>4. <<>> \in Updates
    <2>1. <<>> \in [1 .. 0 -> [id : StepIds, status : Known]]
      BY EmptySeq, LenProperties
    <2>2. 1 .. 0 \in SUBSET (1 .. MaxSteps)
      OBVIOUS
    <2> QED
      BY <2>1, <2>2 DEF Updates
  <1>5. SubSeq(body, sent + 1, Len(body)) \in Seq(Nat)
    <2>1. \A i \in sent + 1 .. Len(body) : body[i] \in Nat
      BY <1>0, ElementOfSeq DEF BufferType
    <2> QED
      BY <1>0, <2>1, SubSeqProperties DEF BufferType
  <1>6. SubSeq(body, 1, Len(body)) = body
    BY SubSeqFull DEF BufferType
  <1> QED
    BY <1>3, <1>4, <1>5, <1>6 DEF Taken

(* A nonempty set of numbers up to a bound has a greatest one.               *)
LEMMA Greatest ==
  ASSUME NEW N \in Nat, NEW X \in SUBSET (1 .. N), X # {}
  PROVE  \E n \in X : \A i \in X : i <= n
  <1> DEFINE T == {k .. N : k \in X}
  <1>1. IsWellFoundedOn(StrictSubsetOrdering(1 .. N), FiniteSubsetsOf(1 .. N))
    BY FS_StrictSubsetOrderingWellFounded
  <1>2. FiniteSubsetsOf(1 .. N) = SUBSET (1 .. N)
    <2>1. IsFiniteSet(1 .. N)
      BY FS_Interval
    <2> QED
      BY <2>1, FS_FiniteSubsetsOfFinite
  <1>3. T \subseteq SUBSET (1 .. N) /\ T # {}
    <2>1. \A k \in X : k .. N \subseteq 1 .. N
      OBVIOUS
    <2> QED
      BY <2>1
  <1>4. PICK t \in T : \A y \in T : <<y, t>> \notin StrictSubsetOrdering(1 .. N)
    <2> DEFINE R == StrictSubsetOrdering(1 .. N)
               A == SUBSET (1 .. N)
    <2>1. IsWellFoundedOn(R, A) /\ T \subseteq A /\ T # {}
      BY <1>1, <1>2, <1>3
    <2> HIDE DEF T, R, A
    <2>2. \E t \in T : \A y \in T : <<y, t>> \notin R
      BY <2>1, WFMin
    <2> QED
      BY <2>2 DEF R
  <1>5. PICK n \in X : t = n .. N
    BY <1>4
  <1>6. ASSUME NEW i \in X, i > n PROVE FALSE
    <2>1. i .. N \in T /\ i .. N \subseteq n .. N /\ n \in n .. N /\ n \notin i .. N
      BY <1>6
    <2>2. <<i .. N, t>> \in StrictSubsetOrdering(1 .. N)
      BY <1>3, <1>4, <1>5, <2>1 DEF StrictSubsetOrdering
    <2> QED
      BY <1>4, <2>1, <2>2
  <1> QED
    BY <1>6

(* What chunksLocked keeps of a message, and what it does to its plan: the   *)
(* plan stays within its cap, and the overflow card goes on telling of a     *)
(* failure (Surface: taskChunkLocked).                                       *)
LEMMA ChunksKeeps ==
  ASSUME NEW m \in Messages, NEW u \in Updates
  PROVE  /\ Chunks(m, u) \in Messages
         /\ Chunks(m, u).prose = m.prose /\ Chunks(m, u).streams = m.streams
         /\ \A id \in StepIds : (\E i \in DOMAIN u : u[i].id = id)
                                \/ Chunks(m, u).status[id] = m.status[id]
         /\ IsFiniteSet(m.slots) /\ Cardinality(m.slots) < PlanCap =>
              IsFiniteSet(Chunks(m, u).slots) /\ Cardinality(Chunks(m, u).slots) < PlanCap
         /\ (\A id \in StepIds \ m.slots : m.status[id] = "failed" => m.overflow = "failed") =>
              \A id \in StepIds \ Chunks(m, u).slots :
                Chunks(m, u).status[id] = "failed" => Chunks(m, u).overflow = "failed"
  <1> DEFINE ids    == [i \in DOMAIN u |-> u[i].id]
             new(n) == {i \in DOMAIN u : i <= n /\ ids[i] \notin m.slots}
             fits   == {i \in DOMAIN u : Cardinality(m.slots) + Cardinality(new(i)) < PlanCap}
             slots  == m.slots \cup {ids[i] : i \in fits}
             status == [id \in StepIds |-> IF \E i \in DOMAIN u : ids[i] = id
                          THEN u[CHOOSE i \in DOMAIN u : ids[i] = id].status
                          ELSE m.status[id]]
             next   == [m EXCEPT !.slots = slots, !.status = status]
             c      == Chunks(m, u)
             told   == Range(ids) \subseteq slots
  <1>1. c = IF told THEN next ELSE [next EXCEPT !.overflow = Overflow(next)]
    BY DEF Chunks
  <1>2. slots \in SUBSET StepIds
    BY UpdateType DEF Messages
  <1>3. status \in [StepIds -> Known]
    <2>1. ASSUME NEW id \in StepIds PROVE status[id] \in Known
      <3>1. CASE \E i \in DOMAIN u : ids[i] = id
        BY <3>1, UpdateType
      <3>2. CASE ~\E i \in DOMAIN u : ids[i] = id
        BY <3>2 DEF Messages
      <3> QED
        BY <3>1, <3>2
    <2> QED
      BY <2>1
  <1>4. \A id \in StepIds : (\E i \in DOMAIN u : u[i].id = id) \/ status[id] = m.status[id]
    OBVIOUS
  <1> HIDE DEF status
  <1>5. /\ next \in Messages /\ next.slots = slots /\ next.status = status
        /\ next.overflow = m.overflow
        /\ next.prose = m.prose /\ next.streams = m.streams
    <2> HIDE DEF slots
    <2> QED
      BY <1>2, <1>3 DEF Messages
  <1> HIDE DEF next
  <1>6. /\ Overflow(next) \in Statuses
        /\ (\E id \in StepIds \ slots : status[id] = "failed") => Overflow(next) = "failed"
    <2> DEFINE over == {status[id] : id \in StepIds \ slots}
               Tells(s) == \/ s = "failed" /\ "failed" \in over
                           \/ s = "running" /\ "failed" \notin over /\ "running" \in over
                           \/ s = "done" /\ over \cap {"failed", "running"} = {}
    <2>1. Overflow(next) = CHOOSE s \in Statuses : Tells(s)
      BY <1>5 DEF Overflow
    <2>2. \E s \in Statuses : Tells(s)
      BY DEF Statuses
    <2>3. Overflow(next) \in Statuses /\ Tells(Overflow(next))
      BY <2>1, <2>2
    <2> QED
      BY <2>3
  <1>7. /\ c \in Messages /\ c.prose = m.prose /\ c.streams = m.streams
        /\ c.slots = slots /\ c.status = status
        /\ c.overflow = IF told THEN m.overflow ELSE Overflow(next)
    <2> HIDE DEF slots, told, c
    <2> QED
      BY <1>1, <1>5, <1>6 DEF Messages, Known
  <1> HIDE DEF c
  <1>8. ASSUME \A id \in StepIds \ m.slots : m.status[id] = "failed" => m.overflow = "failed",
               NEW id \in StepIds \ slots, status[id] = "failed"
        PROVE  c.overflow = "failed"
    <2>1. CASE told
      <3>1. ~\E i \in DOMAIN u : u[i].id = id
        BY <1>8, <2>1 DEF Range
      <3> QED
        BY <1>4, <1>7, <1>8, <2>1, <3>1
    <2>2. CASE ~told
      BY <1>6, <1>7, <1>8, <2>2
    <2> QED
      BY <2>1, <2>2
  <1>9. ASSUME IsFiniteSet(m.slots), Cardinality(m.slots) < PlanCap
        PROVE  IsFiniteSet(slots) /\ Cardinality(slots) < PlanCap
    <2>1. CASE fits = {}
      BY <1>9, <2>1
    <2>2. CASE fits # {}
      <3>1. PICK n \in fits : \A i \in fits : i <= n
        BY <2>2, UpdateType, Greatest, StreamsAssumption
      <3> DEFINE P == new(n)  I == {ids[i] : i \in new(n)}
      <3>2. IsFiniteSet(P)
        <4>1. IsFiniteSet(1 .. MaxSteps)
          BY FS_Interval, StreamsAssumption
        <4> QED
          BY <4>1, FS_Subset, UpdateType
      <3>3. IsFiniteSet(I) /\ Cardinality(I) <= Cardinality(P)
        <4> DEFINE g == [i \in P |-> ids[i]]
        <4>1. g \in Surjection(P, I)
          BY DEF Surjection
        <4> QED
          BY <3>2, <4>1, FS_Surjection
      <3>4. /\ IsFiniteSet(m.slots \cup I)
            /\ Cardinality(m.slots \cup I) <= Cardinality(m.slots) + Cardinality(P)
        <4>1. IsFiniteSet(m.slots \cap I)
          BY <3>3, FS_Subset
        <4>2. /\ Cardinality(m.slots) \in Nat /\ Cardinality(I) \in Nat
              /\ Cardinality(m.slots \cap I) \in Nat /\ Cardinality(P) \in Nat
          BY <1>9, <3>2, <3>3, <4>1, FS_CardinalityType
        <4>3. /\ IsFiniteSet(m.slots \cup I)
              /\ Cardinality(m.slots \cup I) =
                   Cardinality(m.slots) + Cardinality(I) - Cardinality(m.slots \cap I)
          BY <1>9, <3>3, FS_Union
        <4> HIDE DEF P, I
        <4> QED
          BY <3>3, <4>2, <4>3
      <3>5. Cardinality(m.slots) + Cardinality(P) < PlanCap
        BY <3>1
      <3>6. slots \in SUBSET (m.slots \cup I)
        BY <3>1
      <3> HIDE DEF P, I, slots
      <3>7. IsFiniteSet(slots) /\ Cardinality(slots) <= Cardinality(m.slots \cup I)
        BY <3>4, <3>6, FS_Subset
      <3>8. /\ Cardinality(slots) \in Nat /\ Cardinality(m.slots \cup I) \in Nat
            /\ Cardinality(m.slots) \in Nat /\ Cardinality(P) \in Nat
        BY <1>9, <3>2, <3>4, <3>7, FS_CardinalityType
      <3> QED
        BY <3>4, <3>5, <3>7, <3>8, StreamsAssumption
    <2> QED
      BY <2>1, <2>2
  <1> HIDE DEF slots, told
  <1> QED
    BY <1>4, <1>7, <1>8, <1>9 DEF c

-----------------------------------------------------------------------------
(* Prose and steps                                                           *)

\* Numbers of the model's pieces that wait, are the answer, or belong to a step.
Accounted == Range(pending) \cup Range(body) \cup UNION {Range(demoted[n]) : n \in Synths}

(* The range of a sequence of one, and of none.                              *)
LEMMA ShortRange == Range(<<>>) = {} /\ \A x : Range(<<x>>) = {x}
  BY DEF Range

(* Sequences of one and of none are sequences.                               *)
LEMMA ShortSeq ==
  ASSUME NEW S
  PROVE  /\ <<>> \in Seq(S) /\ Len(<<>>) = 0
         /\ \A x \in S : <<x>> \in Seq(S) /\ Len(<<x>>) = 1
  BY EmptySeq

(* Two sequences joined.                                                     *)
LEMMA JoinedSeq ==
  ASSUME NEW S, NEW s \in Seq(S), NEW t \in Seq(S)
  PROVE  /\ s \o t \in Seq(S) /\ Len(s \o t) = Len(s) + Len(t)
         /\ Range(s \o t) = Range(s) \cup Range(t)
  BY ConcatProperties, RangeConcatenation

(* A piece more at the end of two sequences joined.                          *)
LEMMA AppendJoined ==
  ASSUME NEW S, NEW s \in Seq(S), NEW t \in Seq(S), NEW x \in S
  PROVE  /\ s \o Append(t, x) = Append(s \o t, x) /\ s \o t \in Seq(S)
         /\ Range(Append(t, x)) = Range(t) \cup {x}
  <1> DEFINE u == <<x>>
  <1>1. u \in Seq(S) /\ Range(u) = {x}
    BY ShortSeq, ShortRange
  <1>2. s \o t \in Seq(S)
    BY JoinedSeq, Zenon
  <1>3. Append(t, x) = t \o u /\ Append(s \o t, x) = (s \o t) \o u
    BY <1>2, AppendIsConcat
  <1> HIDE DEF u
  <1>4. Range(t \o u) = Range(t) \cup Range(u)
    <2>1. u \in Seq(S) /\ t \in Seq(S)
      BY <1>1
    <2> QED
      BY <2>1, RangeConcatenation
  <1>5. (s \o t) \o u = s \o (t \o u)
    BY <1>1, ConcatAssociative, SMT
  <1> QED
    BY <1>1, <1>2, <1>3, <1>4, <1>5

(* A step that a frame notes keeps the buffer in order: the steps are        *)
(* numbered, and pending prose that becomes a step is not lost               *)
(* (demoteLocked and its callers).                                           *)
LEMMA NoteKeeps ==
  ASSUME BufferType, StepsOK, ProseAccounted, loop = "running",
         NEW id, NEW status \in Statuses, NEW demotes \in BOOLEAN, NEW n \in {0, 1},
         n = 0 => id \in Calls,
         n = 1 => demotes /\ id = synth + Len(Prose) + 1,
         ShowsSteps, Note(id, status, demotes, n)
  PROVE  BufferType' /\ StepsOK' /\ ProseAccounted' /\ order' # <<>>
  <1> DEFINE S     == StepIds \cup Nat
             front == IF demotes THEN Prose ELSE <<>>
             tail  == IF id \in Range(order) THEN <<>> ELSE <<id>>
             whole == demotes /\ pending # <<>>
  <1>0. /\ MaxSteps \in Nat /\ Calls \cap Nat = {}
        /\ Len(order) \in Nat /\ order \in Seq(S)
        /\ synth \in Nat /\ Nat \subseteq S /\ Calls \subseteq S
    BY StreamsAssumption, LenProperties, SeqMonotonic DEF BufferType, StepIds
  <1> HIDE DEF S
  <1>1. front = IF whole THEN <<synth + 1>> ELSE <<>>
    BY DEF Prose, Demotes
  <1> HIDE DEF front
  <1>2. /\ front \in Seq(S) /\ Len(front) = (IF whole THEN 1 ELSE 0)
        /\ Range(front) = (IF whole THEN {synth + 1} ELSE {})
    <2>1. CASE whole
      <3>1. front = <<synth + 1>> /\ synth + 1 \in S
        BY <1>0, <1>1, <2>1
      <3> QED
        BY <2>1, <3>1, ShortRange, ShortSeq
    <2>2. CASE ~whole
      BY <1>1, <2>2, ShortRange, ShortSeq
    <2> QED
      BY <2>1, <2>2
  <1>3. id \in S /\ (n = 1 => id = synth + Len(front) + 1)
    <2>1. demotes => front = Prose
      BY DEF front
    <2>2. n = 1 => id = synth + Len(front) + 1
      BY <2>1
    <2>3. Len(front) \in {0, 1}
      BY <1>2
    <2>4. n = 1 => id \in Nat
      BY <1>0, <2>2, <2>3
    <2> QED
      BY <1>0, <2>2, <2>4
  <1>4. n = 1 => id \notin Range(order)
    BY <1>0, <1>2, <1>3 DEF StepsOK
  <1>5. /\ tail \in Seq(S) /\ Len(tail) \in {0, 1} /\ (n = 1 => Len(tail) = 1)
        /\ Range(order) \cup Range(tail) = Range(order) \cup {id}
    BY <1>3, <1>4, ShortRange, ShortSeq
  <1>6. order' = order \o front \o tail /\ Len(order') <= MaxSteps
    BY DEF Note, Listed, front
  <1> HIDE DEF tail
  <1>7. /\ order' \in Seq(S)
        /\ Len(order') = Len(order) + Len(front) + Len(tail)
        /\ Range(order') = Range(order) \cup Range(front) \cup {id}
    <2> DEFINE first == order \o front
    <2>1. order \in Seq(S) /\ front \in Seq(S) /\ tail \in Seq(S)
      BY <1>0, <1>2, <1>5
    <2>2. /\ first \in Seq(S) /\ Len(first) = Len(order) + Len(front)
          /\ Range(first) = Range(order) \cup Range(front)
      BY <2>1, JoinedSeq, Zenon
    <2>3. order' = first \o tail
      BY <1>6
    <2> HIDE DEF first
    <2>4. first \in Seq(S) /\ tail \in Seq(S)
      BY <2>1, <2>2
    <2>5. /\ first \o tail \in Seq(S) /\ Len(first \o tail) = Len(first) + Len(tail)
          /\ Range(first \o tail) = Range(first) \cup Range(tail)
      <3> HIDE DEF first, front
      <3> QED
        BY <2>4, JoinedSeq
    <2>6. /\ order' \in Seq(S) /\ Len(order') = Len(first) + Len(tail)
          /\ Range(order') = Range(first) \cup Range(tail)
      BY <2>3, <2>5, Zenon
    <2> QED
      BY <1>5, <2>2, <2>6
  <1>8. /\ synth' = synth + Len(front) + n /\ synth' \in Nat
        /\ synth' <= Len(order') /\ synth' <= MaxSteps
    <2>1. synth' = synth + Len(front) + n
      BY DEF Note, front
    <2> QED
      BY <1>0, <1>2, <1>5, <1>6, <1>7, <2>1 DEF StepsOK
  <1>9. Range(order') \subseteq Calls \cup 1 .. synth' /\ 1 .. synth' \subseteq Range(order')
    BY <1>0, <1>2, <1>3, <1>7, <1>8 DEF StepsOK
  <1>10. order' \in Seq(StepIds) /\ order' # <<>>
    <2>1. Range(order') \subseteq StepIds
      BY <1>0, <1>8, <1>9 DEF StepIds, Synths
    <2>2. order' \in Seq(Range(order'))
      BY <1>7, SeqOfRange
    <2>3. Range(order') # Range(<<>>)
      BY <1>7, ShortRange
    <2> QED
      BY <2>1, <2>2, <2>3, SeqMonotonic
  <1>11. step' \in [StepIds -> Known]
    BY DEF Note, BufferType, Known, Statuses
  <1>12. /\ demoted' \in [Synths -> Seq(Nat)]
         /\ \A k \in Synths : demoted'[k] = IF whole /\ k = synth + 1 THEN pending ELSE demoted[k]
         /\ whole => synth + 1 \in Synths
    <2>1. demoted' = IF whole THEN [demoted EXCEPT ![synth + 1] = pending] ELSE demoted
      BY <1>1, ShortRange DEF Note, front
    <2>2. whole => synth + 1 \in Synths
      BY <1>0, <1>2, <1>8 DEF Synths
    <2> QED
      BY <2>1, <2>2 DEF BufferType
  <1>13. pending' \in Seq(Nat) /\ (demotes => pending' = <<>>) /\ (~demotes => pending' = pending)
    BY EmptySeq DEF Note, BufferType
  <1>14. UNCHANGED <<activity, said, body, sent, loop>> /\ activity # "hidden"
    BY DEF Note, ShowsSteps, life
  <1> HIDE DEF S
  <1>15. BufferType'
    <2>1. /\ activity' \in Activities \cup {"unset"} /\ said' \in Nat
          /\ body' \in Seq(Nat) /\ sent' \in Nat
      BY <1>14 DEF BufferType
    <2> QED
      BY <1>8, <1>10, <1>11, <1>12, <1>13, <2>1 DEF BufferType
  <1>16. \A k \in Synths : k > synth' => demoted'[k] = <<>>
    <2>1. synth' >= synth /\ (whole => synth' >= synth + 1)
      BY <1>0, <1>2, <1>8
    <2>2. \A k \in Synths : k > synth' => demoted'[k] = demoted[k] /\ k > synth
      BY <1>0, <1>8, <1>12, <2>1 DEF Synths
    <2> QED
      BY <2>2 DEF StepsOK
  <1>17. StepsOK'
    BY <1>6, <1>8, <1>9, <1>14, <1>16 DEF StepsOK
  <1>18. ProseAccounted'
    <2>1. ASSUME NEW k \in Synths, demoted'[k] # <<>> PROVE k \in Range(order')
      BY <1>0, <1>8, <1>9, <1>16, <2>1 DEF Synths
    <2>2. Accounted' = Accounted
      <3>1. CASE whole
        <4>1. demoted[synth + 1] = <<>>
          BY <1>0, <1>12, <3>1 DEF StepsOK
        <4>2. Range(pending') = {} /\ Range(demoted[synth + 1]) = {}
              /\ Range(demoted'[synth + 1]) = Range(pending)
          BY <1>12, <1>13, <3>1, <4>1, ShortRange
        <4>3. \A k \in Synths \ {synth + 1} : Range(demoted'[k]) = Range(demoted[k])
          BY <1>12
        <4> QED
          BY <1>12, <1>14, <3>1, <4>2, <4>3 DEF Accounted
      <3>2. CASE ~whole
        <4>1. pending' = pending
          BY <1>13, <3>2
        <4>2. \A k \in Synths : Range(demoted'[k]) = Range(demoted[k])
          BY <1>12, <3>2
        <4> QED
          BY <1>14, <4>1, <4>2 DEF Accounted
      <3> QED
        BY <3>1, <3>2
    <2> QED
      BY <1>14, <2>1, <2>2 DEF ProseAccounted, Accounted
  <1> QED
    BY <1>10, <1>15, <1>17, <1>18

(* The prose of a turn with hidden activity is in order as it comes          *)
(* (AppendText).                                                             *)
LEMMA HiddenAppend ==
  ASSUME NEW c \in Seq(Nat), NEW k \in Nat, c = [i \in 1 .. k |-> i]
  PROVE  Append(c, k + 1) = [i \in 1 .. (k + 1) |-> i]
  <1> DEFINE d == [i \in 1 .. (k + 1) |-> i]
  <1>1. DOMAIN c = 1 .. k /\ Len(c) = k /\ \A i \in 1 .. k : c[i] = i
    <2>1. DOMAIN c = 1 .. k /\ \A i \in 1 .. k : c[i] = i
      OBVIOUS
    <2>2. Len(c) \in Nat /\ DOMAIN c = 1 .. Len(c)
      BY LenProperties
    <2> QED
      BY <2>1, <2>2
  <1>2. /\ Append(c, k + 1) \in Seq(Nat) /\ Len(Append(c, k + 1)) = k + 1
        /\ \A i \in 1 .. (k + 1) : Append(c, k + 1)[i] = i
    <2>1. /\ Append(c, k + 1) \in Seq(Nat) /\ Len(Append(c, k + 1)) = k + 1
          /\ \A i \in 1 .. k : Append(c, k + 1)[i] = i
          /\ Append(c, k + 1)[k + 1] = k + 1
      BY <1>1, AppendProperties
    <2> QED
      BY <2>1
  <1>3. DOMAIN Append(c, k + 1) = 1 .. (k + 1)
    BY <1>2, LenProperties
  <1>4. Append(c, k + 1) = d
    <2>1. Append(c, k + 1) = [i \in 1 .. (k + 1) |-> Append(c, k + 1)[i]]
      BY <1>2, <1>3, LenProperties
    <2> QED
      BY <1>2, <2>1
  <1> QED
    BY <1>4

\* The steps of the connection's goroutine, but for prompts and Close.
Frames == \/ StreamFor \/ AppendText \/ Thought
          \/ \E id \in Calls : StartStep(id) \/ NoteStep(id)
          \/ \E id \in Calls, status \in {"done", "failed"} : EndStep(id, status)

(* A frame leaves the prose accounted for and the surface alone.             *)
LEMMA FramesKeep ==
  ASSUME BufferType, StepsOK, ProseAccounted, Frames
  PROVE  /\ BufferType' /\ StepsOK' /\ ProseAccounted'
         /\ UNCHANGED <<body, sent, native, fellBack, ref, closed, flush, slack, errors>>
         /\ loop \in {"none", "running"} /\ loop' = "running"
         /\ order # <<>> => order' # <<>>
  <1>1. CASE StreamFor
    <2>1. /\ UNCHANGED <<said, pending, body, sent, synth, demoted, order, step, outlet,
                         closed, flush, slackIO>>
          /\ loop = "none" /\ loop' = "running" /\ activity' \in Activities
      BY <1>1 DEF StreamFor
    <2>2. said = 0 /\ pending = <<>> /\ body = <<>>
      BY <2>1 DEF StepsOK
    <2>3. body \o pending = [i \in 1 .. 0 |-> i]
      <3>1. <<>> \o <<>> = <<>>
        BY ConcatEmptySeq, EmptySeq
      <3>2. <<>> = [i \in 1 .. 0 |-> i]
        OBVIOUS
      <3> QED
        BY <2>2, <3>1, <3>2
    <2>4. BufferType'
      BY <2>1 DEF BufferType
    <2>5. StepsOK'
      BY <2>1 DEF StepsOK
    <2>6. ProseAccounted'
      BY <2>1, <2>2, <2>3 DEF ProseAccounted
    <2> QED
      BY <2>1, <2>4, <2>5, <2>6 DEF outlet, slackIO
  <1>2. CASE AppendText
    <2>1. /\ UNCHANGED <<activity, body, sent, synth, demoted, order, step, native,
                         fellBack, ref, loop, closed, flush, slack, errors>>
          /\ loop = "running" /\ said' = said + 1 /\ pending' = Append(pending, said + 1)
      BY <1>2 DEF AppendText, Reads, life, slackIO
    <2>2. said + 1 \in Nat /\ pending \in Seq(Nat)
      BY DEF BufferType
    <2>3. pending' \in Seq(Nat) /\ Range(Append(pending, said + 1)) = Range(pending) \cup {said + 1}
      BY <2>1, <2>2, AppendProperties, AppendJoined
    <2>4. Range(pending') = Range(pending) \cup {said + 1}
      BY <2>1, <2>3
    <2>5. BufferType'
      BY <2>1, <2>2, <2>3 DEF BufferType
    <2>6. StepsOK'
      BY <2>1 DEF StepsOK
    <2>7. Accounted' = Accounted \cup {said + 1}
      BY <2>1, <2>4 DEF Accounted
    <2>8. 1 .. said' = 1 .. said \cup {said + 1}
      BY <2>1 DEF BufferType
    <2>9. activity = "hidden" => body \o pending' = [i \in 1 .. said' |-> i]
      <3>1. body \o Append(pending, said + 1) = Append(body \o pending, said + 1)
            /\ body \o pending \in Seq(Nat)
        BY <2>2, AppendJoined DEF BufferType
      <3>2. activity = "hidden" => body \o pending = [i \in 1 .. said |-> i]
        BY DEF ProseAccounted
      <3>3. said \in Nat
        BY DEF BufferType
      <3> DEFINE c == body \o pending
      <3> HIDE DEF c
      <3>4. c = [i \in 1 .. said |-> i] => Append(c, said + 1) = [i \in 1 .. (said + 1) |-> i]
        BY <3>1, <3>3, HiddenAppend DEF c
      <3> QED
        BY <2>1, <3>1, <3>2, <3>4 DEF c
    <2>10. ProseAccounted'
      BY <2>1, <2>7, <2>8, <2>9 DEF ProseAccounted, Accounted
    <2> QED
      BY <2>1, <2>5, <2>6, <2>10
  <1>3. ASSUME NEW id, NEW status \in Statuses, NEW demotes \in BOOLEAN, NEW n \in {0, 1},
               n = 0 => id \in Calls,
               n = 1 => demotes /\ id = synth + Len(Prose) + 1,
               Reads, ShowsSteps, Note(id, status, demotes, n)
        PROVE  /\ BufferType' /\ StepsOK' /\ ProseAccounted' /\ order' # <<>>
               /\ UNCHANGED <<body, sent, native, fellBack, ref, loop, closed, flush, slack, errors>>
               /\ loop = "running"
    <2>1. loop = "running"
      BY <1>3 DEF Reads
    <2>2. UNCHANGED <<body, sent, native, fellBack, ref, loop, closed, flush, slack, errors>>
      BY <1>3 DEF Note, life, slackIO
    <2> QED
      BY <1>3, <2>1, <2>2, NoteKeeps
  <1>4. CASE Thought
    <2>1. Reads /\ ShowsSteps /\ Note(synth + Len(Prose) + 1, "done", TRUE, 1)
      BY <1>4 DEF Thought
    <2>2. "done" \in Statuses /\ 0 # 1
      BY DEF Statuses
    <2>3. /\ BufferType' /\ StepsOK' /\ ProseAccounted' /\ order' # <<>>
          /\ UNCHANGED <<body, sent, native, fellBack, ref, loop, closed, flush, slack, errors>>
          /\ loop = "running"
      BY <1>3, <2>1, <2>2, Zenon
    <2> QED
      BY <2>3
  <1>5. CASE \E id \in Calls : StartStep(id) \/ NoteStep(id)
    <2>1. PICK id \in Calls, status \in {"running", "failed"} :
            Reads /\ ShowsSteps /\ Note(id, status, TRUE, 0)
      BY <1>5 DEF StartStep, NoteStep
    <2>2. status \in Statuses /\ 0 # 1
      BY DEF Statuses
    <2>3. /\ BufferType' /\ StepsOK' /\ ProseAccounted' /\ order' # <<>>
          /\ UNCHANGED <<body, sent, native, fellBack, ref, loop, closed, flush, slack, errors>>
          /\ loop = "running"
      BY <1>3, <2>1, <2>2, Zenon
    <2> QED
      BY <2>3
  <1>6. CASE \E id \in Calls, status \in {"done", "failed"} : EndStep(id, status)
    <2>1. PICK id \in Calls, status \in {"done", "failed"} :
            Reads /\ ShowsSteps /\ Note(id, status, FALSE, 0)
      BY <1>6 DEF EndStep
    <2>2. status \in Statuses /\ 0 # 1
      BY DEF Statuses
    <2>3. /\ BufferType' /\ StepsOK' /\ ProseAccounted' /\ order' # <<>>
          /\ UNCHANGED <<body, sent, native, fellBack, ref, loop, closed, flush, slack, errors>>
          /\ loop = "running"
      BY <1>3, <2>1, <2>2, Zenon
    <2> QED
      BY <2>3
  <1> QED
    BY <1>1, <1>2, <1>4, <1>5, <1>6 DEF Frames

\* The buffer's prose and steps stay as they are.
Quiet == /\ UNCHANGED <<activity, said, pending, body, synth, demoted, order, step>>
         /\ sent' \in Nat /\ (loop' = "none" => loop = "none")

(* A step that leaves prose and steps alone keeps what is known of them.     *)
LEMMA QuietKeeps ==
  ASSUME BufferType, StepsOK, ProseAccounted, Quiet
  PROVE  BufferType' /\ StepsOK' /\ ProseAccounted'
  <1>1. UNCHANGED <<activity, said, pending, body, synth, demoted, order, step>>
    BY DEF Quiet
  <1>2. BufferType'
    BY <1>1 DEF Quiet, BufferType
  <1>3. StepsOK'
    BY <1>1 DEF Quiet, StepsOK
  <1>4. ProseAccounted'
    BY <1>1 DEF ProseAccounted
  <1> QED
    BY <1>2, <1>3, <1>4

\* What a flush of p starts with: nothing to do, or the first call or section.
Begun(p, final) ==
  \/ flush'[p] = EndFlush(p, final) /\ native = NoRef /\ NothingToSend(body')
  \/ /\ flush'[p].at \in {"render", "open", "take"}
     /\ flush'[p].at = "open" => native = NoRef /\ ~NothingToSend(body')
     /\ flush'[p].at = "take" => native # NoRef
     /\ flush'[p] = [IdleFlush EXCEPT !.at = flush'[p].at, !.final = final, !.native = native]

(* What the first section of a flush does.                                   *)
LEMMA CollectStep ==
  ASSUME BufferType, LifeType, NEW p \in Flushers, NEW final \in BOOLEAN, Collect(p, final)
  PROVE  /\ body' = (IF final THEN body \o pending ELSE body)
         /\ pending' = (IF final THEN <<>> ELSE pending)
         /\ UNCHANGED <<activity, said, sent, synth, demoted, order, step, changed,
                        native, fellBack, ref, loop, closed, slack, errors>>
         /\ Begun(p, final) /\ flush' = [flush EXCEPT ![p] = flush'[p]]
  <1> DEFINE b    == IF final THEN body \o pending ELSE body
             at   == IF fellBack THEN "render" ELSE IF native = NoRef THEN "open" ELSE "take"
             next == IF native = NoRef /\ NothingToSend(b) THEN EndFlush(p, final)
                     ELSE [IdleFlush EXCEPT !.at = at, !.final = final, !.native = native]
  <1>1. /\ body' = b /\ pending' = (IF final THEN <<>> ELSE pending)
        /\ flush' = [flush EXCEPT ![p] = next]
        /\ UNCHANGED <<activity, said, sent, synth, demoted, order, step, changed,
                       native, fellBack, ref, loop, closed, slack, errors>>
    BY DEF Collect, outlet, life, slackIO
  <1> HIDE DEF b
  <1>2. flush'[p] = next /\ flush' = [flush EXCEPT ![p] = flush'[p]]
    <2> HIDE DEF next
    <2> QED
      BY <1>1 DEF LifeType
  <1>3. Begun(p, final)
    <2>1. CASE native = NoRef /\ NothingToSend(b)
      <3>1. flush'[p] = EndFlush(p, final) /\ native = NoRef /\ NothingToSend(body')
        BY <1>1, <1>2, <2>1
      <3> QED
        BY <3>1 DEF Begun
    <2>2. CASE ~(native = NoRef /\ NothingToSend(b))
      <3>1. flush'[p] = [IdleFlush EXCEPT !.at = at, !.final = final, !.native = native]
        BY <1>2, <2>2
      <3>2. flush'[p].at = at
        BY <3>1 DEF IdleFlush
      <3>3. native = NoRef => ~NothingToSend(body')
        BY <1>1, <2>2
      <3> QED
        BY <3>1, <3>2, <3>3 DEF Begun
    <2> QED
      BY <2>1, <2>2
  <1> QED
    BY <1>1, <1>2, <1>3 DEF b

(* The last flush moves the pending prose to the answer.                     *)
LEMMA CollectKeeps ==
  ASSUME BufferType, StepsOK, ProseAccounted, LifeType, loop # "none",
         NEW p \in Flushers, NEW final \in BOOLEAN, Collect(p, final)
  PROVE  BufferType' /\ StepsOK' /\ ProseAccounted'
  <1>1. /\ body' = (IF final THEN body \o pending ELSE body)
        /\ pending' = (IF final THEN <<>> ELSE pending)
        /\ UNCHANGED <<activity, said, sent, synth, demoted, order, step, loop>>
    BY CollectStep
  <1>2. CASE ~final
    <2>1. Quiet
      BY <1>1, <1>2 DEF Quiet, BufferType
    <2> QED
      BY <2>1, QuietKeeps
  <1>3. CASE final
    <2>1. /\ body \o pending \in Seq(Nat)
          /\ Range(body \o pending) = Range(body) \cup Range(pending)
      BY JoinedSeq DEF BufferType
    <2> DEFINE b == body \o pending
    <2>2. b \o <<>> = b
      BY <2>1, ConcatEmptySeq
    <2> HIDE DEF b
    <2>3. body' = b /\ pending' = <<>>
      BY <1>1, <1>3 DEF b
    <2>4. BufferType'
      BY <1>1, <2>1, <2>3, EmptySeq DEF BufferType, b
    <2>5. StepsOK'
      BY <1>1 DEF StepsOK
    <2>6. Accounted' = Accounted
      BY <1>1, <2>1, <2>3, ShortRange DEF Accounted, b
    <2>7. ProseAccounted'
      BY <1>1, <2>2, <2>3, <2>6 DEF ProseAccounted, Accounted, b
    <2> QED
      BY <2>4, <2>5, <2>7
  <1> QED
    BY <1>2, <1>3

-----------------------------------------------------------------------------
(* Flushes                                                                   *)

\* A flusher moves on to v; the other one stays where it is.
Moves(p, v) == /\ flush'[p] = v /\ DOMAIN flush' = Flushers
               /\ \A q \in Flushers \ {p} : flush'[q] = flush[q]

(* A flush that is over is well formed, and so is none.                      *)
LEMMA EndFlushType ==
  ASSUME BufferType, StepsOK, NEW p, NEW final \in BOOLEAN
  PROVE  /\ IdleFlush \in Flush /\ EndFlush(p, final) \in Flush
         /\ EndFlush(p, final).at = (IF final THEN "finish" ELSE "idle")
         /\ ~EndFlush(p, final).final /\ EndFlush(p, final).text = <<>>
         /\ EndFlush(p, final).ref = NoRef
  <1>1. <<>> \in Updates /\ <<>> \in Seq(Nat)
    BY TakenType, EmptySeq
  <1> QED
    BY <1>1 DEF IdleFlush, EndFlush, Flush, Places, Flushing, NoRef

(* A flusher's step moves that flusher.                                      *)
LEMMA FlushMoves ==
  ASSUME LifeType, NEW p \in Flushers, NEW v \in Flush, flush' = [flush EXCEPT ![p] = v]
  PROVE  Moves(p, v) /\ flush' \in [Flushers -> Flush]
  BY DEF LifeType, Moves

(* A flush goes on, or ends, within the order of Close: the ticker's part is *)
(* over before the last flush begins (stream.Close).                         *)
LEMMA LifeKept ==
  ASSUME LifeOK, NEW p \in Flushers, NEW v, Moves(p, v), UNCHANGED <<loop, closed>>,
         flush[p].at \in Flushing,
         \/ v.at \in Flushing /\ v.final = flush[p].final
         \/ v.at = (IF flush[p].final THEN "finish" ELSE "idle") /\ ~v.final
  PROVE  LifeOK'
  <1>1. CASE p = "ticker"
    <2>1. flush'["ticker"] = v /\ flush'["reader"] = flush["reader"]
      BY <1>1 DEF Moves, Flushers
    <2>2. loop # "over" /\ ~v.final /\ v.at \in Flushing \cup {"idle"}
      BY <1>1 DEF LifeOK, Flushing
    <2> QED
      BY <2>1, <2>2 DEF LifeOK
  <1>2. CASE p = "reader"
    <2>1. flush'["reader"] = v /\ flush'["ticker"] = flush["ticker"]
      BY <1>2 DEF Moves, Flushers
    <2>2. ~closed /\ (flush["reader"].final => loop \notin {"none", "running", "stopped"})
          /\ loop # "stopped"
      BY <1>2 DEF LifeOK, Flushing
    <2>3. loop \in {"none", "running"} => ~flush["reader"].final
      BY DEF LifeOK
    <2>4. loop = "over" => flush["reader"].final
      BY <1>2 DEF LifeOK, Flushing
    <2>5. \/ v.at \in Flushing /\ v.final = flush["reader"].final
          \/ v.at = (IF flush["reader"].final THEN "finish" ELSE "idle") /\ ~v.final
      BY <1>2
    <2> QED
      BY <2>1, <2>2, <2>3, <2>4, <2>5 DEF LifeOK, Flushing
  <1> QED
    BY <1>1, <1>2 DEF Flushers

\* Nothing of the answer has been sent.
Silent == sent = 0 /\ \A i \in DOMAIN slack : slack[i].prose = <<>>

(* Before the last flush there is no answer yet.                             *)
LEMMA NoAnswerYet ==
  ASSUME LifeType, LifeOK, AnswerOK, NEW p \in Flushers, flush[p].at \in Flushing
  PROVE  /\ Silent /\ ~Settled
         /\ flush[p].final => p = "reader"
         /\ ~flush[p].final => ~flush["reader"].final /\ body = <<>>
                               /\ \A q \in Flushers : flush[q].text = <<>>
         /\ flush[p].final /\ flush[p].at \in {"send", "post"} => flush[p].text = body
  <1>1. CASE p = "ticker"
    <2>1. loop # "over" /\ ~flush["ticker"].final
      BY <1>1 DEF LifeOK, Flushing
    <2>4. ~flush["reader"].final /\ ~Settled
      BY <2>1 DEF LifeOK, LifeType, Settled, Flushing
    <2> QED
      BY <1>1, <2>1, <2>4 DEF AnswerOK, Silent
  <1>2. CASE p = "reader"
    <2>1. ~Settled
      BY <1>2 DEF Settled, Flushing
    <2> QED
      BY <1>2, <2>1 DEF AnswerOK, Silent
  <1> QED
    BY <1>1, <1>2 DEF Flushers

(* A flush that goes on sends nothing of the answer, but has copied all of   *)
(* it when it is about to.                                                   *)
LEMMA AnswerGoesOn ==
  ASSUME LifeType, LifeOK, AnswerOK, NEW p \in Flushers, flush[p].at \in Flushing,
         NEW v, Moves(p, v), UNCHANGED body,
         v.at \in Flushing, v.final = flush[p].final,
         ~v.final => v.text = <<>>,
         v.at \in {"send", "post"} => v.text = body,
         Silent'
  PROVE  AnswerOK'
  <1>1. /\ ~Settled /\ (flush[p].final => p = "reader")
        /\ ~flush[p].final => ~flush["reader"].final /\ body = <<>>
                               /\ \A q \in Flushers : flush[q].text = <<>>
    BY NoAnswerYet
  <1>2. "reader" \in Flushers
    BY DEF Flushers
  <1>3. ~Settled'
    BY <1>1, <1>2 DEF Settled, Moves, Flushing
  <1>4. CASE flush[p].final
    <2>1. flush'["reader"] = v
      BY <1>1, <1>4 DEF Moves
    <2> QED
      BY <1>3, <1>4, <2>1 DEF AnswerOK, Silent
  <1>5. CASE ~flush[p].final
    <2>1. /\ ~flush'["reader"].final /\ body' = <<>>
          /\ \A q \in Flushers : flush'[q].text = <<>>
      BY <1>1, <1>2, <1>5 DEF Moves
    <2> QED
      BY <1>2, <1>3, <2>1 DEF AnswerOK, Silent
  <1> QED
    BY <1>4, <1>5

(* A flush that ends: unless it was the last one nothing of the answer went  *)
(* out; if it was, all of it did, or posting failed.                         *)
LEMMA AnswerEnds ==
  ASSUME LifeType, LifeOK, AnswerOK, NEW p \in Flushers, flush[p].at \in Flushing,
         Moves(p, EndFlush(p, flush[p].final)), UNCHANGED body, flush[p].final \in BOOLEAN,
         ~flush[p].final => Silent',
         flush[p].final /\ body # <<>> /\ errors'.post = 0 =>
           \E i \in DOMAIN slack' : slack'[i].prose = body
  PROVE  AnswerOK'
  <1>1. /\ ~Settled /\ (flush[p].final => p = "reader")
        /\ ~flush[p].final => ~flush["reader"].final /\ body = <<>>
                               /\ \A q \in Flushers : flush[q].text = <<>>
    BY NoAnswerYet
  <1>2. "reader" \in Flushers
    BY DEF Flushers
  <1> DEFINE v == EndFlush(p, flush[p].final)
  <1>3. v.at = (IF flush[p].final THEN "finish" ELSE "idle") /\ ~v.final /\ v.text = <<>>
    BY DEF EndFlush, IdleFlush
  <1>4. flush'[p] = v /\ \A q \in Flushers \ {p} : flush'[q] = flush[q]
    BY DEF Moves
  <1> HIDE DEF v
  <1>5. CASE flush[p].final
    <2>1. flush'["reader"] = v /\ v.at = "finish"
      BY <1>1, <1>3, <1>4, <1>5
    <2>2. Settled'
      BY <2>1 DEF Settled
    <2> QED
      BY <1>5, <2>1, <2>2 DEF AnswerOK
  <1>6. CASE ~flush[p].final
    <2>1. /\ ~flush'["reader"].final /\ body' = <<>>
          /\ \A q \in Flushers : flush'[q].text = <<>>
      BY <1>1, <1>2, <1>3, <1>4, <1>6
    <2>2. \/ ~Settled' /\ flush'["reader"].at = "idle"
          \/ ~Settled' /\ flush'["reader"] = flush["reader"]
      <3>1. flush'["reader"] = v \/ flush'["reader"] = flush["reader"]
        BY <1>2, <1>4
      <3>2. v.at = "idle"
        BY <1>3, <1>6
      <3> QED
        BY <1>1, <3>1, <3>2 DEF Settled
    <2> QED
      BY <1>2, <1>6, <2>1, <2>2 DEF AnswerOK, Silent
  <1> QED
    BY <1>5, <1>6

(* Messages are added at the end, and edited in place.                       *)
LEMMA SlackGrows ==
  ASSUME slack \in Seq(Messages), NEW m \in Messages, slack' = Append(slack, m)
  PROVE  /\ slack' \in Seq(Messages)
         /\ Len(slack) + 1 \in DOMAIN slack' /\ Len(slack) + 1 \in Nat \ {NoRef}
         /\ slack'[Len(slack) + 1] = m
         /\ DOMAIN slack \subseteq DOMAIN slack'
         /\ \A i \in DOMAIN slack : slack'[i] = slack[i]
         /\ \A i \in DOMAIN slack' : i \in DOMAIN slack \/ slack'[i] = m
  <1>1. /\ Append(slack, m) \in Seq(Messages) /\ Len(Append(slack, m)) = Len(slack) + 1
        /\ \A i \in 1 .. Len(slack) : Append(slack, m)[i] = slack[i]
        /\ Append(slack, m)[Len(slack) + 1] = m
    BY AppendProperties
  <1>2. Len(slack) \in Nat /\ DOMAIN slack = 1 .. Len(slack)
    BY LenProperties
  <1>3. DOMAIN slack' = 1 .. (Len(slack) + 1) /\ slack' \in Seq(Messages)
    BY <1>1, LenProperties
  <1> QED
    BY <1>1, <1>2, <1>3 DEF NoRef

(* See SlackGrows.                                                           *)
LEMMA SlackEdited ==
  ASSUME slack \in Seq(Messages), NEW n \in DOMAIN slack, NEW m \in Messages,
         slack' = [slack EXCEPT ![n] = m]
  PROVE  /\ slack' \in Seq(Messages) /\ DOMAIN slack' = DOMAIN slack
         /\ slack'[n] = m /\ \A i \in DOMAIN slack \ {n} : slack'[i] = slack[i]
  <1>1. DOMAIN slack = 1 .. Len(slack)
    BY LenProperties
  <1>2. slack' \in Seq(Messages)
    BY <1>1, ExceptSeq
  <1> QED
    BY <1>2

(* A new message has an empty plan.                                          *)
LEMMA NewMessage ==
  ASSUME NEW prose \in Seq(Nat), NEW lists \in BOOLEAN, NEW streams \in BOOLEAN, NEW broken
  PROVE  /\ Message(prose, lists, streams) \in Messages
         /\ Message(prose, lists, streams).prose = prose
         /\ Message(prose, lists, streams).streams = streams
         /\ PlanOK(Message(prose, lists, streams), broken)
  <1>1. Message(prose, lists, streams) \in Messages
    BY DEF Message, Messages, Known
  <1>2. IsFiniteSet({}) /\ Cardinality({}) = 0
    BY FS_EmptySet
  <1>3. PlanOK(Message(prose, lists, streams), broken)
    BY <1>2, StreamsAssumption DEF PlanOK, Message
  <1> QED
    BY <1>1, <1>3 DEF Message

(* Streams and messages that were made stay, and no other is used.           *)
LEMMA OutletKept ==
  ASSUME OutletOK, NEW p \in Flushers, NEW v, Moves(p, v), DOMAIN slack \subseteq DOMAIN slack',
         native' \in {native, NoRef} \cup DOMAIN slack',
         ref' \in {ref, NoRef} \cup DOMAIN slack',
         v.at \in {"take", "send"} => v.native \in DOMAIN slack',
         v.ref = NoRef \/ v.ref \in DOMAIN slack'
  PROVE  OutletOK'
  <1>1. Made(native)' /\ Made(ref)'
    BY DEF OutletOK, Made
  <1>2. ASSUME NEW q \in Flushers
        PROVE  /\ flush'[q].at \in {"take", "send"} => flush'[q].native \in DOMAIN slack'
               /\ flush'[q].ref = NoRef \/ flush'[q].ref \in DOMAIN slack'
    <2>1. CASE q = p
      BY <2>1 DEF Moves
    <2>2. CASE q # p
      BY <2>2 DEF Moves, OutletOK, Made
    <2> QED
      BY <2>1, <2>2
  <1> QED
    BY <1>1, <1>2 DEF OutletOK, Made

(* A stream is opened only where a flush found something to show.            *)
LEMMA BubbleKept ==
  ASSUME BubbleOK, NEW p \in Flushers, NEW v, Moves(p, v), UNCHANGED <<order, body>>,
         v.at = "open" => flush[p].at = "open",
         \A i \in DOMAIN slack' : \/ i \in DOMAIN slack /\ slack'[i].streams = slack[i].streams
                                  \/ slack'[i].streams => flush[p].at = "open"
  PROVE  BubbleOK'
  <1>1. \A q \in Flushers : flush'[q].at = "open" => order # <<>> \/ body # <<>>
    BY DEF Moves, BubbleOK
  <1>2. ASSUME NEW i \in DOMAIN slack', slack'[i].streams PROVE order # <<>> \/ body # <<>>
    BY <1>2 DEF BubbleOK, NoBlankBubble
  <1> QED
    BY <1>1, <1>2 DEF BubbleOK, NoBlankBubble

(* A plan that no step touches stays as good as it was.                      *)
LEMMA PlansKept ==
  ASSUME PlansOK, errors.stream > 0 => errors'.stream > 0,
         \A i \in DOMAIN slack' : \/ /\ i \in DOMAIN slack /\ slack'[i].slots = slack[i].slots
                                     /\ slack'[i].status = slack[i].status
                                     /\ slack'[i].shown = slack[i].shown
                                     /\ slack'[i].overflow = slack[i].overflow
                                  \/ PlanOK(slack'[i], errors'.stream > 0)
  PROVE  PlansOK'
  <1>1. ASSUME NEW i \in DOMAIN slack' PROVE PlanOK(slack'[i], errors'.stream > 0)
    BY DEF PlansOK, PlanOK
  <1> QED
    BY <1>1 DEF PlansOK

(* A flush leaves the prose and the steps alone, and the order of Close.     *)
LEMMA FlushStep ==
  ASSUME StreamsInv, NEW p \in Flushers, NEW v \in Flush, flush' = [flush EXCEPT ![p] = v],
         flush[p].at \in Flushing,
         UNCHANGED <<activity, said, pending, body, synth, demoted, order, step, loop, closed>>,
         sent' \in Nat,
         \/ v.at \in Flushing /\ v.final = flush[p].final
         \/ v.at = (IF flush[p].final THEN "finish" ELSE "idle") /\ ~v.final
  PROVE  /\ BufferType' /\ LifeType' /\ StepsOK' /\ ProseAccounted' /\ LifeOK'
         /\ Moves(p, v)
  <1>1. Quiet
    BY DEF Quiet
  <1>2. BufferType' /\ StepsOK' /\ ProseAccounted'
    BY <1>1, QuietKeeps DEF StreamsInv, StreamsTypeOK
  <1>3. Moves(p, v) /\ flush' \in [Flushers -> Flush]
    BY FlushMoves DEF StreamsInv, StreamsTypeOK
  <1>4. LifeType'
    BY <1>3 DEF StreamsInv, StreamsTypeOK, LifeType
  <1>5. LifeOK'
    BY <1>3, LifeKept DEF StreamsInv
  <1> QED
    BY <1>2, <1>3, <1>4, <1>5

(* What is known of one flusher.                                             *)
LEMMA FlusherFacts ==
  ASSUME StreamsInv, NEW p \in Flushers
  PROVE  /\ BufferType /\ StepsOK /\ LifeType /\ OutletType
         /\ LifeOK /\ OutletOK /\ AnswerOK /\ BubbleOK /\ PlansOK
         /\ flush[p] \in Flush /\ flush[p].final \in BOOLEAN
         /\ sent \in Nat /\ body \in Seq(Nat)
         /\ slack \in Seq(Messages) /\ errors.stream \in Nat /\ errors.post \in Nat
         /\ native \in Nat /\ ref \in Nat
  BY DEF StreamsInv, StreamsTypeOK, BufferType, OutletType, LifeType, Flush

(* Opening a stream (stream.open).                                           *)
LEMMA OpenStreamKeeps ==
  ASSUME StreamsInv, NEW p \in Flushers, OpenStream(p)
  PROVE  StreamsInv'
  <1> DEFINE n == Len(slack) + 1
             m == Message(<<>>, FALSE, TRUE)
             v == [flush[p] EXCEPT !.at = "take", !.native = n]
  <1>1. /\ flush[p].at = "open" /\ slack' = Append(slack, m)
        /\ native' = n /\ ref' = n /\ fellBack' = fellBack /\ errors' = errors
        /\ flush' = [flush EXCEPT ![p].at = "take", ![p].native = n]
        /\ UNCHANGED <<activity, said, pending, body, sent, synth, demoted, order, step, loop, closed>>
    BY DEF OpenStream, buffer, life
  <1>2. /\ m \in Messages /\ m.prose = <<>> /\ PlanOK(m, errors.stream > 0)
    BY NewMessage, EmptySeq
  <1> HIDE DEF m
  <1>3. /\ slack' \in Seq(Messages) /\ n \in DOMAIN slack' /\ n \in Nat
        /\ DOMAIN slack \subseteq DOMAIN slack' /\ \A i \in DOMAIN slack : slack'[i] = slack[i]
        /\ \A i \in DOMAIN slack' : i \in DOMAIN slack \/ slack'[i] = m
    BY <1>1, <1>2, SlackGrows, FlusherFacts
  <1> HIDE DEF n
  <1>4. /\ v \in Flush /\ v.at = "take" /\ v.final = flush[p].final /\ v.native = n
        /\ v.text = flush[p].text /\ v.ref = flush[p].ref
        /\ flush' = [flush EXCEPT ![p] = v]
    BY <1>1, <1>3, FlusherFacts DEF Flush, Places, Flushing, LifeType
  <1> HIDE DEF v
  <1>5. /\ BufferType' /\ LifeType' /\ StepsOK' /\ ProseAccounted' /\ LifeOK'
        /\ Moves(p, v)
    <2>1. flush[p].at \in Flushing /\ v.at \in Flushing /\ sent' \in Nat
      BY <1>1, <1>4, FlusherFacts DEF Flushing
    <2> QED
      BY <1>1, <1>4, <2>1, FlushStep
  <1>6. OutletType'
    BY <1>1, <1>3, FlusherFacts DEF OutletType
  <1>7. OutletOK'
    <2>1. flush[p].ref = NoRef \/ flush[p].ref \in DOMAIN slack
      BY FlusherFacts DEF OutletOK, Made
    <2>2. OutletOK
      BY FlusherFacts
    <2> QED
      BY <1>1, <1>3, <1>4, <1>5, <2>1, <2>2, OutletKept
  <1>8. AnswerOK'
    <2>1. Silent /\ (~flush[p].final => flush[p].text = <<>>)
      BY <1>1, NoAnswerYet, FlusherFacts DEF Flushing
    <2>2. Silent'
      BY <1>1, <1>2, <1>3, <2>1 DEF Silent
    <2>3. flush[p].at \in Flushing /\ v.at \in Flushing
      BY <1>1, <1>4 DEF Flushing
    <2>4. LifeType /\ LifeOK /\ AnswerOK
      BY FlusherFacts
    <2>5. /\ ~v.final => v.text = <<>>
          /\ v.at \in {"send", "post"} => v.text = body
      BY <1>4, <2>1
    <2> QED
      BY <1>1, <1>4, <1>5, <2>2, <2>3, <2>4, <2>5, AnswerGoesOn
  <1>9. BubbleOK'
    BY <1>1, <1>3, <1>4, <1>5, BubbleKept, FlusherFacts
  <1>10. PlansOK'
    BY <1>1, <1>2, <1>3, PlansKept, FlusherFacts
  <1> QED
    BY <1>5, <1>6, <1>7, <1>8, <1>9, <1>10 DEF StreamsInv, StreamsTypeOK

(* A section of a flush that does not reach the surface, or is refused.      *)
LEMMA LocalStep ==
  ASSUME StreamsInv, NEW p \in Flushers, NEW v \in Flush, flush' = [flush EXCEPT ![p] = v],
         flush[p].at \in Flushing,
         UNCHANGED <<activity, said, pending, body, sent, synth, demoted, order, step, loop, closed>>,
         UNCHANGED <<native, ref, slack>>, fellBack' \in BOOLEAN,
         errors' \in [stream : Nat, post : Nat], errors'.stream = errors.stream,
         v.at # "open", v.ref = NoRef \/ v.ref \in DOMAIN slack,
         v.at \in {"take", "send"} => v.native \in DOMAIN slack,
         \/ /\ v.at \in Flushing /\ v.final = flush[p].final
            /\ ~v.final => v.text = <<>>
            /\ v.at \in {"send", "post"} => v.text = body
         \/ /\ v = EndFlush(p, flush[p].final)
            /\ flush[p].final => body = <<>> \/ errors'.post > 0
  PROVE  StreamsInv'
  <1>1. /\ BufferType /\ StepsOK /\ LifeType /\ OutletType
        /\ LifeOK /\ OutletOK /\ AnswerOK /\ BubbleOK /\ PlansOK
        /\ flush[p].final \in BOOLEAN /\ sent' \in Nat
        /\ errors.post \in Nat /\ errors'.post \in Nat
    BY FlusherFacts
  <1>2. /\ BufferType' /\ LifeType' /\ StepsOK' /\ ProseAccounted' /\ LifeOK'
        /\ Moves(p, v)
    <2>1. v = EndFlush(p, flush[p].final) =>
            v.at = (IF flush[p].final THEN "finish" ELSE "idle") /\ ~v.final
      BY <1>1, EndFlushType
    <2> QED
      BY <1>1, <2>1, FlushStep
  <1>3. OutletType'
    BY <1>1 DEF OutletType
  <1>4. OutletOK'
    BY <1>1, <1>2, OutletKept
  <1>5. Silent'
    BY <1>1, NoAnswerYet DEF Silent
  <1>6. AnswerOK'
    <2>1. CASE /\ v.at \in Flushing /\ v.final = flush[p].final
               /\ ~v.final => v.text = <<>>
               /\ v.at \in {"send", "post"} => v.text = body
      BY <1>1, <1>2, <1>5, <2>1, AnswerGoesOn
    <2>2. CASE /\ v = EndFlush(p, flush[p].final)
               /\ flush[p].final => body = <<>> \/ errors'.post > 0
      <3>1. Moves(p, EndFlush(p, flush[p].final))
        BY <1>2, <2>2
      <3>2. ~(flush[p].final /\ body # <<>> /\ errors'.post = 0)
        BY <1>1, <2>2
      <3> QED
        BY <1>1, <1>5, <3>1, <3>2, AnswerEnds
    <2> QED
      BY <2>1, <2>2
  <1>7. BubbleOK'
    BY <1>1, <1>2, BubbleKept
  <1>8. PlansOK'
    BY <1>1, PlansKept
  <1> QED
    BY <1>2, <1>3, <1>4, <1>6, <1>7, <1>8 DEF StreamsInv, StreamsTypeOK

(* A stream that the surface refuses (Surface.OpenStream).                   *)
LEMMA StreamRefusedKeeps ==
  ASSUME StreamsInv, NEW p \in Flushers, StreamRefused(p)
  PROVE  StreamsInv'
  <1> DEFINE v == [flush[p] EXCEPT !.at = "render"]
  <1>1. /\ flush[p].at = "open" /\ fellBack' = TRUE
        /\ UNCHANGED <<native, ref, slack, errors>>
        /\ flush' = [flush EXCEPT ![p].at = "render"]
        /\ UNCHANGED <<activity, said, pending, body, sent, synth, demoted, order, step, loop, closed>>
    BY DEF StreamRefused, Goto, buffer, life, slackIO
  <1>2. /\ v \in Flush /\ v.at = "render" /\ v.final = flush[p].final
        /\ v.text = flush[p].text /\ v.ref = flush[p].ref
        /\ flush' = [flush EXCEPT ![p] = v]
    BY <1>1, FlusherFacts DEF Flush, Places, Flushing, LifeType
  <1> HIDE DEF v
  <1>3. flush[p].at \in Flushing /\ v.at \in Flushing
    BY <1>1, <1>2 DEF Flushing
  <1>4. ~flush[p].final => flush[p].text = <<>>
    BY <1>3, NoAnswerYet, FlusherFacts
  <1>5. flush[p].ref = NoRef \/ flush[p].ref \in DOMAIN slack
    BY FlusherFacts DEF OutletOK, Made
  <1>6. errors' \in [stream : Nat, post : Nat]
    BY <1>1, FlusherFacts DEF OutletType
  <1> QED
    BY <1>1, <1>2, <1>3, <1>4, <1>5, <1>6, LocalStep

(* Taking what is not sent yet (pushNative).                                 *)
LEMMA TakeKeeps ==
  ASSUME StreamsInv, NEW p \in Flushers, Take(p)
  PROVE  StreamsInv'
  <1> DEFINE ends == ~flush[p].final /\ Taken.text = <<>> /\ Taken.steps = <<>>
             v == IF ends THEN EndFlush(p, FALSE)
                  ELSE [flush[p] EXCEPT !.at = "send", !.text = Taken.text, !.steps = Taken.steps]
  <1>1. /\ flush[p].at = "take" /\ flush' = [flush EXCEPT ![p] = v]
        /\ UNCHANGED <<native, fellBack, ref, slack, errors>>
        /\ UNCHANGED <<activity, said, pending, body, sent, synth, demoted, order, step, loop, closed>>
    BY DEF Take, buffer, life, slackIO
  <1>2. Taken.steps \in Updates /\ Taken.text \in Seq(Nat) /\ (sent = 0 => Taken.text = body)
    BY TakenType, FlusherFacts
  <1>3. /\ flush[p].at \in Flushing /\ Silent /\ (~flush[p].final => body = <<>>)
    BY <1>1, NoAnswerYet, FlusherFacts DEF Flushing
  <1>4. flush[p].ref = NoRef \/ flush[p].ref \in DOMAIN slack
    BY FlusherFacts DEF OutletOK, Made
  <1>5. flush[p].native \in DOMAIN slack
    BY <1>1, FlusherFacts DEF OutletOK
  <1>6. errors' \in [stream : Nat, post : Nat] /\ fellBack' \in BOOLEAN
    BY <1>1, FlusherFacts DEF OutletType
  <1>7. CASE ends
    <2>1. v = EndFlush(p, FALSE) /\ ~flush[p].final
      BY <1>7
    <2>2. flush[p].final = FALSE
      BY <2>1, FlusherFacts
    <2> HIDE DEF v
    <2>3. /\ v = EndFlush(p, flush[p].final) /\ v \in Flush /\ v.at = "idle" /\ v.ref = NoRef
      BY <2>1, <2>2, EndFlushType, FlusherFacts
    <2> QED
      BY <1>1, <1>3, <1>6, <2>1, <2>3, LocalStep
  <1>8. CASE ~ends
    <2>1. v = [flush[p] EXCEPT !.at = "send", !.text = Taken.text, !.steps = Taken.steps]
      BY <1>8
    <2>2. /\ v \in Flush /\ v.at = "send" /\ v.final = flush[p].final
          /\ v.text = Taken.text /\ v.ref = flush[p].ref /\ v.native = flush[p].native
      BY <1>2, <2>1, FlusherFacts DEF Flush, Places, Flushing
    <2> HIDE DEF v
    <2>3. v.text = body /\ (~v.final => v.text = <<>>) /\ v.at \in Flushing
      BY <1>2, <1>3, <2>2 DEF Silent, Flushing
    <2> QED
      BY <1>1, <1>3, <1>4, <1>5, <1>6, <2>2, <2>3, LocalStep
  <1> QED
    BY <1>7, <1>8

(* Rendering the whole message (pushEdit).                                   *)
LEMMA RenderKeeps ==
  ASSUME StreamsInv, NEW p \in Flushers, Render(p)
  PROVE  StreamsInv'
  <1> DEFINE lists == ListsSteps(flush[p].final)
             v == IF body = <<>> /\ ~lists THEN EndFlush(p, flush[p].final)
                  ELSE [IdleFlush EXCEPT !.at = "post", !.final = flush[p].final, !.text = body,
                                         !.lists = lists, !.ref = ref]
  <1>1. /\ flush[p].at = "render" /\ flush' = [flush EXCEPT ![p] = v]
        /\ UNCHANGED <<native, fellBack, ref, slack, errors>>
        /\ UNCHANGED <<activity, said, pending, body, sent, synth, demoted, order, step, loop, closed>>
    BY DEF Render, buffer, life, slackIO
  <1>2. flush[p].at \in Flushing /\ (~flush[p].final => body = <<>>)
    BY <1>1, NoAnswerYet, FlusherFacts DEF Flushing
  <1>3. ref = NoRef \/ ref \in DOMAIN slack
    BY FlusherFacts DEF OutletOK, Made
  <1>4. errors' \in [stream : Nat, post : Nat] /\ fellBack' \in BOOLEAN
    BY <1>1, FlusherFacts DEF OutletType
  <1>5. CASE body = <<>> /\ ~lists
    <2>1. v = EndFlush(p, flush[p].final)
      BY <1>5
    <2> HIDE DEF v
    <2>2. v \in Flush /\ v.at \in {"finish", "idle"} /\ v.ref = NoRef
      BY <2>1, EndFlushType, FlusherFacts
    <2> QED
      BY <1>1, <1>2, <1>4, <1>5, <2>1, <2>2, LocalStep
  <1>6. CASE ~(body = <<>> /\ ~lists)
    <2>1. v = [IdleFlush EXCEPT !.at = "post", !.final = flush[p].final, !.text = body,
                                !.lists = lists, !.ref = ref]
      BY <1>6
    <2>2. lists \in BOOLEAN
      BY DEF ListsSteps
    <2>3. IdleFlush \in Flush
      BY EndFlushType, FlusherFacts
    <2> HIDE DEF lists
    <2>4. /\ v \in Flush /\ v.at = "post" /\ v.final = flush[p].final
          /\ v.text = body /\ v.ref = ref
      BY <2>1, <2>2, <2>3, FlusherFacts DEF Flush, Places, Flushing, IdleFlush
    <2> HIDE DEF v
    <2>5. v.at \in Flushing
      BY <2>4 DEF Flushing
    <2> QED
      BY <1>1, <1>2, <1>3, <1>4, <2>4, <2>5, LocalStep
  <1> QED
    BY <1>5, <1>6

(* A message that the surface does not take (pushEdit).                      *)
LEMMA PostFailsKeeps ==
  ASSUME StreamsInv, NEW p \in Flushers, PostFails(p)
  PROVE  StreamsInv'
  <1> DEFINE v == EndFlush(p, flush[p].final)
  <1>1. /\ flush[p].at = "post" /\ flush' = [flush EXCEPT ![p] = v]
        /\ UNCHANGED <<native, fellBack, ref, slack>>
        /\ errors' = [errors EXCEPT !["post"] = @ + 1]
        /\ UNCHANGED <<activity, said, pending, body, sent, synth, demoted, order, step, loop, closed>>
    BY DEF PostFails, Fails, Returns, buffer, life
  <1>2. flush[p].at \in Flushing
    BY <1>1 DEF Flushing
  <1>3. /\ errors' \in [stream : Nat, post : Nat] /\ fellBack' \in BOOLEAN
        /\ errors'.stream = errors.stream /\ errors'.post > 0
    BY <1>1, FlusherFacts DEF OutletType
  <1>4. v \in Flush /\ v.at \in {"finish", "idle"} /\ v.ref = NoRef
    BY EndFlushType, FlusherFacts
  <1> QED
    BY <1>1, <1>2, <1>3, <1>4, LocalStep

(* An increment that gets through (pushNative, stream.Append).               *)
LEMMA SendKeeps ==
  ASSUME StreamsInv, NEW p \in Flushers, Send(p)
  PROVE  StreamsInv'
  <1> DEFINE f == flush[p]
             n == f.native
             c == Chunks(slack[n], f.steps)
             shown == [id \in StepIds |-> IF \E i \in DOMAIN f.steps : f.steps[i].id = id
                                          THEN c.status[id] ELSE c.shown[id]]
             m == [c EXCEPT !.prose = @ \o f.text, !.open = ~f.final, !.shown = shown]
             v == EndFlush(p, f.final)
  <1>1. /\ f.at = "send" /\ slack' = [slack EXCEPT ![n] = m]
        /\ sent' = Len(body) /\ flush' = [flush EXCEPT ![p] = v]
        /\ UNCHANGED <<native, fellBack, ref, errors>>
        /\ UNCHANGED <<activity, said, pending, body, synth, demoted, order, step, loop, closed>>
    BY DEF Send, Commits, Returns, outlet, life
  <1>2. /\ BufferType /\ StepsOK /\ LifeType /\ OutletType
        /\ LifeOK /\ OutletOK /\ AnswerOK /\ BubbleOK /\ PlansOK
        /\ f \in Flush /\ f.final \in BOOLEAN /\ body \in Seq(Nat) /\ slack \in Seq(Messages)
    BY FlusherFacts
  <1>3. /\ n \in DOMAIN slack /\ slack[n] \in Messages
        /\ f.steps \in Updates /\ f.text \in Seq(Nat) /\ f.at \in Flushing
    BY <1>1, <1>2, LenProperties, ElementOfSeq DEF OutletOK, Flush, Flushing
  <1>4. /\ Silent /\ (f.final => f.text = body) /\ (~f.final => body = <<>> /\ f.text = <<>>)
    BY <1>1, <1>2, <1>3, NoAnswerYet
  <1>5. /\ c \in Messages /\ c.prose = <<>> /\ c.streams = slack[n].streams
        /\ \A id \in StepIds : (\E i \in DOMAIN f.steps : f.steps[i].id = id)
                               \/ c.status[id] = slack[n].status[id]
        /\ IsFiniteSet(c.slots) /\ Cardinality(c.slots) < PlanCap
        /\ ~(errors.stream > 0) => \A id \in StepIds :
             /\ slack[n].shown[id] = slack[n].status[id]
             /\ id \notin c.slots /\ c.status[id] = "failed" => c.overflow = "failed"
    <2>1. PlanOK(slack[n], errors.stream > 0)
      BY <1>2, <1>3 DEF PlansOK
    <2>2. slack[n].prose = <<>>
      BY <1>3, <1>4 DEF Silent
    <2>3. ~(errors.stream > 0) =>
            \A id \in StepIds \ slack[n].slots :
              slack[n].status[id] = "failed" => slack[n].overflow = "failed"
      BY <2>1 DEF PlanOK
    <2> QED
      BY <1>3, <2>1, <2>2, <2>3, ChunksKeeps DEF PlanOK
  <1>6. c.shown = slack[n].shown
    BY <1>3, <1>5 DEF Chunks, Messages
  <1> HIDE DEF c
  <1>7. shown \in [StepIds -> Known]
    BY <1>5 DEF Messages
  <1>8. ~(errors.stream > 0) => \A id \in StepIds : shown[id] = c.status[id]
    BY <1>5, <1>6
  <1> HIDE DEF shown
  <1>9. c.prose \o f.text = f.text
    BY <1>3, <1>5, ConcatEmptySeq
  <1>10. /\ m \in Messages /\ m.prose = f.text /\ m.streams = slack[n].streams
         /\ m.slots = c.slots /\ m.status = c.status /\ m.shown = shown /\ m.overflow = c.overflow
    BY <1>2, <1>3, <1>5, <1>7, <1>9 DEF Messages
  <1> HIDE DEF m
  <1>11. /\ slack' \in Seq(Messages) /\ DOMAIN slack' = DOMAIN slack
         /\ slack'[n] = m /\ \A i \in DOMAIN slack \ {n} : slack'[i] = slack[i]
    BY <1>1, <1>2, <1>3, <1>10, SlackEdited
  <1>12. /\ v \in Flush /\ v.at = (IF f.final THEN "finish" ELSE "idle") /\ ~v.final
         /\ v.text = <<>> /\ v.ref = NoRef
    BY <1>2, EndFlushType
  <1>13. sent' \in Nat /\ (~f.final => sent' = 0)
    BY <1>1, <1>2, <1>4, LenProperties, EmptySeq
  <1>14. /\ BufferType' /\ LifeType' /\ StepsOK' /\ ProseAccounted' /\ LifeOK'
         /\ Moves(p, v)
    BY <1>1, <1>3, <1>12, <1>13, FlushStep
  <1>15. OutletType'
    BY <1>1, <1>2, <1>11 DEF OutletType
  <1>16. OutletOK'
    <2>1. v.at \notin {"take", "send"}
      BY <1>12
    <2> HIDE DEF v
    <2> QED
      BY <1>1, <1>2, <1>11, <1>12, <1>14, <2>1, OutletKept
  <1>17. AnswerOK'
    <2>1. ~f.final => Silent'
      BY <1>4, <1>10, <1>11, <1>13 DEF Silent
    <2>2. f.final => \E i \in DOMAIN slack' : slack'[i].prose = body
      BY <1>3, <1>4, <1>10, <1>11
    <2> QED
      BY <1>1, <1>2, <1>3, <1>14, <2>1, <2>2, AnswerEnds
  <1>18. BubbleOK'
    <2>1. v.at # "open"
      BY <1>12
    <2>2. \A i \in DOMAIN slack' : i \in DOMAIN slack /\ slack'[i].streams = slack[i].streams
      BY <1>10, <1>11
    <2> HIDE DEF v
    <2> QED
      BY <1>1, <1>2, <1>14, <2>1, <2>2, BubbleKept
  <1>19. PlansOK'
    <2>1. PlanOK(m, errors.stream > 0)
      BY <1>5, <1>8, <1>10 DEF PlanOK
    <2> QED
      BY <1>1, <1>2, <1>11, <2>1, PlansKept
  <1> QED
    BY <1>14, <1>15, <1>16, <1>17, <1>18, <1>19 DEF StreamsInv, StreamsTypeOK

(* An increment that breaks the stream: the flush goes on to a message       *)
(* (pushNative, flushWith).                                                  *)
LEMMA BrokenKeeps ==
  ASSUME StreamsInv, NEW p \in Flushers, Broken(p)
  PROVE  StreamsInv'
  <1> DEFINE f == flush[p]
             n == f.native
             c == Chunks(slack[n], f.steps)
             m == [c EXCEPT !.shown = slack[n].shown, !.overflow = slack[n].overflow,
                            !.open = ~f.final]
             v == [f EXCEPT !.at = "render"]
  <1>1. /\ f.at = "send" /\ slack' = [slack EXCEPT ![n] = m]
        /\ native' = NoRef /\ ref' = NoRef /\ sent' = 0 /\ fellBack' = TRUE
        /\ errors' = [errors EXCEPT !["stream"] = @ + 1]
        /\ flush' = [flush EXCEPT ![p].at = "render"]
        /\ UNCHANGED <<activity, said, pending, body, synth, demoted, order, step, loop, closed>>
    BY DEF Broken, FallsThrough, Goto, Fails, life
  <1>2. /\ BufferType /\ StepsOK /\ LifeType /\ OutletType
        /\ LifeOK /\ OutletOK /\ AnswerOK /\ BubbleOK /\ PlansOK
        /\ f \in Flush /\ f.final \in BOOLEAN /\ slack \in Seq(Messages)
    BY FlusherFacts
  <1>3. /\ n \in DOMAIN slack /\ slack[n] \in Messages
        /\ f.steps \in Updates /\ f.at \in Flushing
    BY <1>1, <1>2, LenProperties, ElementOfSeq DEF OutletOK, Flush, Flushing
  <1>4. Silent /\ (~f.final => f.text = <<>>)
    BY <1>1, <1>2, <1>3, NoAnswerYet
  <1>5. /\ c \in Messages /\ c.prose = <<>> /\ c.streams = slack[n].streams
        /\ IsFiniteSet(c.slots) /\ Cardinality(c.slots) < PlanCap
    <2>1. PlanOK(slack[n], errors.stream > 0)
      BY <1>2, <1>3 DEF PlansOK
    <2>2. slack[n].prose = <<>>
      BY <1>3, <1>4 DEF Silent
    <2> QED
      BY <1>3, <2>1, <2>2, ChunksKeeps DEF PlanOK
  <1> HIDE DEF c
  <1>6. /\ m \in Messages /\ m.prose = <<>> /\ m.streams = slack[n].streams /\ m.slots = c.slots
    BY <1>2, <1>3, <1>5 DEF Messages
  <1> HIDE DEF m
  <1>7. /\ slack' \in Seq(Messages) /\ DOMAIN slack' = DOMAIN slack
        /\ slack'[n] = m /\ \A i \in DOMAIN slack \ {n} : slack'[i] = slack[i]
    BY <1>1, <1>2, <1>3, <1>6, SlackEdited
  <1>8. /\ v \in Flush /\ v.at = "render" /\ v.final = f.final
        /\ v.text = f.text /\ v.ref = f.ref
        /\ flush' = [flush EXCEPT ![p] = v]
    BY <1>1, <1>2 DEF Flush, Places, Flushing, LifeType
  <1> HIDE DEF v
  <1>9. errors' \in [stream : Nat, post : Nat] /\ errors'.stream > 0
    BY <1>1, <1>2 DEF OutletType
  <1>10. /\ BufferType' /\ LifeType' /\ StepsOK' /\ ProseAccounted' /\ LifeOK'
         /\ Moves(p, v)
    <2>1. v.at \in Flushing /\ sent' \in Nat
      BY <1>1, <1>8 DEF Flushing
    <2> QED
      BY <1>1, <1>3, <1>8, <2>1, FlushStep
  <1>11. OutletType'
    BY <1>1, <1>2, <1>7, <1>9 DEF OutletType, NoRef
  <1>12. OutletOK'
    <2>1. f.ref = NoRef \/ f.ref \in DOMAIN slack
      BY <1>2 DEF OutletOK, Made
    <2> QED
      BY <1>1, <1>2, <1>7, <1>8, <1>10, <2>1, OutletKept
  <1>13. AnswerOK'
    <2>1. Silent'
      BY <1>1, <1>4, <1>6, <1>7 DEF Silent
    <2>2. v.at \in Flushing
      BY <1>8 DEF Flushing
    <2> QED
      BY <1>1, <1>2, <1>3, <1>4, <1>8, <1>10, <2>1, <2>2, AnswerGoesOn
  <1>14. BubbleOK'
    <2>1. \A i \in DOMAIN slack' : i \in DOMAIN slack /\ slack'[i].streams = slack[i].streams
      BY <1>6, <1>7
    <2> QED
      BY <1>1, <1>2, <1>8, <1>10, <2>1, BubbleKept
  <1>15. PlansOK'
    <2>1. PlanOK(m, errors'.stream > 0)
      BY <1>5, <1>6, <1>9 DEF PlanOK
    <2> QED
      BY <1>2, <1>7, <1>9, <2>1, PlansKept
  <1> QED
    BY <1>10, <1>11, <1>12, <1>13, <1>14, <1>15 DEF StreamsInv, StreamsTypeOK

(* A message posted, or edited (pushEdit).                                   *)
LEMMA PostMessageKeeps ==
  ASSUME StreamsInv, NEW p \in Flushers, PostMessage(p)
  PROVE  StreamsInv'
  <1> DEFINE f == flush[p]
             v == EndFlush(p, f.final)
  <1>1. /\ f.at = "post" /\ sent' = Len(body) /\ flush' = [flush EXCEPT ![p] = v]
        /\ UNCHANGED <<native, fellBack, errors>>
        /\ UNCHANGED <<activity, said, pending, body, synth, demoted, order, step, loop, closed>>
    BY DEF PostMessage, Commits, Returns, life
  <1>2. /\ BufferType /\ StepsOK /\ LifeType /\ OutletType
        /\ LifeOK /\ OutletOK /\ AnswerOK /\ BubbleOK /\ PlansOK
        /\ f \in Flush /\ f.final \in BOOLEAN /\ body \in Seq(Nat) /\ slack \in Seq(Messages)
    BY FlusherFacts
  <1>3. f.at \in Flushing /\ f.text \in Seq(Nat) /\ f.lists \in BOOLEAN
    BY <1>1, <1>2 DEF Flush, Flushing
  <1>4. /\ Silent /\ (f.final => f.text = body) /\ (~f.final => body = <<>> /\ f.text = <<>>)
    BY <1>1, <1>2, <1>3, NoAnswerYet
  <1>5. /\ v \in Flush /\ v.at = (IF f.final THEN "finish" ELSE "idle") /\ ~v.final
        /\ v.ref = NoRef
    BY <1>2, EndFlushType
  <1> HIDE DEF v
  <1>6. sent' \in Nat /\ (~f.final => sent' = 0)
    BY <1>1, <1>2, <1>4, LenProperties, EmptySeq
  <1>7. /\ BufferType' /\ LifeType' /\ StepsOK' /\ ProseAccounted' /\ LifeOK'
        /\ Moves(p, v)
    BY <1>1, <1>3, <1>5, <1>6, FlushStep
  <1>8. /\ slack' \in Seq(Messages) /\ DOMAIN slack \subseteq DOMAIN slack'
        /\ ref' \in {ref} \cup DOMAIN slack' /\ ref' \in Nat
        /\ \E i \in DOMAIN slack' : slack'[i].prose = f.text
        /\ \A i \in DOMAIN slack' :
             \/ /\ i \in DOMAIN slack /\ slack'[i].prose \in {slack[i].prose, f.text}
                /\ slack'[i].streams = slack[i].streams
                /\ slack'[i].slots = slack[i].slots /\ slack'[i].status = slack[i].status
                /\ slack'[i].shown = slack[i].shown /\ slack'[i].overflow = slack[i].overflow
             \/ /\ slack'[i].prose = f.text /\ ~slack'[i].streams
                /\ PlanOK(slack'[i], errors.stream > 0)
    <2>1. CASE f.ref = NoRef
      <3> DEFINE m == Message(f.text, f.lists, FALSE)
      <3>1. slack' = Append(slack, m) /\ ref' = Len(slack) + 1
        BY <2>1 DEF PostMessage
      <3>2. m \in Messages /\ m.prose = f.text /\ ~m.streams /\ PlanOK(m, errors.stream > 0)
        BY <1>3, NewMessage
      <3> HIDE DEF m
      <3>3. /\ slack' \in Seq(Messages) /\ Len(slack) + 1 \in DOMAIN slack' /\ Len(slack) + 1 \in Nat
            /\ slack'[Len(slack) + 1] = m /\ DOMAIN slack \subseteq DOMAIN slack'
            /\ \A i \in DOMAIN slack : slack'[i] = slack[i]
            /\ \A i \in DOMAIN slack' : i \in DOMAIN slack \/ slack'[i] = m
        BY <1>2, <3>1, <3>2, SlackGrows
      <3> QED
        BY <3>1, <3>2, <3>3
    <2>2. CASE f.ref # NoRef
      <3> DEFINE n == f.ref
                 m == [slack[n] EXCEPT !.prose = f.text, !.lists = f.lists]
      <3>1. n \in DOMAIN slack /\ slack[n] \in Messages
        BY <1>2, <2>2, LenProperties, ElementOfSeq DEF OutletOK, Made
      <3>2. slack' = [slack EXCEPT ![n].prose = f.text, ![n].lists = f.lists] /\ ref' = ref
        BY <2>2 DEF PostMessage
      <3>3. slack' = [slack EXCEPT ![n] = m]
        BY <3>1, <3>2
      <3>4. /\ m \in Messages /\ m.prose = f.text /\ m.streams = slack[n].streams
            /\ m.slots = slack[n].slots /\ m.status = slack[n].status
            /\ m.shown = slack[n].shown /\ m.overflow = slack[n].overflow
        BY <1>3, <3>1 DEF Messages
      <3> HIDE DEF m
      <3>5. /\ slack' \in Seq(Messages) /\ DOMAIN slack' = DOMAIN slack
            /\ slack'[n] = m /\ \A i \in DOMAIN slack \ {n} : slack'[i] = slack[i]
        BY <1>2, <3>1, <3>3, <3>4, SlackEdited
      <3>6. ref \in Nat
        BY <1>2 DEF OutletType
      <3> QED
        BY <3>1, <3>2, <3>4, <3>5, <3>6
    <2> QED
      BY <2>1, <2>2
  <1>9. OutletType'
    BY <1>1, <1>2, <1>8 DEF OutletType
  <1>10. OutletOK'
    <2>1. v.at \notin {"take", "send"}
      BY <1>5
    <2> QED
      BY <1>1, <1>2, <1>5, <1>7, <1>8, <2>1, OutletKept
  <1>11. AnswerOK'
    <2>1. ~f.final => Silent'
      <3>1. ~f.final => \A i \in DOMAIN slack' : slack'[i].prose = <<>>
        BY <1>4, <1>8 DEF Silent
      <3> QED
        BY <1>6, <3>1 DEF Silent
    <2>2. f.final => \E i \in DOMAIN slack' : slack'[i].prose = body
      BY <1>4, <1>8
    <2>3. Moves(p, EndFlush(p, f.final))
      BY <1>7 DEF v
    <2> QED
      BY <1>1, <1>2, <1>3, <2>1, <2>2, <2>3, AnswerEnds
  <1>12. BubbleOK'
    <2>1. v.at # "open"
      BY <1>5
    <2>2. \A i \in DOMAIN slack' : \/ i \in DOMAIN slack /\ slack'[i].streams = slack[i].streams
                                   \/ ~slack'[i].streams
      BY <1>8
    <2> QED
      BY <1>1, <1>2, <1>7, <2>1, <2>2, BubbleKept
  <1>13. PlansOK'
    BY <1>1, <1>2, <1>8, PlansKept
  <1> QED
    BY <1>7, <1>9, <1>10, <1>11, <1>12, <1>13 DEF StreamsInv, StreamsTypeOK

(* A frame keeps the invariant: it leaves the surface and the flushes alone. *)
LEMMA FrameKeepsInv ==
  ASSUME StreamsInv, Frames
  PROVE  StreamsInv'
  <1>1. /\ BufferType /\ StepsOK /\ ProseAccounted /\ LifeType /\ OutletType
        /\ LifeOK /\ OutletOK /\ AnswerOK /\ BubbleOK /\ PlansOK
    BY DEF StreamsInv, StreamsTypeOK
  <1>2. /\ BufferType' /\ StepsOK' /\ ProseAccounted'
        /\ UNCHANGED <<body, sent, native, fellBack, ref, closed, flush, slack, errors>>
        /\ loop \in {"none", "running"} /\ loop' = "running"
        /\ order # <<>> => order' # <<>>
    BY <1>1, FramesKeep
  <1>3. LifeType' /\ OutletType'
    BY <1>1, <1>2 DEF LifeType, OutletType
  <1>4. LifeOK'
    BY <1>1, <1>2 DEF LifeOK
  <1>5. OutletOK'
    BY <1>1, <1>2 DEF OutletOK, Made
  <1>6. AnswerOK'
    BY <1>1, <1>2 DEF AnswerOK, Settled
  <1>7. BubbleOK'
    BY <1>1, <1>2 DEF BubbleOK, NoBlankBubble
  <1>8. PlansOK'
    BY <1>1, <1>2 DEF PlansOK
  <1> QED
    BY <1>2, <1>3, <1>4, <1>5, <1>6, <1>7, <1>8 DEF StreamsInv, StreamsTypeOK

(* The first section of a flush: the ticker's, a prompt's, or the last one   *)
(* (flushWith).                                                              *)
LEMMA CollectKeepsInv ==
  ASSUME StreamsInv, NEW p \in Flushers, NEW final \in BOOLEAN, Collect(p, final),
         \/ ~final /\ flush[p].at = "idle" /\ loop \in {"running", "stopped"}
         \/ final /\ p = "reader" /\ flush[p].at = "wait" /\ loop = "over"
  PROVE  StreamsInv'
  <1> DEFINE v == flush'[p]
  <1>1. /\ BufferType /\ StepsOK /\ ProseAccounted /\ LifeType /\ OutletType
        /\ LifeOK /\ OutletOK /\ AnswerOK /\ BubbleOK /\ PlansOK
    BY DEF StreamsInv, StreamsTypeOK
  <1>2. /\ body' = (IF final THEN body \o pending ELSE body)
        /\ UNCHANGED <<sent, order, native, fellBack, ref, loop, closed, slack, errors>>
        /\ Begun(p, final) /\ flush' = [flush EXCEPT ![p] = v]
    BY <1>1, CollectStep
  <1>3. BufferType' /\ StepsOK' /\ ProseAccounted'
    BY <1>1, CollectKeeps
  <1>4. body' \in Seq(Nat) /\ sent \in Nat /\ native \in Nat
    BY <1>1, <1>3 DEF BufferType, OutletType
  <1>5. IdleFlush \in Flush /\ IdleFlush.text = <<>> /\ IdleFlush.ref = NoRef
    BY <1>1, EndFlushType DEF IdleFlush
  <1>6. /\ v \in Flush /\ v.text = <<>> /\ v.ref = NoRef
        /\ \/ /\ v.at = (IF final THEN "finish" ELSE "idle") /\ ~v.final
              /\ NothingToSend(body')
           \/ /\ v.at \in {"render", "open", "take"} /\ v.final = final
              /\ v.at = "open" => ~NothingToSend(body')
              /\ v.at = "take" => v.native = native /\ native # NoRef
    <2> HIDE DEF v
    <2>1. CASE v = EndFlush(p, final) /\ native = NoRef /\ NothingToSend(body')
      BY <1>1, <2>1, EndFlushType
    <2>2. CASE /\ v.at \in {"render", "open", "take"}
               /\ v.at = "open" => native = NoRef /\ ~NothingToSend(body')
               /\ v.at = "take" => native # NoRef
               /\ v = [IdleFlush EXCEPT !.at = v.at, !.final = final, !.native = native]
      <3>1. v \in Flush /\ v.final = final /\ v.native = native /\ v.text = <<>> /\ v.ref = NoRef
        BY <1>4, <1>5, <2>2 DEF Flush, Places, Flushing
      <3> QED
        BY <2>2, <3>1
    <2> QED
      BY <1>2, <2>1, <2>2 DEF Begun, v
  <1>7. Moves(p, v) /\ flush' \in [Flushers -> Flush]
    BY <1>1, <1>2, <1>6, FlushMoves
  <1> HIDE DEF v
  <1>8. LifeType' /\ OutletType'
    BY <1>1, <1>2, <1>7 DEF LifeType, OutletType
  <1>9. p = "reader" => flush'["reader"] = v /\ flush'["ticker"] = flush["ticker"]
    BY <1>7 DEF Moves, Flushers
  <1>10. p = "ticker" => flush'["ticker"] = v /\ flush'["reader"] = flush["reader"]
    BY <1>7 DEF Moves, Flushers
  <1>11. LifeOK'
    <2>1. CASE ~final
      <3>1. CASE p = "ticker"
        BY <1>1, <1>2, <1>6, <1>10, <2>1, <3>1 DEF LifeOK, Flushing
      <3>2. CASE p = "reader"
        BY <1>1, <1>2, <1>6, <1>9, <2>1, <3>2 DEF LifeOK, Flushing
      <3> QED
        BY <3>1, <3>2 DEF Flushers
    <2>2. CASE final
      BY <1>1, <1>2, <1>6, <1>9, <2>2 DEF LifeOK, Flushing
    <2> QED
      BY <2>1, <2>2
  <1>12. OutletOK'
    BY <1>1, <1>2, <1>6, <1>7, OutletKept DEF OutletOK, Made
  <1>13. ~flush["reader"].final /\ ~Settled
    <2>1. CASE ~final
      BY <1>1, <2>1 DEF LifeOK, Settled, Flushing, Flushers
    <2>2. CASE final
      BY <1>1, <2>2 DEF LifeOK, Settled, Flushing
    <2> QED
      BY <2>1, <2>2
  <1>14. /\ body = <<>> /\ sent = 0 /\ \A q \in Flushers : flush[q].text = <<>>
         /\ \A i \in DOMAIN slack : slack[i].prose = <<>>
    BY <1>1, <1>13 DEF AnswerOK
  <1>15. \A q \in Flushers : flush'[q].text = <<>>
    BY <1>6, <1>7, <1>14 DEF Moves
  <1>16. NothingToSend(body') => body' = <<>>
    BY <1>4, <1>14, EmptySeq DEF NothingToSend
  <1>17. AnswerOK'
    <2>1. CASE ~final
      <3>1. body' = <<>>
        BY <1>2, <1>14, <2>1
      <3>2. flush'["reader"] \in {v, flush["reader"]} /\ "reader" \in Flushers
        BY <1>9, <1>10 DEF Flushers
      <3>3. ~Settled'
        BY <1>6, <1>13, <2>1, <3>2 DEF Settled
      <3>4. flush'["reader"].text = body'
        BY <1>15, <3>1, <3>2
      <3> QED
        BY <1>2, <1>14, <1>15, <3>1, <3>3, <3>4 DEF AnswerOK
    <2>2. CASE final
      <3>1. flush'["reader"] = v
        BY <1>9, <2>2
      <3>2. v.at \notin {"send", "post"} /\ (v.at # "finish" => v.final)
            /\ (v.at \in {"finish", "closed"} => body' = <<>>)
        BY <1>6, <1>16, <2>2
      <3>3. ~flush'["reader"].final /\ ~Settled' => FALSE
        BY <1>6, <2>2, <3>1 DEF Settled
      <3> QED
        BY <1>2, <1>14, <3>1, <3>2, <3>3 DEF AnswerOK, Settled
    <2> QED
      BY <2>1, <2>2
  <1>18. BubbleOK'
    <2>1. ~NothingToSend(body') => order # <<>> \/ body' # <<>>
      BY <1>4, <1>14, EmptySeq DEF NothingToSend
    <2>2. body # <<>> => body' # <<>>
      BY <1>14
    <2>3. \A q \in Flushers : flush'[q].at = "open" => order' # <<>> \/ body' # <<>>
      BY <1>1, <1>2, <1>6, <1>7, <2>1, <2>2 DEF BubbleOK, Moves
    <2> QED
      BY <1>1, <1>2, <2>2, <2>3 DEF BubbleOK, NoBlankBubble
  <1>19. PlansOK'
    BY <1>1, <1>2 DEF PlansOK
  <1> QED
    BY <1>3, <1>8, <1>11, <1>12, <1>17, <1>18, <1>19 DEF StreamsInv, StreamsTypeOK

-----------------------------------------------------------------------------
(* Close                                                                     *)

(* Close and the end of the ticker begin no flush (stream.Close, loop).      *)
LEMMA StopKeeps ==
  ASSUME StreamsInv, Close \/ LoopReturns
  PROVE  StreamsInv'
  <1>1. /\ BufferType /\ StepsOK /\ ProseAccounted /\ LifeType /\ OutletType
        /\ LifeOK /\ OutletOK /\ AnswerOK /\ BubbleOK /\ PlansOK
    BY DEF StreamsInv, StreamsTypeOK
  <1> DEFINE v == IF Close THEN [flush["reader"] EXCEPT !.at = "wait"] ELSE flush["reader"]
  <1>2. /\ UNCHANGED <<activity, said, pending, body, sent, synth, demoted, order, step>>
        /\ UNCHANGED <<native, fellBack, ref, closed, slack, errors>>
        /\ loop \in {"running", "stopped"} /\ loop' \in {"stopped", "over"}
    BY DEF Close, LoopReturns, Reads, buffer, outlet, slackIO
  <1>3. flush["reader"] \in Flush /\ "reader" \in Flushers /\ "ticker" \in Flushers
    BY <1>1 DEF LifeType, Flushers
  <1>4. /\ Close => /\ v = [flush["reader"] EXCEPT !.at = "wait"]
                    /\ flush["reader"].at = "idle" /\ loop = "running" /\ loop' = "stopped"
                    /\ flush' = [flush EXCEPT !["reader"].at = "wait"]
        /\ ~Close => /\ v = flush["reader"] /\ flush["ticker"].at = "idle"
                     /\ loop = "stopped" /\ loop' = "over" /\ flush' = flush
    BY DEF Close, LoopReturns, Reads, Goto
  <1>5. /\ v \in Flush /\ v.final = flush["reader"].final /\ v.text = flush["reader"].text
        /\ v.ref = flush["reader"].ref
        /\ \/ v.at = "wait" /\ ~flush["reader"].final /\ ~Settled
           \/ v = flush["reader"] /\ ~Close
        /\ flush' = [flush EXCEPT !["reader"] = v]
    <2>1. CASE Close
      <3>1. v = [flush["reader"] EXCEPT !.at = "wait"] /\ flush' = [flush EXCEPT !["reader"].at = "wait"]
            /\ flush["reader"].at = "idle"
        BY <1>4, <2>1
      <3> HIDE DEF v
      <3>2. ~flush["reader"].final /\ ~Settled
        BY <1>1, <3>1 DEF LifeOK, Settled, Flushing
      <3> QED
        BY <1>1, <1>3, <3>1, <3>2 DEF Flush, Places, Flushing, LifeType
    <2>2. CASE ~Close
      BY <1>1, <1>3, <1>4, <2>2 DEF LifeType
    <2> QED
      BY <2>1, <2>2
  <1> HIDE DEF v
  <1>6. Moves("reader", v) /\ flush' \in [Flushers -> Flush]
    BY <1>1, <1>3, <1>5, FlushMoves
  <1>7. flush'["reader"] = v /\ flush'["ticker"] = flush["ticker"]
    BY <1>3, <1>6 DEF Moves
  <1>8. Quiet
    BY <1>1, <1>2 DEF Quiet, BufferType
  <1>9. BufferType' /\ StepsOK' /\ ProseAccounted'
    BY <1>1, <1>8, QuietKeeps
  <1>10. LifeType' /\ OutletType'
    BY <1>1, <1>2, <1>6 DEF LifeType, OutletType
  <1>11. LifeOK'
    BY <1>1, <1>2, <1>4, <1>5, <1>7 DEF LifeOK, Flushing
  <1>12. OutletOK'
    <2>1. \A q \in Flushers : /\ flush'[q].at \in {"take", "send"} => flush'[q].native \in DOMAIN slack
                              /\ Made(flush'[q].ref)
      BY <1>1, <1>5, <1>7 DEF OutletOK, Flushers
    <2> QED
      BY <1>1, <1>2, <2>1 DEF OutletOK, Made
  <1>13. AnswerOK'
    <2>1. \A q \in Flushers : flush'[q].text = flush[q].text
      BY <1>5, <1>7 DEF Flushers
    <2>2. \/ ~flush["reader"].final /\ ~Settled /\ ~Settled' /\ flush'["reader"].at = "wait"
          \/ flush'["reader"] = flush["reader"]
      BY <1>5, <1>7 DEF Settled
    <2> QED
      BY <1>1, <1>2, <1>5, <1>7, <2>1, <2>2 DEF AnswerOK, Settled
  <1>14. BubbleOK'
    <2>1. \A q \in Flushers : flush'[q].at = "open" => flush[q].at = "open"
      BY <1>5, <1>7 DEF Flushers
    <2> QED
      BY <1>1, <1>2, <2>1 DEF BubbleOK, NoBlankBubble
  <1>15. PlansOK'
    BY <1>1, <1>2 DEF PlansOK
  <1> QED
    BY <1>9, <1>10, <1>11, <1>12, <1>13, <1>14, <1>15 DEF StreamsInv, StreamsTypeOK

(* Close returns, and a turn without output says so (Gateway.onDone).        *)
LEMMA CloseReturnsKeeps ==
  ASSUME StreamsInv, CloseReturns
  PROVE  StreamsInv'
  <1>1. /\ BufferType /\ StepsOK /\ ProseAccounted /\ LifeType /\ OutletType
        /\ LifeOK /\ OutletOK /\ AnswerOK /\ BubbleOK /\ PlansOK /\ slack \in Seq(Messages)
    BY DEF StreamsInv, StreamsTypeOK, OutletType
  <1> DEFINE v == [IdleFlush EXCEPT !.at = "closed"]
             m == Message(<<>>, FALSE, FALSE)
  <1>2. /\ UNCHANGED <<activity, said, pending, body, sent, synth, demoted, order, step>>
        /\ UNCHANGED <<native, fellBack, ref, loop, errors>> /\ closed' = TRUE
        /\ flush["reader"].at = "finish" /\ flush' = [flush EXCEPT !["reader"] = v]
        /\ slack' = slack \/ slack' = Append(slack, m)
    BY DEF CloseReturns, buffer, outlet
  <1>3. IdleFlush \in Flush
    BY <1>1, EndFlushType
  <1>4. v \in Flush /\ v.at = "closed" /\ ~v.final /\ v.ref = NoRef
    BY <1>3 DEF Flush, Places, IdleFlush
  <1> HIDE DEF v
  <1>5. Moves("reader", v) /\ flush' \in [Flushers -> Flush]
    BY <1>1, <1>2, <1>4, FlushMoves DEF Flushers
  <1>6. flush'["reader"] = v /\ flush'["ticker"] = flush["ticker"]
    BY <1>5 DEF Moves, Flushers
  <1>7. m \in Messages /\ m.prose = <<>> /\ ~m.streams /\ PlanOK(m, errors.stream > 0)
    BY NewMessage, EmptySeq
  <1> HIDE DEF m
  <1>8. /\ slack' \in Seq(Messages) /\ DOMAIN slack \subseteq DOMAIN slack'
        /\ \A i \in DOMAIN slack : slack'[i] = slack[i]
        /\ \A i \in DOMAIN slack' : i \in DOMAIN slack \/ slack'[i] = m
    <2>1. CASE slack' = slack
      BY <1>1, <2>1
    <2>2. CASE slack' = Append(slack, m)
      BY <1>1, <1>7, <2>2, SlackGrows
    <2> QED
      BY <1>2, <2>1, <2>2
  <1>9. Quiet
    BY <1>1, <1>2 DEF Quiet, BufferType
  <1>10. BufferType' /\ StepsOK' /\ ProseAccounted'
    BY <1>1, <1>9, QuietKeeps
  <1>11. LifeType' /\ OutletType'
    BY <1>1, <1>2, <1>5, <1>8 DEF LifeType, OutletType
  <1>12. LifeOK'
    <2>1. loop = "over" /\ flush["ticker"].at = "idle"
      BY <1>1, <1>2 DEF LifeOK, LifeType, Flushing
    <2> QED
      BY <1>1, <1>2, <1>4, <1>6, <2>1 DEF LifeOK
  <1>13. OutletOK'
    BY <1>1, <1>2, <1>4, <1>5, <1>8, OutletKept DEF Flushers
  <1>14. AnswerOK'
    <2>1. Settled /\ Settled'
      BY <1>2, <1>4, <1>6 DEF Settled
    <2> QED
      BY <1>1, <1>2, <1>4, <1>6, <1>8, <2>1 DEF AnswerOK
  <1>15. BubbleOK'
    <2>1. "reader" \in Flushers /\ v.at # "open"
      BY <1>4 DEF Flushers
    <2>2. \A i \in DOMAIN slack' : \/ i \in DOMAIN slack /\ slack'[i].streams = slack[i].streams
                                   \/ ~slack'[i].streams
      BY <1>7, <1>8
    <2> QED
      BY <1>1, <1>2, <1>5, <2>1, <2>2, BubbleKept
  <1>16. PlansOK'
    <2>1. errors.stream > 0 => errors'.stream > 0
      BY <1>2
    <2> QED
      BY <1>1, <1>2, <1>7, <1>8, <2>1, PlansKept
  <1> QED
    BY <1>10, <1>11, <1>12, <1>13, <1>14, <1>15, <1>16 DEF StreamsInv, StreamsTypeOK

-----------------------------------------------------------------------------
(* The theorems                                                              *)

(* Nothing has happened when the turn starts.                                *)
LEMMA StreamsInitInv == StreamsInit => StreamsInv
  <1> SUFFICES ASSUME StreamsInit PROVE StreamsInv
    OBVIOUS
  <1>0. <<>> \in Seq(Nat) /\ <<>> \in Seq(StepIds) /\ <<>> \in Seq(Messages) /\ Len(<<>>) = 0
    BY EmptySeq
  <1>1. BufferType
    BY <1>0 DEF StreamsInit, BufferType, Known
  <1>2. OutletType
    BY <1>0 DEF StreamsInit, OutletType, NoRef
  <1>3. StepsOK
    BY <1>0, ShortRange, StreamsAssumption DEF StreamsInit, StepsOK
  <1>4. ProseAccounted
    <2>1. Range(pending) \cup Range(body) \cup UNION {Range(demoted[n]) : n \in Synths} = {}
      BY ShortRange DEF StreamsInit
    <2>2. 1 .. said = {}
      BY DEF StreamsInit
    <2>3. activity # "hidden" /\ \A n \in Synths : demoted[n] = <<>>
      BY DEF StreamsInit
    <2> QED
      BY <2>1, <2>2, <2>3 DEF ProseAccounted
  <1>5. IdleFlush \in Flush
    BY <1>1, <1>3, EndFlushType
  <1>6. \A p \in Flushers : flush[p] = IdleFlush
    BY DEF StreamsInit
  <1>7. LifeType
    BY <1>5 DEF StreamsInit, LifeType
  <1>8. LifeOK
    BY <1>6 DEF StreamsInit, LifeOK, IdleFlush, Flushing, Flushers
  <1>9. slack = <<>> /\ DOMAIN slack = {}
    BY DEF StreamsInit
  <1>10. OutletOK
    BY <1>6 DEF StreamsInit, OutletOK, Made, IdleFlush
  <1>11. AnswerOK
    BY <1>6, <1>9 DEF StreamsInit, AnswerOK, Settled, IdleFlush, Flushers
  <1>12. BubbleOK
    BY <1>6, <1>9 DEF BubbleOK, NoBlankBubble, IdleFlush
  <1>13. PlansOK
    BY <1>9 DEF PlansOK
  <1> QED
    BY <1>1, <1>2, <1>3, <1>4, <1>7, <1>8, <1>10, <1>11, <1>12, <1>13
    DEF StreamsInv, StreamsTypeOK

(* Every step keeps the invariant.                                           *)
LEMMA StreamsNextInv ==
  ASSUME StreamsInv, [StreamsNext]_streamVars
  PROVE  StreamsInv'
  <1>1. CASE Frames
    BY <1>1, FrameKeepsInv
  <1>2. CASE Tick
    BY <1>2, CollectKeepsInv DEF Tick, Flushers
  <1>3. CASE PromptFlush
    BY <1>3, CollectKeepsInv DEF PromptFlush, Reads, Flushers
  <1>4. CASE FinalFlush
    BY <1>4, CollectKeepsInv DEF FinalFlush, Flushers
  <1>5. ASSUME NEW p \in Flushers,
               \/ OpenStream(p) \/ StreamRefused(p) \/ Take(p) \/ Send(p) \/ Broken(p)
               \/ Render(p) \/ PostMessage(p) \/ PostFails(p)
        PROVE  StreamsInv'
    BY <1>5, OpenStreamKeeps, StreamRefusedKeeps, TakeKeeps, SendKeeps, BrokenKeeps,
       RenderKeeps, PostMessageKeeps, PostFailsKeeps
  <1>6. CASE Close \/ LoopReturns
    BY <1>6, StopKeeps
  <1>7. CASE CloseReturns
    BY <1>7, CloseReturnsKeeps
  <1>8. CASE UNCHANGED streamVars
    <2>1. /\ UNCHANGED <<activity, said, pending, body, sent, synth, demoted, order, step>>
          /\ UNCHANGED <<native, fellBack, ref, loop, closed, flush, slack, errors>>
      BY <1>8 DEF streamVars, buffer, outlet, life, slackIO
    <2>2. StreamsTypeOK'
      BY <2>1 DEF StreamsInv, StreamsTypeOK, BufferType, OutletType, LifeType
    <2>3. StepsOK' /\ ProseAccounted'
      BY <2>1 DEF StreamsInv, StepsOK, ProseAccounted
    <2>4. LifeOK' /\ OutletOK'
      BY <2>1 DEF StreamsInv, LifeOK, OutletOK, Made
    <2>5. AnswerOK' /\ BubbleOK' /\ PlansOK'
      BY <2>1 DEF StreamsInv, AnswerOK, Settled, BubbleOK, NoBlankBubble, PlansOK
    <2> QED
      BY <2>2, <2>3, <2>4, <2>5 DEF StreamsInv
  <1> QED
    BY <1>1, <1>2, <1>3, <1>4, <1>5, <1>6, <1>7, <1>8 DEF StreamsNext, Frames

(* The invariant holds in every reachable state.                             *)
THEOREM StreamsInvariant == StreamsSpec => []StreamsInv
  BY StreamsInitInv, StreamsNextInv, PTL DEF StreamsSpec

(* What the model said is never dropped (stream.demoteLocked, flushWith).    *)
THEOREM ProseAccountedCorrect == StreamsSpec => []ProseAccounted
  <1>1. StreamsInv => ProseAccounted
    BY DEF StreamsInv
  <1> QED
    BY <1>1, StreamsInvariant, PTL

(* A closed turn's whole answer is in one message, through a broken stream,  *)
(* a refusal or two flushes at once (flushWith, pushNative, pushEdit).       *)
THEOREM AnswerShownCorrect == StreamsSpec => []AnswerShown
  <1>1. StreamsInv => AnswerShown
    BY DEF StreamsInv, LifeOK, AnswerOK, Settled, AnswerShown
  <1> QED
    BY <1>1, StreamsInvariant, PTL

(* No stream is opened for a turn that has nothing to show (flushWith).      *)
THEOREM NoBlankBubbleCorrect == StreamsSpec => []NoBlankBubble
  <1>1. StreamsInv => NoBlankBubble
    BY DEF StreamsInv, BubbleOK
  <1> QED
    BY <1>1, StreamsInvariant, PTL

(* A plan stays within its cap, and its overflow card tells of a failure     *)
(* unless an append failed (stream.taskChunkLocked of the surface).          *)
THEOREM OverflowTellsCorrect == StreamsSpec => []OverflowTells
  <1>1. StreamsInv => OverflowTells
    BY DEF StreamsInv, PlansOK, PlanOK, OverflowTells
  <1> QED
    BY <1>1, StreamsInvariant, PTL

=============================================================================
