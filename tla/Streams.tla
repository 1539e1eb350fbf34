------------------------------ MODULE Streams ------------------------------
(***************************************************************************)
(* A turn's output on its way to the surface.                              *)
(*                                                                         *)
(* Frames of the turn add prose and steps to a buffer; a ticker flushes    *)
(* the buffer while the turn runs, a permission prompt flushes it from the *)
(* frame goroutine, and Close stops the ticker and flushes a last time.  A *)
(* flush copies state under the stream's lock, calls the surface without   *)
(* it, and takes it again to commit: each section is a step of the flusher *)
(* and other goroutines run in between.  Output goes to a native stream    *)
(* until one is refused or breaks, and to an edited message from then on.  *)
(*                                                                         *)
(* Prose is a sequence of pieces, numbered in the order they were said.    *)
(***************************************************************************)
EXTENDS Naturals, FiniteSets, SequencesExt

CONSTANTS
  Calls,       \* the harness's tool call ids
  Activities,  \* activity settings a turn may have
  MaxText,     \* bound: pieces of prose
  MaxSteps,    \* bound: steps
  MaxErrors,   \* bound: surface calls that fail
  PlanCap      \* maxPlanTasks of the Slack surface (50 in the code)

ASSUME StreamsAssumption ==
  /\ MaxText \in Nat /\ MaxSteps \in Nat /\ MaxErrors \in Nat
  /\ PlanCap \in Nat \ {0}
  /\ Calls \cap Nat = {}
  /\ Activities \subseteq {"hidden", "transient", "full"}

Pieces     == 1 .. MaxText
Synths     == 1 .. MaxSteps   \* prose-n and thought-n steps
StepIds    == Calls \cup Synths
Flushers   == {"ticker", "reader"}
NoRef      == 0

VARIABLES
  activity,    \* the turn's activity setting; "unset" before the first frame
  said,        \* pieces of prose so far
  pending,     \* prose whose fate is not known
  body,        \* prose that is the answer
  sent,        \* how much of body reached the surface
  synth,       \* gateway-made steps so far
  demoted,     \* gateway-made step -> the prose it was made of
  order,       \* steps in order of appearance
  step,        \* step -> its status, "none" before it appears
  changed,     \* steps the surface has not been told of
  native,      \* the stream in use, or NoRef
  fellBack,    \* no stream is to be used any more
  ref,         \* the message to edit, or NoRef
  dirty,
  loop,        \* the ticker: "none", "running", "stopped" (by Close), "over"
  closed,      \* Close has returned
  flush,       \* flusher -> where its flush is and what it has copied
  slack,       \* the turn's messages there, with what the adapter keeps of them
  errors       \* calls that failed, on a stream and on a message

buffer  == <<activity, said, pending, body, sent, synth, demoted, order, step,
             changed>>
outlet  == <<native, fellBack, ref, dirty>>
life    == <<loop, closed>>
slackIO == <<slack, errors>>
streamVars == <<buffer, outlet, life, flush, slackIO>>

IdleFlush == [at |-> "idle", final |-> FALSE, native |-> NoRef, ref |-> NoRef,
              text |-> <<>>, lists |-> FALSE, steps |-> <<>>]
Statuses  == {"running", "done", "failed"}
Step(id)  == [id |-> id, status |-> step[id]]

StreamsInit ==
  /\ activity = "unset"
  /\ said = 0 /\ pending = <<>> /\ body = <<>> /\ sent = 0
  /\ synth = 0 /\ demoted = [n \in Synths |-> <<>>]
  /\ order = <<>> /\ step = [id \in StepIds |-> "none"] /\ changed = {}
  /\ native = NoRef /\ fellBack = FALSE /\ ref = NoRef /\ dirty = FALSE
  /\ loop = "none" /\ closed = FALSE
  /\ flush = [p \in Flushers |-> IdleFlush]
  /\ slack = <<>> /\ errors = [stream |-> 0, post |-> 0]

-----------------------------------------------------------------------------
(* The turn's frames, on the connection's goroutine *)

\* streamFor: the first frame makes the buffer and starts its ticker.
StreamFor ==
  /\ loop = "none"
  /\ loop' = "running"
  /\ activity' \in Activities
  /\ UNCHANGED <<said, pending, body, sent, synth, demoted, order, step, changed,
                 outlet, closed, flush, slackIO>>

\* The goroutine handles a frame only when it is not inside a flush or Close.
Reads == loop = "running" /\ flush["reader"].at = "idle"

\* AppendText.
AppendText ==
  /\ Reads
  /\ said < MaxText
  /\ said' = said + 1
  /\ pending' = Append(pending, said + 1)
  /\ dirty' = TRUE
  /\ UNCHANGED <<activity, body, sent, synth, demoted, order, step, changed,
                 native, fellBack, ref, life, flush, slackIO>>

\* The steps put in order by demoteLocked and its caller: pending prose becomes
\* a finished step of its own, and the caller's step follows, once.
Demotes == pending # <<>>
Prose   == IF Demotes THEN <<synth + 1>> ELSE <<>>
Listed(front, id) == order \o front \o (IF id \in Range(order) THEN <<>> ELSE <<id>>)

\* A step begins or ends, after pending prose is demoted if the caller does so.
Note(id, status, demotes, n) ==
  LET front == IF demotes THEN Prose ELSE <<>> IN
  /\ Len(Listed(front, id)) <= MaxSteps
  /\ synth' = synth + Len(front) + n
  /\ demoted' = IF front = <<>> THEN demoted
                ELSE [demoted EXCEPT ![synth + 1] = pending]
  /\ pending' = IF demotes THEN <<>> ELSE pending
  /\ order' = Listed(front, id)
  /\ step' = [s \in StepIds |-> IF s = id THEN status
                                ELSE IF s \in Range(front) THEN "done" ELSE step[s]]
  /\ changed' = changed \cup Range(front) \cup {id}
  /\ dirty' = TRUE
  /\ UNCHANGED <<activity, said, body, sent, native, fellBack, ref, life, flush,
                 slackIO>>

\* Mutant: hidden activity records steps too, out of which prose is demoted.
AlwaysShown == TRUE
\* Steps are recorded unless activity is hidden.
ShowsSteps == activity # "hidden"

Thought ==
  /\ Reads /\ ShowsSteps
  /\ Note(synth + Len(Prose) + 1, "done", TRUE, 1)

StartStep(id) ==
  /\ Reads /\ ShowsSteps
  /\ step[id] = "none"
  /\ Note(id, "running", TRUE, 0)

\* EndStep, also of a step whose start was missed.
EndStep(id, status) ==
  /\ Reads /\ ShowsSteps
  /\ step[id] \in {"none", "running"}
  /\ Note(id, status, FALSE, 0)

\* NoteStep: a call that policy denied.
NoteStep(id) ==
  /\ Reads /\ ShowsSteps
  /\ step[id] = "none"
  /\ Note(id, "failed", TRUE, 0)

-----------------------------------------------------------------------------
(* flushWith, between its locks *)

Goto(p, at) == flush' = [flush EXCEPT ![p].at = at]
EndFlush(p, final) == [IdleFlush EXCEPT !.at = IF final THEN "finish" ELSE "idle"]
Returns(p) == flush' = [flush EXCEPT ![p] = EndFlush(p, flush[p].final)]

\* Mutant: every flush goes to the surface.
NeverNothing(b) == FALSE
NothingToSend(b) == Len(b) <= sent /\ order = <<>>

\* The first section: is there anything to send, and by which way.
Collect(p, final) ==
  LET b    == IF final THEN body \o pending ELSE body
      at   == IF fellBack THEN "render" ELSE IF native = NoRef THEN "open" ELSE "take"
  IN /\ dirty \/ final
     /\ body' = b
     /\ pending' = IF final THEN <<>> ELSE pending
     /\ flush' = [flush EXCEPT ![p] =
          IF native = NoRef /\ NothingToSend(b) THEN EndFlush(p, final)
          ELSE [IdleFlush EXCEPT !.at = at, !.final = final, !.native = native]]
     /\ UNCHANGED <<activity, said, sent, synth, demoted, order, step, changed,
                    outlet, life, slackIO>>

Tick        == loop \in {"running", "stopped"} /\ flush["ticker"].at = "idle"
               /\ Collect("ticker", FALSE)
PromptFlush == Reads /\ Collect("reader", FALSE)

\* A message of the turn: its prose, whether it lists the steps, and for a
\* stream the statuses the adapter keeps and those that Slack shows.
Message(prose, lists, streams) ==
  [prose |-> prose, lists |-> lists, streams |-> streams, open |-> streams,
   slots |-> {}, status |-> [id \in StepIds |-> "none"],
   shown |-> [id \in StepIds |-> "none"], overflow |-> "none"]

\* open: a refusal latches the fallback.
OpenStream(p) ==
  /\ flush[p].at = "open"
  /\ slack' = Append(slack, Message(<<>>, FALSE, TRUE))
  /\ native' = Len(slack) + 1
  /\ ref' = Len(slack) + 1
  /\ flush' = [flush EXCEPT ![p].at = "take", ![p].native = Len(slack) + 1]
  /\ UNCHANGED <<buffer, fellBack, dirty, life, errors>>
StreamRefused(p) ==
  /\ flush[p].at = "open"
  /\ fellBack' = TRUE
  /\ Goto(p, "render")
  /\ UNCHANGED <<buffer, native, ref, dirty, life, slackIO>>

\* take: everything not yet sent, steps by their place in the order.
Unsent == {i \in DOMAIN order : order[i] \in changed}
Taken == [text  |-> SubSeq(body, sent + 1, Len(body)),
          steps |-> [i \in Unsent |-> Step(order[i])]]
Take(p) ==
  LET u == Taken  f == flush[p] IN
  /\ f.at = "take"
  /\ dirty' = FALSE
  /\ flush' = [flush EXCEPT ![p] =
       IF ~f.final /\ u.text = <<>> /\ u.steps = <<>> THEN EndFlush(p, FALSE)
       ELSE [f EXCEPT !.at = "send", !.text = u.text, !.steps = u.steps]]
  /\ UNCHANGED <<buffer, native, fellBack, ref, life, slackIO>>

\* chunksLocked: steps take a card of their own while the plan has room; the
\* others share the overflow card, which shows their aggregate.
OverflowHides(m) ==  \* mutant: a failure is not looked at
  IF \E id \in StepIds \ m.slots : m.status[id] = "running" THEN "running" ELSE "done"
Overflow(m) ==
  LET over == {m.status[id] : id \in StepIds \ m.slots} IN
  CHOOSE status \in Statuses :
    \/ status = "failed" /\ "failed" \in over
    \/ status = "running" /\ "failed" \notin over /\ "running" \in over
    \/ status = "done" /\ over \cap {"failed", "running"} = {}
Chunks(m, steps) ==
  LET ids   == [i \in DOMAIN steps |-> steps[i].id]
      new(n) == {i \in DOMAIN steps : i <= n /\ ids[i] \notin m.slots}
      fits  == {i \in DOMAIN steps : Cardinality(m.slots) + Cardinality(new(i)) < PlanCap}
      slots == m.slots \cup {ids[i] : i \in fits}
      next  == [m EXCEPT !.slots = slots,
                         !.status = [id \in StepIds |->
                           IF \E i \in DOMAIN steps : ids[i] = id
                           THEN steps[CHOOSE i \in DOMAIN steps : ids[i] = id].status
                           ELSE m.status[id]]]
  IN IF Range(ids) \subseteq slots THEN next ELSE [next EXCEPT !.overflow = Overflow(next)]

\* pushNative got the increment through, and commits.
Commits == sent' = Len(body) /\ changed' = {}
Send(p) ==
  LET f == flush[p]  m == Chunks(slack[f.native], f.steps) IN
  /\ f.at = "send"
  /\ slack' = [slack EXCEPT ![f.native] =
       [m EXCEPT !.prose = @ \o f.text, !.open = ~f.final,
                 !.shown = [id \in StepIds |-> IF \E i \in DOMAIN f.steps : f.steps[i].id = id
                                               THEN m.status[id] ELSE @[id]]]]
  /\ Commits
  /\ Returns(p)
  /\ UNCHANGED <<activity, said, pending, body, synth, demoted, order, step,
                 outlet, life, errors>>

Fails(call) ==
  /\ errors.stream + errors.post < MaxErrors
  /\ errors' = [errors EXCEPT ![call] = @ + 1]

\* flushWith goes on to the edit path when a push fails.
ReturnsAnyway(p) == Returns(p)  \* mutant: it waits for the next tick
FallsThrough(p) == Goto(p, "render")

\* pushNative was refused: the whole output goes out again as a message.  The
\* adapter keeps the update, and a refused Close has closed its stream.
Broken(p) ==
  LET f == flush[p]  m == slack[f.native] IN
  /\ f.at = "send"
  /\ Fails("stream")
  /\ slack' = [slack EXCEPT ![f.native] =
       [Chunks(m, f.steps) EXCEPT !.shown = m.shown, !.overflow = m.overflow,
                                  !.open = ~f.final]]
  /\ dirty' = TRUE /\ fellBack' = TRUE
  /\ native' = NoRef /\ ref' = NoRef /\ sent' = 0
  /\ FallsThrough(p)
  /\ UNCHANGED <<activity, said, pending, body, synth, demoted, order, step,
                 changed, life>>

\* pushEdit's first section: render the whole message.  The last one keeps the
\* activity lines only if the runner asked for it.
ListsSteps(final) == order # <<>> /\ (~final \/ activity = "full")
Render(p) ==
  LET f == flush[p]  lists == ListsSteps(f.final) IN
  /\ f.at = "render"
  /\ dirty' = FALSE
  /\ flush' = [flush EXCEPT ![p] =
       IF body = <<>> /\ ~lists THEN EndFlush(p, f.final)
       ELSE [IdleFlush EXCEPT !.at = "post", !.final = f.final, !.text = body,
                              !.lists = lists, !.ref = ref]]
  /\ UNCHANGED <<buffer, native, fellBack, ref, life, slackIO>>

\* Post or Update.
PostMessage(p) ==
  LET f == flush[p] IN
  /\ f.at = "post"
  /\ IF f.ref = NoRef
     THEN /\ slack' = Append(slack, Message(f.text, f.lists, FALSE))
          /\ ref' = Len(slack) + 1
     ELSE /\ slack' = [slack EXCEPT ![f.ref].prose = f.text, ![f.ref].lists = f.lists]
          /\ UNCHANGED ref
  /\ Commits
  /\ Returns(p)
  /\ UNCHANGED <<activity, said, pending, body, synth, demoted, order, step,
                 native, fellBack, dirty, life, errors>>
PostFails(p) ==
  /\ flush[p].at = "post"
  /\ Fails("post")
  /\ dirty' = TRUE
  /\ Returns(p)
  /\ UNCHANGED <<buffer, native, fellBack, ref, life, slack>>

-----------------------------------------------------------------------------
(* Close *)

Close ==
  /\ Reads
  /\ loop' = "stopped"
  /\ Goto("reader", "wait")
  /\ UNCHANGED <<buffer, outlet, closed, slackIO>>

\* The ticker's goroutine sees the stop between two flushes.
LoopDrains ==  \* mutant: it first waits for the buffer to be clean
  /\ loop = "stopped" /\ flush["ticker"].at = "idle" /\ ~dirty
  /\ loop' = "over"
  /\ UNCHANGED <<buffer, outlet, closed, flush, slackIO>>
LoopReturns ==
  /\ loop = "stopped" /\ flush["ticker"].at = "idle"
  /\ loop' = "over"
  /\ UNCHANGED <<buffer, outlet, closed, flush, slackIO>>

FinalFlush == loop = "over" /\ flush["reader"].at = "wait" /\ Collect("reader", TRUE)

\* HasOutput decides whether onDone has to say that there was none.
HasOutput == body # <<>> \/ pending # <<>> \/ order # <<>>
CloseReturns ==
  /\ flush["reader"].at = "finish"
  /\ closed' = TRUE
  /\ flush' = [flush EXCEPT !["reader"] = [IdleFlush EXCEPT !.at = "closed"]]
  /\ slack' = IF HasOutput THEN slack ELSE Append(slack, Message(<<>>, FALSE, FALSE))
  /\ UNCHANGED <<buffer, outlet, loop, errors>>

-----------------------------------------------------------------------------
StreamsNext ==
  \/ StreamFor
  \/ AppendText
  \/ Thought
  \/ \E id \in Calls : StartStep(id)
  \/ \E id \in Calls : NoteStep(id)
  \/ \E id \in Calls, status \in {"done", "failed"} : EndStep(id, status)
  \/ Tick
  \/ PromptFlush
  \/ \E p \in Flushers :
       \/ OpenStream(p)
       \/ StreamRefused(p)
       \/ Take(p)
       \/ Send(p)
       \/ Broken(p)
       \/ Render(p)
       \/ PostMessage(p)
       \/ PostFails(p)
  \/ Close
  \/ LoopReturns
  \/ FinalFlush
  \/ CloseReturns

\* Goroutines run, and the surface answers every call, by success or error.
Flushes(p) == OpenStream(p) \/ StreamRefused(p) \/ Take(p) \/ Send(p) \/ Broken(p)
              \/ Render(p) \/ PostMessage(p) \/ PostFails(p)
StreamsFairness ==
  /\ \A p \in Flushers : WF_streamVars(Flushes(p))
  /\ WF_streamVars(LoopReturns)
  /\ WF_streamVars(FinalFlush \/ CloseReturns)

StreamsSpec == StreamsInit /\ [][StreamsNext]_streamVars /\ StreamsFairness

-----------------------------------------------------------------------------
(* Properties *)

\* What the model said is never dropped: every piece of prose is waiting, in the
\* answer, or the text of a step, and with hidden activity, where no step is
\* shown, never in a step (demoteLocked).
ProseAccounted ==
  LET inSteps == UNION {Range(demoted[n]) : n \in Synths} IN
  /\ Range(pending) \cup Range(body) \cup inSteps = 1 .. said
  /\ \A n \in Synths : demoted[n] # <<>> => n \in Range(order)
  /\ activity = "hidden" => body \o pending = [i \in 1 .. said |-> i]

\* A closed turn has put its whole answer into one message, through a broken
\* stream, two flushes at once or a refusal, if posting messages works
\* (flushWith, pushNative, pushEdit).
AnswerShown ==
  closed /\ body # <<>> /\ errors.post = 0 =>
    \E i \in DOMAIN slack : slack[i].prose = body

\* No stream is opened for a turn that has nothing to show (flushWith).
NoBlankBubble ==
  (\E i \in DOMAIN slack : slack[i].streams) => order # <<>> \/ body # <<>>

\* A plan never outgrows the surface's cap, and its overflow card tells of a
\* failure inside it whatever happens to the other steps, as long as no append
\* fails (taskChunkLocked).
OverflowTells ==
  \A i \in DOMAIN slack : LET m == slack[i] IN
    /\ Cardinality(m.slots) < PlanCap
    /\ (\E id \in StepIds \ m.slots : m.shown[id] = "failed")
         => errors.stream > 0 \/ m.overflow = "failed"

\* Close waits for the ticker, and the ticker for the surface: it returns.
CloseEnds == loop = "stopped" ~> closed
=============================================================================
