--------------------------- MODULE ToolDispatcher ---------------------------
(***************************************************************************)
(* Chat::ToolDispatcher and the parts of ConversationRun that drive it: the *)
(* tool calls of one reply run one after the other on worker threads, their *)
(* rows are written as they start and end, and the model is asked to go on  *)
(* when all have answered.  A stop abandons the batch, not the worker.      *)
(***************************************************************************)
EXTENDS Naturals, FiniteSets, Sequences

CONSTANTS Caps,        \* values of the setting toolIterationCap, 0: unlimited
          MaxFailures, \* kMaxConsecutiveToolFailures
          MaxCalls,    \* bound: tool calls in one reply
          MaxIterations, \* bound: the counter stops here, above every cap
          MaxWorkers   \* bound: workers still busy when the user writes again

ASSUME CapsAssumption ==
  /\ Caps \subseteq Nat /\ Caps # {}
  /\ {MaxFailures, MaxCalls, MaxIterations, MaxWorkers} \subseteq Nat \ {0}
  /\ \A c \in Caps : c < MaxIterations

VARIABLES d,        \* the dispatcher
          turn,     \* the run: idle, streaming a reply, or waiting for tools
          req,      \* m_currentRequestId
          workers,  \* tool calls on worker threads
          ticks,    \* posted dispatchNext calls
          log       \* the rows of the latest assistant message

vars == <<d, turn, req, workers, ticks, log>>

\* The dispatcher after resetState; the cap is a setting and stays.
resetState(k) == [k EXCEPT !.pending = <<>>, !.parent = FALSE, !.iterations = 0,
                           !.failures = 0, !.req = 0]

Init == /\ d \in {[pending |-> <<>>, parent |-> FALSE, iterations |-> 0,
                   failures |-> 0, req |-> 0, cap |-> c] : c \in Caps}
        /\ turn = "idle" /\ req = 0 /\ workers = {} /\ ticks = 0 /\ log = <<>>

iterationCapReached(k) == k.cap > 0 /\ k.iterations >= k.cap
failureCapReached(k) == k.failures >= MaxFailures

\* nextGlobalRequestId(): ids nobody refers to are as good as new ones.
nextGlobalRequestId ==
  CHOOSE i \in 1..(Cardinality(workers) + 2) :
    i # d.req /\ \A w \in workers : w.req # i

---------------------------------------------------------------------------

\* A call leaves the queue and is counted; beyond the largest cap the count
\* makes no difference.
takeFirst(k) == [k EXCEPT !.pending = Tail(@),
                          !.iterations = IF @ < MaxIterations THEN @ + 1 ELSE @]

dispatchNextAhead(k) ==
  CASE k.pending = <<>> -> [k |-> k, ran |-> FALSE]
    [] k.pending # <<>> /\ ~k.parent ->
         [k |-> [k EXCEPT !.pending = <<>>], ran |-> FALSE]
    [] OTHER -> [k |-> takeFirst(k), ran |-> TRUE]

\* The next call of the batch, or the batch given up.
dispatchNext(k) ==
  CASE k.pending = <<>> -> [k |-> k, ran |-> FALSE]
    [] k.pending # <<>> /\ ~k.parent ->
         [k |-> [k EXCEPT !.pending = <<>>], ran |-> FALSE]
    [] k.pending # <<>> /\ k.parent /\ iterationCapReached(k) ->
         [k |-> [k EXCEPT !.pending = <<>>, !.parent = FALSE], ran |-> FALSE]
    [] OTHER -> [k |-> takeFirst(k), ran |-> TRUE]

\* dispatchNext as a step: a call that runs has its row written first.  The
\* run only logs batchFailed.
Dispatch(k) ==
  LET n == dispatchNext(k)
  IN  /\ d' = n.k
      /\ IF n.ran
         THEN /\ workers' = workers \cup {[req |-> k.req, call |-> Head(k.pending)]}
              /\ log' = Append(log, [row |-> "call", call |-> Head(k.pending)])
         ELSE UNCHANGED <<workers, log>>

\* A request goes out: the next reply starts a message of its own.
NewReply(k) == /\ d' = k
               /\ turn' = "streaming"
               /\ req' = nextGlobalRequestId
               /\ log' = <<>>

EndTurn(k) == /\ d' = resetState(k)
              /\ turn' = "idle"
              /\ req' = 0
              /\ log' = <<>>

\* sendMessage
UserTurn ==
  /\ turn = "idle" /\ Cardinality(workers) < MaxWorkers
  /\ NewReply(resetState(d))
  /\ UNCHANGED <<workers, ticks>>

\* onChunkReceived with a tool call.  A posted timer fires before a provider
\* answers what was sent after it.
Chunk ==
  /\ turn = "streaming" /\ ticks = 0 /\ Len(d.pending) < MaxCalls
  /\ d' = [d EXCEPT !.pending = Append(@, Len(@) + 1)]
  /\ UNCHANGED <<turn, req, workers, ticks, log>>

\* onRequestFinished: the setting is read again; without calls, or over a cap,
\* or with the narration of the previous reply, the member's turn ends.  A reply
\* that only announces work is followed by a continuation on the same counts.
RequestFinished(cap, echo) ==
  /\ turn = "streaming" /\ ticks = 0
  /\ LET k == [d EXCEPT !.cap = cap]
     IN  IF k.pending = <<>> \/ echo \/ iterationCapReached(k) \/ failureCapReached(k)
         THEN /\ \/ EndTurn(k)
                 \/ NewReply(resetState(k))
                 \/ k.pending = <<>> /\ NewReply(k)
              /\ UNCHANGED <<workers, ticks>>
         ELSE /\ Dispatch([k EXCEPT !.parent = TRUE, !.req = req])
              /\ turn' = "tools"
              /\ UNCHANGED <<req, ticks>>

countOneFailure(ok) == [d EXCEPT !.failures = IF ok THEN 0 ELSE 1]

\* Consecutive failures are counted; a success starts the count again.
countResult(ok) == [d EXCEPT !.failures = IF ok THEN 0 ELSE @ + 1]

drainedOnFailure(k) == k.pending = <<>> \/ k.failures > 0

\* The batch has no call left to run.
drained(k) == k.pending = <<>>

staleNever(w) == FALSE

\* The request-lifetime guard: the batch the call belonged to is gone.
stale(w) == d.req # w.req

\* The watcher of a finished call.
ToolFinished(w, ok) ==
  /\ workers' = workers \ {w}
  /\ IF stale(w) THEN UNCHANGED <<d, turn, req, ticks, log>>
     ELSE LET k == countResult(ok)
              done == [k EXCEPT !.parent = FALSE, !.req = 0]
              answered == Append(log, [row |-> "result", call |-> w.call])
          IN  IF ~drained(k)
              THEN /\ d' = k /\ ticks' = ticks + 1 /\ log' = answered
                   /\ UNCHANGED <<turn, req>>
              ELSE /\ \/ NewReply(done)
                      \/ NewReply(resetState(done))
                   /\ UNCHANGED ticks

\* The posted dispatchNext, which belongs to no batch in particular.
Tick ==
  /\ ticks > 0
  /\ ticks' = ticks - 1
  /\ Dispatch(d)
  /\ UNCHANGED <<turn, req>>

\* stopGeneration
Stop ==
  /\ turn # "idle"
  /\ EndTurn(d)
  /\ UNCHANGED <<workers, ticks>>

AnyToolFinishes == \E w \in workers, ok \in BOOLEAN : ToolFinished(w, ok)
AnyReplyEnds == \E c \in Caps, echo \in BOOLEAN : RequestFinished(c, echo)

Next == \/ UserTurn \/ Chunk \/ Tick \/ Stop
        \/ AnyReplyEnds \/ AnyToolFinishes

\* Replies end and tools return (both have timeouts), timers fire.
FairSpec == /\ Init /\ [][Next]_vars
            /\ WF_vars(Tick) /\ WF_vars(AnyReplyEnds) /\ WF_vars(AnyToolFinishes)

Spec == Init /\ [][Next]_vars

---------------------------------------------------------------------------
\* Properties

\* The dispatcher's members have the values the class gives them.
TypeOK ==
  /\ d.pending \in Seq(1..MaxCalls) /\ d.parent \in BOOLEAN /\ d.cap \in Caps
  /\ d.iterations \in Nat /\ d.failures \in 0..(MaxFailures + MaxCalls - 1)
  /\ turn \in {"idle", "streaming", "tools"} /\ ticks \in Nat

\* tool-dispatcher.cpp:676-681: a tool row lands directly after the call it
\* answers, and the calls run in the order the model gave them.
ResultsPairUp ==
  \A i \in 1..Len(log) :
    /\ log[i].row = (IF i % 2 = 1 THEN "call" ELSE "result")
    /\ log[i].call = (i + 1) \div 2

\* tool-dispatcher.h:164-171, 194-199: the budget holds over all batches of a turn,
\* and also inside one batch.  Failures in a row are tested between batches only:
\* they pass their cap by no more than the calls of the last batch.
BudgetHolds ==
  turn = "tools" => /\ d.cap > 0 => d.iterations <= d.cap
                    /\ d.failures + Len(d.pending) < MaxFailures + MaxCalls

\* conversation-run.cpp:1536-1539: a new reply is asked for only when every
\* call of the batch has its row and its answer.
AllAnswered ==
  [][turn = "tools" /\ turn' = "streaming"
       => /\ d.pending = <<>>
          /\ Len(log) % 2 = 1 /\ log[Len(log)].row = "call"]_vars

ToolSucceeds == \E w \in workers : ToolFinished(w, TRUE)
\* Another request without a batch (a continuation, a retry, the next member),
\* or a batch that hands the turn to a member.
RoutedAgain == \/ turn = "streaming" /\ turn' = "streaming" /\ d'.pending = <<>>
               \/ turn = "tools" /\ turn' = "streaming" /\ d'.iterations = 0

\* tool-dispatcher.h:194-199: "a broken tool retried forever" ends the turn even
\* without a budget: a turn goes on only while tools succeed or the cascade, which
\* bounds the turns it adds, routes it again.
FailingToolsEnd ==
  \/ []<><<ToolSucceeds \/ RoutedAgain>>_vars
  \/ (turn # "idle" /\ d.cap = 0) ~> (turn = "idle" \/ d.cap # 0)

\* tool-dispatcher.cpp:367-368: "Every early exit reports the abort, otherwise
\* the turn stays open forever".  A turn that waits for tools has one running
\* or about to run.
NotLeftOpen ==
  turn = "tools" => ticks > 0 \/ \E w \in workers : w.req = d.req
=============================================================================
