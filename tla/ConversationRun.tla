-------------------------- MODULE ConversationRun --------------------------
(***************************************************************************)
(* The life of a turn: Chat::ConversationRun composed with the provider    *)
(* scheduler it acquires slots from, the model router that reports back to *)
(* it, its agent executor and the session router that wakes it up.  Every  *)
(* run is the active run of a session of its own.                          *)
(*                                                                         *)
(* All of this code runs on the main thread.  A handler is an operator on  *)
(* the whole state; Qt's direct signals are calls, so a handler that emits *)
(* one in its middle leaves what it still has to do on the stack `calls'.  *)
(* QTimer::singleShot(0) posts to the event loop, a FIFO.  The cascade's   *)
(* and the tool dispatcher's decisions are inputs here; CascadeController  *)
(* and ToolDispatcher model how they are made.                             *)
(***************************************************************************)
EXTENDS ProviderBuckets, FiniteSets, SequencesExt

CONSTANTS Runs, Providers,
          None,              \* an empty provider id
          Features,          \* the kinds of event that happen in an instance
          MaxContinuations,  \* bound: turns a cascade adds to a user's turn
          MaxPosted          \* bound: timers pending when the user acts again

ASSUME RunsAssumption ==
  IsFiniteSet(Runs) /\ IsFiniteSet(Providers) /\ None \notin Providers

VARIABLES run,     \* the members of every ConversationRun
          states,  \* the scheduler's buckets
          wire,    \* per provider, the run whose request it works on
          anchor,  \* the application's one task gate has an active plan
          posted,  \* zero timers in the order they will fire
          calls    \* unfinished synchronous calls, innermost first

vars == <<run, states, wire, anchor, posted, calls>>

Sys == [run |-> run, states |-> states, wire |-> wire, anchor |-> anchor,
        posted |-> posted, calls |-> calls]

Become(S) == \E T \in {S} :
               /\ run' = T.run /\ states' = T.states /\ wire' = T.wire
               /\ anchor' = T.anchor /\ posted' = T.posted /\ calls' = T.calls

\* A ConversationRun as constructed.
NewRun ==
  [alive |-> TRUE,
   gen |-> FALSE,          \* m_isGenerating
   inflight |-> FALSE,     \* m_inflightConvId is set
   req |-> 0,              \* m_currentRequestId, 0 for none
   relay |-> None,         \* the provider with the router's relay for req
   held |-> None,          \* m_schedulerHeldProviderId
   waiting |-> None,       \* m_schedulerQueuedProviderId
   stream |-> FALSE,       \* m_streaming->isStreaming()
   queued |-> FALSE,       \* m_queuedUserText is set
   usingAgent |-> FALSE,   \* m_usingAgent
   exec |-> None,          \* the provider m_ownAgent runs on
   cancelled |-> FALSE,    \* m_userCancelledInFlight
   query |-> "none",       \* m_pendingTurn, with a live m_pendingQueryId
   batch |-> FALSE,        \* the dispatcher works on a batch of this turn
   confirm |-> 0,          \* reqAtKick of the intent confirmer's watcher
   verdict |-> 0,          \* requestId of a classification or held reply
   stopped |-> FALSE,      \* history: the user stopped this very turn
   summary |-> FALSE,      \* m_summaryWantedThisCascade
   reactions |-> 0,        \* m_pendingSubagentReactions
   left |-> 0]             \* continuations the cascade may still add

Init == /\ run = [c \in Runs |-> NewRun]
        /\ states = [p \in Providers |-> ProviderState]
        /\ wire = [p \in Providers |-> None]
        /\ anchor = FALSE
        /\ posted = <<>>
        /\ calls = <<>>

---------------------------------------------------------------------------
\* Scheduler slots

\* nextGlobalRequestId(): ids are only compared for equality, so an id that
\* nothing still refers to is as good as a new one.
Captured(S, c) ==
  {S.posted[i].req : i \in {j \in DOMAIN S.posted :
                              S.posted[j].k = "grant" /\ S.posted[j].c = c}}
  \cup (UNION {{S.states[p].queue[i].onGranted.req :
                  i \in {j \in DOMAIN S.states[p].queue :
                           S.states[p].queue[j].waiterId = c}} : p \in Providers})
  \cup {S.calls[i].req : i \in {j \in DOMAIN S.calls : S.calls[j].c = c}}
  \cup {S.run[c].confirm, S.run[c].verdict}

nextGlobalRequestId(S, c) ==
  CHOOSE i \in 1..(Cardinality(Captured(S, c)) + 1) :
    /\ i \notin Captured(S, c)
    /\ \A j \in 1..(i - 1) : j \in Captured(S, c)

\* The callback release() posts for the head of the queue.
Grant(p, waiter) == [k |-> "grant", c |-> waiter.waiterId, p |-> p,
                     req |-> waiter.onGranted.req, agent |-> waiter.onGranted.agent]

releaseTwice(S, c) ==
  LET p == S.run[c].held
  IN  IF p = None THEN S
      ELSE [S EXCEPT !.states[p] = release(@),
                     !.posted = IF GrantsOnRelease(S.states[p])
                                THEN Append(@, Grant(p, Head(S.states[p].queue)))
                                ELSE @]

\* Idempotent: the hold is cleared before the slot is given back.
releaseProviderSlotIfHeld(S, c) ==
  LET p == S.run[c].held
  IN  IF p = None THEN S
      ELSE [S EXCEPT !.run[c].held = None,
                     !.states[p] = release(@),
                     !.posted = IF GrantsOnRelease(S.states[p])
                                THEN Append(@, Grant(p, Head(S.states[p].queue)))
                                ELSE @]

cancelQueuedSchedulerWaiter(S, c) ==
  IF S.run[c].waiting = None THEN S
  ELSE [S EXCEPT !.run[c].waiting = None,
                 !.states = [p \in Providers |-> cancel(S.states[p], c)]]

---------------------------------------------------------------------------
\* Becoming idle

Call(k, c, req) == [k |-> k, c |-> c, req |-> req]
Push(S, frames) == [S EXCEPT !.calls = frames \o @]

\* SessionRouter's slotAvailable, sent when the last generating session stops:
\* onSlotAvailable of every run is called before the sender's emit returns.
slotAvailable == [i \in 1..Cardinality(Runs) |-> Call("slot", SetToSeq(Runs)[i], 0)]

\* m_isGenerating = false; emit isGeneratingChanged().
becomeIdle(S, c) ==
  LET T == [S EXCEPT !.run[c].gen = FALSE]
  IN  IF S.run[c].gen /\ \A d \in Runs : ~T.run[d].gen
      THEN Push(T, slotAvailable) ELSE T

\* drainPendingSubagentReactions
drainPendingSubagentReactions(S, c) ==
  IF S.run[c].reactions = 0 \/ S.run[c].gen THEN S
  ELSE [S EXCEPT !.run[c].reactions = @ - 1,
                 !.posted = Append(@, [k |-> "react", c |-> c])]

\* onRequestError for the current request.
onRequestError(S, c) ==
  IF S.run[c].usingAgent THEN S
  ELSE LET T == releaseProviderSlotIfHeld(S, c)
       IN  becomeIdle([T EXCEPT !.run[c] =
             [@ EXCEPT !.stream = FALSE, !.inflight = FALSE, !.req = 0,
                       !.relay = None, !.batch = FALSE]], c)

\* The agent's finished and errorOccurred lambdas.
onAgentTerminal(S, c) ==
  IF ~S.run[c].usingAgent THEN S
  ELSE becomeIdle(releaseProviderSlotIfHeld([S EXCEPT !.run[c] =
         [@ EXCEPT !.stream = FALSE, !.usingAgent = FALSE, !.inflight = FALSE,
                   !.req = 0, !.relay = None]], c), c)

---------------------------------------------------------------------------
\* Building and dispatching a request.  x holds what the code asks of others:
\* the pattern, recall, the built request and its provider.

Opt(feature) == IF feature \in Features THEN BOOLEAN ELSE {FALSE}

Inputs == [p : Providers, agent : Opt("agent"), memory : Opt("memory"),
           failed : Opt("fail"), unroutable : Opt("fail"),
           summarize : IF "summary" \in Features THEN {"no", "later", "now"} ELSE {"no"}, planGone : Opt("plan")]

\* ModelRouter::route wires a relay and sends, replacing whatever the provider
\* was working on; without a provider the error is reported at once.
doRoute(S, c, p, x) ==
  LET T == [S EXCEPT !.run[c].held = p, !.run[c].waiting = None]
  IN  IF x.unroutable THEN onRequestError(T, c)
      ELSE [T EXCEPT !.run[c].relay = p, !.wire[p] = c]

dispatchThroughScheduler(S, c, x) ==
  LET T == releaseProviderSlotIfHeld(S, c)
      a == acquire(T.states[x.p], c, [req |-> T.run[c].req, agent |-> FALSE])
      U == [T EXCEPT !.states[x.p] = a.st]
  IN  IF a.granted THEN doRoute(U, c, x.p, x)
      ELSE [U EXCEPT !.run[c].waiting = x.p]

\* What a build leaves in the run: the anchor dropped, and a summary deferred
\* to the idle gap unless the window is so full that it starts now.
noteSummaryDecision(S, c, x) ==
  [S EXCEPT !.anchor = @ /\ ~x.planGone,
            !.run[c].summary = CASE x.failed \/ x.summarize = "no" -> @
                                 [] OTHER -> x.summarize = "later"]

buildAndDispatchDirect(S, c, x) ==
  LET T == noteSummaryDecision(S, c, x)
  IN  IF x.failed THEN onRequestError(T, c) ELSE dispatchThroughScheduler(T, c, x)

\* A new id abandons the relay of the old one: its signals are stale.
buildAndSendRequest(S, c, x) ==
  LET T == [S EXCEPT !.run[c] = [@ EXCEPT !.inflight = TRUE, !.relay = None,
                                          !.req = nextGlobalRequestId(S, c)]]
  IN  IF x.memory THEN [T EXCEPT !.run[c].query = "direct"]
      ELSE buildAndDispatchDirect(T, c, x)

\* AgentService::execute, a no-op while it runs.
execute(S, c, p, x) ==
  LET T == [S EXCEPT !.run[c].held = p]
  IN  IF S.run[c].exec # None THEN T
      ELSE IF x.unroutable THEN onAgentTerminal(T, c)
      ELSE [T EXCEPT !.run[c].exec = p, !.wire[p] = c]

dispatchAgentTurn(S, c, x) ==
  LET T == noteSummaryDecision(S, c, x)
      a == acquire(T.states[x.p], c, [req |-> T.run[c].req, agent |-> TRUE])
      U == [T EXCEPT !.states[x.p] = a.st]
  IN  IF x.failed THEN onRequestError([T EXCEPT !.run[c].usingAgent = FALSE], c)
      ELSE IF a.granted THEN execute(U, c, x.p, x)
      ELSE [U EXCEPT !.run[c].waiting = x.p]

\* The turn a message starts on an idle run; a busy one keeps it for later.
sendMessage(S, c, x) ==
  IF S.run[c].gen THEN [S EXCEPT !.run[c].queued = TRUE]
  ELSE LET T == [S EXCEPT !.run[c] =
                   [@ EXCEPT !.batch = FALSE, !.stream = TRUE, !.inflight = TRUE,
                             !.gen = TRUE, !.stopped = FALSE,
                             !.left = MaxContinuations]]
           A == [T EXCEPT !.run[c] = [@ EXCEPT !.usingAgent = TRUE, !.relay = None,
                                               !.req = nextGlobalRequestId(T, c)]]
       IN  IF ~x.agent THEN buildAndSendRequest(T, c, x)
           ELSE IF x.memory THEN [A EXCEPT !.run[c].query = "agent"]
           ELSE dispatchAgentTurn(A, c, x)

---------------------------------------------------------------------------
\* The cascade's answers: another member's turn, a retry, a continuation, the
\* end of the cascade, or a verdict that comes later.

postBuild(S, c) ==
  [S EXCEPT !.run[c].stream = TRUE, !.run[c].left = @ - 1,
            !.posted = Append(@, [k |-> "build", c |-> c])]

onCascadeMemberTurnStarted(S, c) ==
  IF ~S.run[c].inflight THEN S
  ELSE postBuild([S EXCEPT !.run[c].batch = FALSE], c)

onCascadeEchoDetectedRequestRetry(S, c) ==
  postBuild([S EXCEPT !.run[c].batch = FALSE], c)

\* The part up to the emit; the rest waits until slotAvailable's calls return.
onCascadeComplete(S, c, x) ==
  LET T == [Push(S, <<Call("tail", c, 0)>>) EXCEPT !.run[c] =
              [@ EXCEPT !.stream = FALSE, !.batch = FALSE, !.inflight = FALSE,
                        !.req = 0, !.relay = None],
              !.anchor = @ /\ ~x.planGone]
  IN  becomeIdle(T, c)

\* forceCascadeComplete: a continued round starts another member instead.
forceCascadeComplete(S, c, k, x) ==
  IF k = "member" THEN onCascadeMemberTurnStarted(S, c)
  ELSE onCascadeComplete(S, c, x)

onCascadeDeferredContinuationRequested(S, c, x) ==
  CASE ~S.run[c].inflight -> S
    [] S.run[c].queued -> forceCascadeComplete(S, c, "done", x)
    [] OTHER -> postBuild(S, c)

\* What routeOrFinalize comes to.
routeOrFinalize(S, c, k, x) ==
  CASE k = "member" -> onCascadeMemberTurnStarted(S, c)
    [] k = "retry" -> onCascadeEchoDetectedRequestRetry(S, c)
    [] k = "continue" -> onCascadeDeferredContinuationRequested(S, c, x)
    [] k = "verdict" -> [S EXCEPT !.run[c].verdict = S.run[c].req,
                                   !.run[c].left = @ - 1]
    [] k = "done" -> onCascadeComplete(S, c, x)

\* The answers possible now; the cascade's own caps bound the added turns.
Answers(c) ==
  {"done"} \cup IF run[c].left <= 0 THEN {}
                ELSE (Features \cap {"member", "retry", "continue"})
                     \cup IF run[c].verdict = 0 THEN Features \cap {"verdict"} ELSE {}

finishTurnRouting(S, c, k, x) ==
  IF S.run[c].queued
  THEN forceCascadeComplete(S, c, k, x)
  ELSE routeOrFinalize(S, c, k, x)

---------------------------------------------------------------------------
\* The router's signals

\* onRequestFinished for the current request; o is how the reply ended.
onRequestFinished(S, c, o, k, x) ==
  LET T == releaseProviderSlotIfHeld([S EXCEPT !.run[c].relay = None], c)
      U == [T EXCEPT !.run[c].cancelled = FALSE]
  IN  CASE S.run[c].usingAgent -> [S EXCEPT !.run[c].relay = None]
        [] ~S.run[c].usingAgent /\ ~S.run[c].stream -> T
        [] ~S.run[c].usingAgent /\ S.run[c].stream
             /\ S.run[c].cancelled /\ S.anchor ->
             becomeIdle([U EXCEPT !.run[c] = [@ EXCEPT !.stream = FALSE, !.batch = FALSE],
                                  !.anchor = FALSE], c)
        [] OTHER ->
             CASE o = "tools" -> [U EXCEPT !.run[c].stream = FALSE,
                                              !.run[c].batch = TRUE, !.run[c].left = @ - 1]
               [] o = "cap" -> forceCascadeComplete(
                                 [U EXCEPT !.run[c].batch = FALSE], c, k, x)
               [] o = "confirm" -> [U EXCEPT !.run[c].confirm = U.run[c].req]
               [] o = "reply" -> finishTurnRouting(U, c, k, x)

Outcomes(c) == {"reply"} \cup (Features \cap {"cap"})
               \cup IF run[c].left <= 0 THEN {}
                    ELSE (Features \cap {"tools", "confirm"})

---------------------------------------------------------------------------
\* stopGeneration and teardown

\* AgentService::cancel cancels the router's request and emits finished.
cancelAgent(S, c) ==
  onAgentTerminal([S EXCEPT !.wire[S.run[c].exec] = None, !.run[c].exec = None], c)

\* A provider aborts a cancelled request without a terminal signal.
stopGeneration(S, c) ==
  LET T == [S EXCEPT !.run[c] = [@ EXCEPT !.query = "none", !.queued = FALSE]]
      U == releaseProviderSlotIfHeld(cancelQueuedSchedulerWaiter(
             [T EXCEPT !.run[c].cancelled = TRUE, !.run[c].stopped = TRUE], c), c)
      p == S.run[c].relay
      V == IF p = None THEN U ELSE [U EXCEPT !.wire[p] = None]
  IN  CASE ~S.run[c].gen -> T
        [] S.run[c].gen /\ S.run[c].usingAgent /\ S.run[c].exec # None ->
             cancelAgent(U, c)
        [] OTHER ->
             becomeIdle([V EXCEPT !.run[c] =
               [@ EXCEPT !.stream = FALSE, !.inflight = FALSE, !.req = 0,
                         !.relay = None, !.batch = FALSE]], c)

\* ~ConversationRun: its timers, still in the event loop, will do nothing.
destroyRun(S, c) ==
  LET T == cancelQueuedSchedulerWaiter(releaseProviderSlotIfHeld(S, c), c)
  IN  [T EXCEPT !.run[c] = [NewRun EXCEPT !.alive = FALSE]]

cascadeTailKeepsText(S, c, x) ==
  IF S.run[c].queued THEN sendMessage(S, c, x)
  ELSE drainPendingSubagentReactions([S EXCEPT !.run[c].summary = FALSE], c)

\* onCascadeComplete after its emit.
cascadeTail(S, c, x) ==
  IF S.run[c].queued
  THEN sendMessage([S EXCEPT !.run[c].queued = FALSE], c, x)
  ELSE drainPendingSubagentReactions([S EXCEPT !.run[c].summary = FALSE], c)

\* onSlotAvailable: drainQueuedSendIfPossible, then the reactions.
onSlotAvailable(S, c, x) ==
  IF S.run[c].queued /\ ~S.run[c].gen
  THEN sendMessage(Push([S EXCEPT !.run[c].queued = FALSE],
                        <<Call("drain", c, 0)>>), c, x)
  ELSE drainPendingSubagentReactions(S, c)

---------------------------------------------------------------------------
\* Steps

\* The innermost call continues.
Return ==
  /\ calls # <<>>
  /\ LET f == Head(calls)
         S == [Sys EXCEPT !.calls = Tail(@)]
         c == f.c
     IN  \E x \in Inputs :
           CASE ~run[c].alive -> Become(S)
             [] run[c].alive /\ f.k = "slot" -> Become(onSlotAvailable(S, c, x))
             [] run[c].alive /\ f.k = "drain" ->
                  Become(drainPendingSubagentReactions(S, c))
             [] run[c].alive /\ f.k = "tail" -> Become(cascadeTail(S, c, x))
             [] run[c].alive /\ f.k = "finished" ->
                  IF f.req = 0 \/ f.req # run[c].req THEN Become(S)
                  ELSE \E o \in Outcomes(c), k \in Answers(c) :
                         Become(onRequestFinished(S, c, o, k, x))
             [] run[c].alive /\ f.k = "errored" ->
                  IF f.req = 0 \/ f.req # run[c].req THEN Become(S)
                  ELSE Become(onRequestError([S EXCEPT !.run[c].relay = None], c))
             [] run[c].alive /\ f.k = "dtor" -> Become(destroyRun(S, c))

\* The posted grant, from dispatchThroughScheduler or dispatchAgentTurn.
onGrantedWhileQueued(S, e, x) ==
  LET c == e.c
  IN  CASE ~S.run[c].alive -> S
        [] S.run[c].alive /\ S.run[c].waiting # None ->
             releaseProviderSlotIfHeld([S EXCEPT !.run[c].held = e.p], c)
        [] OTHER -> doRoute(S, c, e.p, x)

onGranted(S, e, x) ==
  LET c == e.c
      stale == \/ S.run[c].req # e.req
               \/ ~S.run[c].gen
               \/ e.agent /\ ~S.run[c].usingAgent
      T == [S EXCEPT !.run[c].waiting = None]
  IN  CASE ~S.run[c].alive -> S
        [] S.run[c].alive /\ stale ->
             releaseProviderSlotIfHeld([S EXCEPT !.run[c].held = e.p], c)
        [] S.run[c].alive /\ ~stale /\ e.agent -> execute(T, c, e.p, x)
        [] OTHER -> doRoute(T, c, e.p, x)

\* dispatchSubagentReaction, also when a heartbeat service calls it.
dispatchSubagentReaction(S, c) ==
  IF S.run[c].gen THEN [S EXCEPT !.run[c].reactions = 1]
  ELSE [S EXCEPT !.run[c] =
          [@ EXCEPT !.inflight = TRUE, !.req = nextGlobalRequestId(S, c),
                    !.relay = None, !.batch = FALSE, !.stream = TRUE,
                    !.gen = TRUE, !.stopped = FALSE, !.left = MaxContinuations],
          !.posted = Append(@, [k |-> "build", c |-> c])]

\* The event loop fires the oldest zero timer.  One whose context object is
\* destroyed does nothing; a posted grant has none and is called.
FireTimer ==
  /\ calls = <<>> /\ posted # <<>>
  /\ LET e == Head(posted)
         S == [Sys EXCEPT !.posted = Tail(@)]
     IN  \E x \in Inputs :
           CASE e.k = "grant" -> Become(onGranted(S, e, x))
             [] e.k = "build" /\ run[e.c].alive -> Become(buildAndSendRequest(S, e.c, x))
             [] e.k = "react" /\ run[e.c].alive ->
                  Become(dispatchSubagentReaction(S, e.c))
             [] OTHER -> Become(S)

\* A provider ends its request: every relay wired to it reports its own id.
ProviderReports(p, k) ==
  /\ calls = <<>> /\ wire[p] # None
  /\ ~\E c \in Runs : run[c].exec = p /\ wire[p] = c
  /\ LET awaiting == SetToSeq({c \in Runs : run[c].relay = p})
         frames == [i \in 1..Len(awaiting) |->
                      Call(k, awaiting[i], run[awaiting[i]].req)]
     IN  Become([Push(Sys, frames) EXCEPT !.wire[p] = None])

RequestFinished(p) == ProviderReports(p, "finished")
RequestError(p) == "fail" \in Features /\ ProviderReports(p, "errored")

AgentTerminal(c) ==
  /\ calls = <<>> /\ run[c].exec # None
  /\ LET p == run[c].exec
     IN  Become(onAgentTerminal([Sys EXCEPT !.run[c].exec = None,
                  !.wire[p] = IF @ = c THEN None ELSE @], c))

MemoryRetrievalReady(c) ==
  /\ calls = <<>> /\ run[c].query # "none"
  /\ \E x \in Inputs :
       LET S == [Sys EXCEPT !.run[c].query = "none"]
       IN  IF run[c].query = "direct" THEN Become(buildAndDispatchDirect(S, c, x))
           ELSE Become(dispatchAgentTurn(S, c, x))

\* onToolBatchCompleted: yield to a queued member, or continue this one.  The
\* batch may have started a task, or ended one.
ToolBatchCompleted(c) ==
  /\ calls = <<>> /\ run[c].batch
  /\ \E a \in {anchor} \cup Opt("plan") :
     LET S == [Sys EXCEPT !.run[c].batch = FALSE, !.anchor = a]
     IN  \/ /\ "member" \in Features
            /\ run[c].left > 0
            /\ Become(onCascadeMemberTurnStarted(S, c))
         \/ \E x \in Inputs :
              Become(buildAndSendRequest([S EXCEPT !.run[c].stream = TRUE], c, x))

\* The intent confirmer's watcher, dropped when the turn has moved on.
ConfirmerFinished(c) ==
  /\ calls = <<>> /\ run[c].confirm # 0
  /\ LET S == [Sys EXCEPT !.run[c].confirm = 0]
     IN  IF run[c].confirm # run[c].req THEN Become(S)
         ELSE \/ Become(postBuild(S, c))
              \/ \E k \in Answers(c), x \in Inputs :
                   Become(finishTurnRouting(S, c, k, x))

\* The classification's watcher, or the voice hold's release.  Neither looks
\* at the request the verdict was asked for.
VerdictReady(c) ==
  /\ calls = <<>> /\ run[c].verdict # 0
  /\ \E k \in Answers(c) \ {"verdict"}, x \in Inputs :
       Become(routeOrFinalize([Sys EXCEPT !.run[c].verdict = 0], c, k, x))

Calm == calls = <<>> /\ Len(posted) < MaxPosted

Send(c) ==
  /\ Calm /\ run[c].alive
  /\ run[c].gen => "queue" \in Features /\ ~run[c].queued
  /\ \E x \in Inputs : Become(sendMessage(Sys, c, x))

Stop(c) ==
  /\ Calm /\ "stop" \in Features /\ run[c].alive /\ run[c].gen
  /\ Become(stopGeneration(Sys, c))

Reaction(c) ==
  /\ Calm /\ "react" \in Features /\ run[c].alive
  /\ Become(dispatchSubagentReaction(Sys, c))

\* resumeAfterImageGenerated
ImageGenerated(c) ==
  /\ Calm /\ "image" \in Features /\ run[c].alive
  /\ ~run[c].gen /\ ~run[c].queued
  /\ Become([Sys EXCEPT !.run[c] =
       [@ EXCEPT !.stream = TRUE, !.inflight = TRUE, !.gen = TRUE,
                 !.stopped = FALSE, !.left = MaxContinuations],
       !.posted = Append(@, [k |-> "build", c |-> c])])

\* onExternalTaskStarted
TaskStarted(c) ==
  /\ Calm /\ "plan" \in Features /\ run[c].alive /\ ~run[c].gen
  /\ \E x \in Inputs :
       Become(buildAndSendRequest([Sys EXCEPT !.run[c] =
         [@ EXCEPT !.batch = FALSE, !.stream = TRUE, !.gen = TRUE,
                   !.stopped = FALSE, !.left = MaxContinuations],
         !.anchor = TRUE], c, x))

\* stopPlan closes the plan first, which clears the anchor: the slot of every
\* run, onExternalPlanStopped, then finds another plan or none.
PlanStopped ==
  /\ Calm /\ "plan" \in Features /\ "stop" \in Features /\ anchor
  /\ Become([Sys EXCEPT !.anchor = FALSE])

\* onExternalAllPlansStoppedInConversation
AllPlansStopped(c) ==
  /\ Calm /\ "plan" \in Features /\ "stop" \in Features /\ run[c].alive
  /\ LET S == [Sys EXCEPT !.anchor = FALSE]
     IN  Become(IF run[c].gen /\ run[c].inflight THEN stopGeneration(S, c) ELSE S)

\* destroySession tells the router first, then deletes the run.
DestroySession(c) ==
  /\ Calm /\ "destroy" \in Features /\ run[c].alive
  /\ LET S == Push(Sys, <<Call("dtor", c, 0)>>)
     IN  Become(IF run[c].gen /\ \A d \in Runs \ {c} : ~run[d].gen
                THEN Push(S, slotAvailable) ELSE S)

\* A deleted conversation's run is stopped before it is destroyed.
DeleteConversation(c) ==
  /\ Calm /\ "delete" \in Features /\ run[c].alive
  /\ LET S == Push(Sys, <<Call("dtor", c, 0)>>)
     IN  Become(IF run[c].gen THEN stopGeneration(S, c) ELSE S)

\* The workers a turn may wait for.
WorkerAnswers(c) == \/ AgentTerminal(c) \/ MemoryRetrievalReady(c)
                    \/ ToolBatchCompleted(c) \/ ConfirmerFinished(c) \/ VerdictReady(c)

Next == \/ Return
        \/ FireTimer
        \/ PlanStopped
        \/ \E p \in Providers : RequestFinished(p) \/ RequestError(p)
        \/ \E c \in Runs :
             \/ WorkerAnswers(c)
             \/ Send(c) \/ Stop(c) \/ Reaction(c) \/ ImageGenerated(c)
             \/ TaskStarted(c) \/ AllPlansStopped(c)
             \/ DestroySession(c) \/ DeleteConversation(c)

\* Calls return; the event loop, back from one handler, serves a source that
\* stays ready whatever else becomes ready; providers and workers answer (each
\* has a timeout of its own).  Nothing obliges a user to act.
Fairness == /\ WF_vars(Return) /\ SF_vars(FireTimer)
            /\ \A p \in Providers : SF_vars(RequestFinished(p) \/ RequestError(p))
            /\ \A c \in Runs : SF_vars(WorkerAnswers(c))

Spec == Init /\ [][Next]_vars
FairSpec == Spec /\ Fairness

---------------------------------------------------------------------------
\* Properties.  States with calls on the stack are the middle of a handler.

AtRest == calls = <<>>

Holders(p) == {c \in Runs : run[c].held = p}
PostedGrants(p) == {i \in DOMAIN posted : posted[i].k = "grant" /\ posted[i].p = p}

\* The members of a run have the values its class gives them.
TypeOK ==
  /\ \A c \in Runs :
       /\ DOMAIN run[c] = DOMAIN NewRun
       /\ {run[c].relay, run[c].held, run[c].waiting, run[c].exec}
            \subseteq Providers \cup {None}
       /\ run[c].query \in {"none", "direct", "agent"}
       /\ run[c].left \in 0..MaxContinuations /\ run[c].req \in Nat
  /\ \A p \in Providers : wire[p] \in Runs \cup {None}

\* provider-scheduler.h:38-45: one slot per dispatched turn, on every terminal
\* path: a slot in flight has a run that holds it or a grant that is posted.
SlotsMatchHolders ==
  AtRest => \A p \in Providers :
    states[p].inFlight = Cardinality(Holders(p)) + Cardinality(PostedGrants(p))

\* provider-scheduler.h:33-36: whatever users and sessions do, two runs never
\* own the same provider's slot: a lost slot is never handed out twice.
SlotNeverShared ==
  \A p \in Providers :
    /\ Cardinality(Holders(p)) + Cardinality(PostedGrants(p)) <= states[p].inFlight
    /\ states[p].inFlight <= states[p].limit

\* A reply reaches at most one run: no two runs have a relay on one provider,
\* whose signals carry no request id.  So it is while no turn waits for a recall.
NoCrossTalk ==
  AtRest => \A c, d \in Runs : run[c].relay = run[d].relay /\ c # d
                                  => run[c].relay = None

\* conversation-run.cpp:1353-1358: a slot is held only while the provider works
\* for the run; the handler of the terminal signal has given it back.
HeldMeansWorking ==
  AtRest => \A c \in Runs : run[c].held # None => wire[run[c].held] = c

\* A run that is not generating neither holds a slot nor waits for one.
IdleOwnsNothing ==
  AtRest => \A c \in Runs : ~run[c].gen =>
    run[c].held = None /\ run[c].waiting = None

\* A turn that generates has something under way that will end it: a request,
\* a queue place, a timer or a worker.  Nothing waits for an event lost.
SomethingPending ==
  AtRest => \A c \in Runs : run[c].gen =>
    \/ run[c].relay # None /\ wire[run[c].relay] = c
    \/ run[c].exec # None \/ run[c].batch \/ run[c].query # "none"
    \/ run[c].confirm = run[c].req \/ run[c].verdict # 0
    \/ \E i \in DOMAIN posted : posted[i].c = c
    \/ run[c].waiting # None /\ QueueIndex(states[run[c].waiting].queue, c) # 0

\* Every turn ends once its providers and workers answer, whatever the other
\* runs that compete for the same provider do.
TurnEnds == \A c \in Runs : run[c].gen ~> ~run[c].gen

\* The turn a message was typed in is over, and the message is still there.
Stranded(c) == AtRest /\ run[c].queued /\ ~run[c].gen

\* A message typed during a turn leaves with it: at the latest when that turn's
\* cascade has ended.  A turn that fails (conversation-run.cpp:1847-1878), or an
\* agent's that ends (449-508), leaves the message behind, and it goes out when
\* the last session that generates stops: it never waits in an idle application.
QueuedTextLeaves ==
  /\ \A c \in Runs : run[c].queued ~> (~run[c].queued \/ Stranded(c))
  /\ [][\A c \in Runs :
          calls # <<>> /\ Head(calls) = Call("tail", c, 0) => ~Stranded(c)']_vars
  /\ []((\E c \in Runs : Stranded(c)) => \E d \in Runs : run[d].gen)

\* conversation-run.cpp:2303-2305: "the per-conversation queued send drains as
\* soon as THIS run is idle".
DrainsWhenIdle ==
  AtRest => \A c \in Runs : run[c].queued => run[c].gen

\* conversation-run.cpp:1067-1069: after a stop "a cancelled turn never
\* resumes": no request is on the wire for a run that does not generate.
CancelledNeverResumes ==
  AtRest => \A c \in Runs : run[c].relay # None => run[c].gen

\* task-gate-service.h:225-231: only the cancel of this very turn stops the
\* active plan; a reply of a later turn is not taken for the cancelled one.
OnlyStoppedTurnsCancelPlans ==
  [][\A c \in Runs :
       (/\ calls # <<>> /\ Head(calls) = Call("finished", c, run[c].req)
        /\ anchor /\ run[c].cancelled /\ ~run[c].usingAgent /\ run[c].stream)
         => run[c].stopped]_vars

\* cascade-controller.h:111-113: the verdict's request id is there "to detect
\* stale completions": one asked for an earlier turn leaves the new turn alone.
StaleVerdictDropped ==
  [][\A c \in Runs :
       (/\ run[c].verdict # 0 /\ run'[c].verdict = 0
        /\ run[c].gen /\ run'[c].alive /\ run[c].verdict # run[c].req)
         => run'[c].req = run[c].req /\ run'[c].stream = run[c].stream]_vars
=============================================================================
