------------------------- MODULE CascadeController -------------------------
(***************************************************************************)
(* Chat::CascadeController in a group chat: who speaks next after a reply. *)
(* The controller's members are the record `cc'; an operation returns the  *)
(* record with the signal it emitted in `out'.  ConversationRun's part is  *)
(* the variable `turn' and the guards on a queued user message.            *)
(* Stops, and verdicts that arrive after one, are in ConversationRun.      *)
(***************************************************************************)
EXTENDS Naturals, FiniteSets, SequencesExt

CONSTANTS Members,            \* the aliases of the conversation
          None,
          MaxAgentCascade,    \* kMaxAgentCascade: dispatches per round
          MaxTurnsPerMember,  \* kMaxTurnsPerMember
          MaxEchoRetries,     \* kMaxEchoRetries
          MaxAutoRounds,      \* effectiveMaxRounds
          MaxDeferred,        \* kMaxGroupDeferredPerAlias
          MaxTargets,         \* bound: members one verdict names
          RosterChanges       \* may members leave during a cascade?

ASSUME CapsAssumption ==
  /\ {MaxAgentCascade, MaxTurnsPerMember, MaxAutoRounds} \subseteq Nat \ {0}
  /\ {MaxEchoRetries, MaxDeferred, MaxTargets} \subseteq Nat /\ RosterChanges \in BOOLEAN

VARIABLES cc,          \* the controller
          turn,        \* what the run waits for
          roster,      \* the members that still resolve
          asked,       \* `members', the roster a classification was asked with
          userQueued,  \* the run holds a queued user message
          nudges,      \* m_groupDeferredContinuations
          dispatched,  \* history: members dispatched for this user message
          ended        \* history: how the last cascade ended

vars == <<cc, turn, roster, asked, userQueued, nudges, dispatched, ended>>

\* The controller after resetTurnState.
resetTurnState ==
  [queue |-> <<>>, deferred |-> <<>>, turns |-> [m \in Members |-> 0],
   iterations |-> 0, responder |-> None, retries |-> [m \in Members |-> 0],
   refused |-> None, progress |-> FALSE, round |-> 1, out |-> "none"]

NotEnded == [reason |-> "none", paused |-> FALSE]

Init == /\ cc = resetTurnState
        /\ turn = "idle"
        /\ roster = Members /\ asked = {}
        /\ userQueued = FALSE
        /\ nudges = [m \in Members |-> 0]
        /\ dispatched = 0
        /\ ended = NotEnded

---------------------------------------------------------------------------
\* The queues

Capped(k, m) == k.turns[m] >= MaxTurnsPerMember

enqueueSelfToo(k, m) ==
  CASE m = None \/ Contains(k.queue, m) -> k
    [] Capped(k, m) -> [k EXCEPT !.refused = m]
    [] OTHER -> [k EXCEPT !.queue = Append(@, m)]

\* Self, duplicates and capped members are skipped; the last are remembered.
enqueueTarget(k, m) ==
  CASE m \in {None, k.responder} \/ Contains(k.queue, m) -> k
    [] m \notin {None, k.responder} /\ ~Contains(k.queue, m) /\ Capped(k, m) ->
         [k EXCEPT !.refused = m]
    [] OTHER -> [k EXCEPT !.queue = Append(@, m)]

enqueueDeferredTarget(k, m) ==
  CASE \/ m \in {None, k.responder}
       \/ Contains(k.queue, m) \/ Contains(k.deferred, m) -> k
    [] OTHER -> IF Capped(k, m) THEN [k EXCEPT !.refused = m]
                ELSE [k EXCEPT !.deferred = Append(@, m)]

\* The queue from its first member who still resolves; empty without one.
Resolved(q) ==
  LET at == {i \in DOMAIN q : q[i] \in roster}
  IN  IF at = {} THEN <<>> ELSE SubSeq(q, CHOOSE i \in at : \A j \in at : i <= j, Len(q))

\* The immediate queue first, then the deferred one; unknown aliases skipped.
tryDispatchNext(k) ==
  LET q == Resolved(k.queue)
      d == Resolved(k.deferred)
  IN  CASE k.iterations >= MaxAgentCascade -> [k EXCEPT !.out = "none"]
        [] k.iterations < MaxAgentCascade /\ q # <<>> ->
             [k EXCEPT !.queue = Tail(q), !.responder = Head(q),
                       !.iterations = @ + 1, !.out = "turn"]
        [] k.iterations < MaxAgentCascade /\ q = <<>> /\ d # <<>> ->
             [k EXCEPT !.queue = <<>>, !.deferred = Tail(d), !.responder = Head(d),
                       !.iterations = @ + 1, !.out = "turn"]
        [] OTHER -> [k EXCEPT !.queue = <<>>, !.deferred = <<>>, !.out = "none"]

---------------------------------------------------------------------------
\* The end of a cascade, or of a round

WorkWaiting(k) == k.refused # None \/ k.queue # <<>> \/ k.deferred # <<>>

NextAlias(k) == CASE k.refused # None -> k.refused
                  [] k.refused = None /\ k.queue # <<>> -> Head(k.queue)
                  [] OTHER -> Head(k.deferred)

\* Fresh budgets for the next round; only its first speaker is kept.
nextRoundUncounted(k) ==
  LET m == NextAlias(k)
      r == [resetTurnState EXCEPT !.responder = k.responder,
                                  !.retries = k.retries, !.round = k.round]
  IN  tryDispatchNext(IF m \in roster THEN enqueueTarget(r, m) ELSE r)

nextRound(k) ==
  LET m == NextAlias(k)
      r == [resetTurnState EXCEPT !.responder = k.responder,
                                  !.retries = k.retries, !.round = k.round + 1]
  IN  tryDispatchNext(IF m \in roster THEN enqueueTarget(r, m) ELSE r)

complete(k, paused) == [resetTurnState EXCEPT !.out = IF paused THEN "paused" ELSE "complete"]

completeQuietly(k, reason) ==
  LET n == nextRound(k)
  IN  IF WorkWaiting(k) /\ reason # "hard" /\ k.progress
           /\ k.round < MaxAutoRounds /\ n.out = "turn"
      THEN n ELSE complete(k, FALSE)

emitCascadeCompleteAndClear(k, reason) ==
  LET n == nextRound(k)
      open == WorkWaiting(k) /\ reason # "hard"
  IN  IF open /\ k.progress /\ k.round < MaxAutoRounds /\ n.out = "turn"
      THEN n ELSE complete(k, open)

---------------------------------------------------------------------------
\* Routing a reply

\* Empty, echoed or impersonated: retried by the same member, without costing
\* it a turn; after the last retry the cascade goes on without it.
retryForever(k) ==
  LET m == k.responder
  IN  [k EXCEPT !.retries[m] = IF @ < MaxEchoRetries THEN @ + 1 ELSE 0,
                !.turns[m] = IF @ > 0 THEN @ - 1 ELSE 0,
                !.progress = TRUE, !.out = "retry"]

badReply(k) ==
  LET m == k.responder
      n == tryDispatchNext([k EXCEPT !.retries[m] = 0])
  IN  IF k.retries[m] < MaxEchoRetries
      THEN [k EXCEPT !.retries[m] = @ + 1, !.progress = TRUE, !.out = "retry",
                     !.turns[m] = IF @ > 0 THEN @ - 1 ELSE 0]
      ELSE IF n.out = "turn" THEN n ELSE emitCascadeCompleteAndClear(n, "stop")

\* routeOrFinalize counts the turn, then accepts the reply or has it retried;
\* an accepted one is progress when its content has a fingerprint, and is
\* classified when it mentions someone or announces work.
routeOrFinalize(k, reply, novel) ==
  LET m == k.responder
      c == [k EXCEPT !.turns[m] = @ + 1]
      a == [c EXCEPT !.progress = @ \/ novel, !.retries[m] = 0]
      n == tryDispatchNext(a)
  IN  CASE reply = "bad" -> badReply(c)
        [] reply = "mention" -> [a EXCEPT !.out = "classify"]
        [] reply = "plain" -> IF n.out = "turn" THEN n
                              ELSE emitCascadeCompleteAndClear(n, "stop")

\* What the classifier can say once the confidence floor and the intent gate
\* have dropped what does not route.
Verdicts == [targets : {ts \in BoundedSeq(Members, MaxTargets) : IsInjective(ts)},
             broadcast : BOOLEAN, self : BOOLEAN, delegate : Members \cup {None}]

\* Whoever left since is still invited: the dispatcher skips him.  A broadcast
\* does not invite a member again that has spoken.
Invite(k, v, m) ==
  IF m \in asked /\ (v.broadcast => k.turns[m] = 0) THEN enqueueTarget(k, m) ELSE k

\* The targets are invited one after the other.
Routed(k, v) ==
  LET after[i \in 0..Len(v.targets)] ==
        IF i = 0 THEN k ELSE Invite(after[i - 1], v, v.targets[i])
  IN  after[Len(v.targets)]

applyClassification(k, v) ==
  LET r == Routed(k, v)
  IN  [k EXCEPT !.queue = r.queue, !.refused = r.refused]

\* The watcher: routed targets first, then the delegate, then a continuation
\* of the speaker, who is queued behind a routed target otherwise.
classified(k, v, exhausted) ==
  LET speaker == k.responder
      again == v.self /\ ~exhausted
      n == tryDispatchNext(applyClassification(k, v))
      q == enqueueTarget(n, IF v.delegate \in asked THEN v.delegate ELSE None)
      d == IF q.queue = n.queue THEN q ELSE tryDispatchNext(q)
  IN  IF n.out = "turn" THEN IF again THEN enqueueTarget(n, speaker) ELSE n
      ELSE IF d.out = "turn" THEN d
      ELSE IF again THEN [d EXCEPT !.out = "continue"]
      ELSE emitCascadeCompleteAndClear(d, "stop")

---------------------------------------------------------------------------
\* Steps.  The run reacts to the signal the controller emitted.

React(emitted, reason) ==
  \E k \in {emitted} :
    /\ cc' = [k EXCEPT !.out = "none"]
    /\ turn' = CASE k.out = "classify" -> "classifying"
                 [] k.out \in {"complete", "paused"} -> "idle"
                 [] OTHER -> "speaking"
    /\ asked' = IF k.out = "classify" THEN roster ELSE {}
    /\ dispatched' = IF k.out = "turn" THEN dispatched + 1 ELSE dispatched
    /\ ended' = IF k.out \in {"complete", "paused"}
                THEN [reason |-> reason, paused |-> k.out = "paused"] ELSE ended

\* A mention after the first waits in the immediate queue for a broadcast and
\* in the deferred queue otherwise.
LineUp(k, m, broadcast) ==
  IF broadcast THEN enqueueTarget(k, m) ELSE enqueueDeferredTarget(k, m)

Mentioned(ms, broadcast) ==
  LET after[i \in 0..Len(ms)] ==
        IF i = 0 THEN resetTurnState ELSE LineUp(after[i - 1], ms[i], broadcast)
  IN  after[Len(ms)]

\* sendMessage in a group: the first mention answers, the others wait.
UserMessage(ms, broadcast) ==
  /\ turn = "idle" /\ ToSet(ms) \subseteq roster
  /\ cc' = [resetTurnState EXCEPT !.queue = Mentioned(Tail(ms), broadcast).queue,
                                  !.deferred = Mentioned(Tail(ms), broadcast).deferred,
                                  !.responder = Head(ms)]
  /\ turn' = "speaking" /\ userQueued' = FALSE /\ dispatched' = 0
  /\ nudges' = [m \in Members |-> 0]
  /\ ended' = NotEnded
  /\ UNCHANGED <<roster, asked>>

\* A message typed while the team talks.
TypeAhead ==
  /\ turn # "idle" /\ ~userQueued
  /\ userQueued' = TRUE
  /\ UNCHANGED <<cc, turn, roster, asked, nudges, dispatched, ended>>

\* onToolBatchCompleted; m was asked for by request_turn.  A request that was
\* queued makes the speaker yield, when someone can be dispatched.
ToolBatch(m) ==
  /\ turn = "speaking"
  /\ LET k == enqueueTarget([cc EXCEPT !.progress = TRUE], m)
         n == tryDispatchNext(k)
     IN  IF k.queue # cc.queue /\ n.out = "turn"
         THEN React(n, "stop")
         ELSE React(IF k.queue # cc.queue THEN n ELSE k, "stop")
  /\ UNCHANGED <<roster, userQueued, nudges>>

\* finishTurnRouting: a queued user message forces the cascade to its end.
Reply(reply, novel) ==
  /\ turn = "speaking"
  /\ IF userQueued
     THEN React(emitCascadeCompleteAndClear(cc, "user_message_pending"),
                "user_message_pending")
     ELSE React(routeOrFinalize(cc, reply, novel), "stop")
  /\ UNCHANGED <<roster, userQueued, nudges>>

\* A reply over a tool cap: a run of failures, or the budget or an echo.
CapReply(reason) ==
  /\ turn = "speaking"
  /\ React(emitCascadeCompleteAndClear(cc, reason), reason)
  /\ UNCHANGED <<roster, userQueued, nudges>>

\* onCascadeDeferredContinuationRequested, when the classifier's verdict says
\* so: the queued user message wins, then the budget, then the speaker goes on.
Classified(v) ==
  /\ turn = "classifying"
  /\ \E s \in {cc.responder} :
     \E k \in {classified(cc, v, nudges[s] >= MaxDeferred)} :
         IF k.out # "continue" THEN React(k, "stop") /\ UNCHANGED nudges
         ELSE IF userQueued
         THEN React(emitCascadeCompleteAndClear(k, "user_message_pending"),
                    "user_message_pending") /\ UNCHANGED nudges
         ELSE /\ React([k EXCEPT !.progress = TRUE], "stop")
              /\ nudges' = [nudges EXCEPT ![s] = @ + 1]
  /\ UNCHANGED <<roster, userQueued>>

MemberLeaves(m) ==
  /\ RosterChanges /\ m \in roster /\ Cardinality(roster) > 1
  /\ roster' = roster \ {m}
  /\ UNCHANGED <<cc, turn, asked, userQueued, nudges, dispatched, ended>>

Replies == {"plain", "mention", "bad"}

Mentions == {ms \in BoundedSeq(Members, 3) : ms # <<>> /\ IsInjective(ms)}

Next == \/ \E ms \in Mentions, b \in BOOLEAN : UserMessage(ms, b)
        \/ TypeAhead
        \/ \E m \in Members \cup {None} : ToolBatch(m)
        \/ \E r \in Replies, novel \in BOOLEAN : Reply(r, novel)
        \/ \E r \in {"tool_failure_cap", "hard"} : CapReply(r)
        \/ \E v \in Verdicts : Classified(v)
        \/ \E m \in Members : MemberLeaves(m)

\* A dispatched member replies (its request has a timeout) and the classifier
\* answers; users need not write and tools need not be used.
Answer == \/ \E r \in Replies, novel \in BOOLEAN : Reply(r, novel)
          \/ \E v \in Verdicts : Classified(v)

Spec == Init /\ [][Next]_vars
FairSpec == Spec /\ WF_vars(Answer)

---------------------------------------------------------------------------
\* Properties

\* The controller's members have the shapes its class declares.
TypeOK ==
  /\ cc.queue \in Seq(Members) /\ cc.deferred \in Seq(Members)
  /\ cc.turns \in [Members -> Nat] /\ cc.retries \in [Members -> 0..MaxEchoRetries]
  /\ cc.responder \in Members \cup {None} /\ cc.refused \in Members \cup {None}
  /\ cc.round \in 1..MaxAutoRounds /\ turn \in {"idle", "speaking", "classifying"}

\* cascade-controller.h:211-223: the round caps and the bound on autonomous
\* rounds together bound what one user message can set off.
BoundedByRounds == dispatched <= MaxAutoRounds * MaxAgentCascade

\* cascade-controller.cpp:171-176, 190-201: no sequence of handoffs, yields and
\* round changes puts the member that speaks into the immediate queue, or any
\* member twice into one queue.  It may wait in the deferred queue while it
\* speaks: enqueueTarget does not look there, nor does the dispatcher.
OnePlacePerQueue ==
  turn # "idle" => /\ ~Contains(cc.queue, cc.responder)
                   /\ IsInjective(cc.queue) /\ IsInjective(cc.deferred)

\* cascade-controller.cpp:1189-1190: a cascade that ends with members waiting
\* says so, "a visible pause rather than a silent end".
NoSilentEnd ==
  [][(/\ turn # "idle" /\ turn' = "idle" /\ ended'.reason # "hard"
      /\ \E m \in roster : Contains(cc.queue \o cc.deferred, m))
       => ended'.paused]_vars

\* Retries, continuations, handoffs and rounds are all bounded: the team falls
\* silent after every user message.
CascadeEnds == turn # "idle" ~> turn = "idle"

\* cascade-controller.h:405-408: the turns of a member in the active cascade
\* are "bounded by kMaxTurnsPerMember".
MemberTurnsBounded == \A m \in Members : cc.turns[m] <= MaxTurnsPerMember

\* cascade-controller.cpp:196-199: an alias that waits in both queues does no
\* harm, since "the dispatcher would dedupe at pop time": who speaks waits in
\* neither.
SpeakerWaitsNowhere ==
  turn # "idle" => ~Contains(cc.queue \o cc.deferred, cc.responder)
=============================================================================
