---------------------- MODULE CascadeControllerProofs ----------------------
(***************************************************************************)
(* What one user message can set off in a group, and in what order, for    *)
(* every team and all caps.  The count of dispatches is paid for by the    *)
(* controller's two counters: a dispatch raises the iterations of the      *)
(* round, and a new round, which starts them again, raises the round.  The *)
(* members who wait form two queues: nobody stands twice in one of them,   *)
(* who speaks is not in the immediate one, and no operation empties them   *)
(* without a word.                                                         *)
(***************************************************************************)
EXTENDS CascadeController, SequenceTheorems, WellFoundedInduction, TLAPS

Signals == {"none", "turn", "retry", "classify", "continue", "complete", "paused"}

\* The counters of a controller; its other members may be anything.
Shape(k) == k \in [queue : {k.queue}, deferred : {k.deferred}, turns : {k.turns},
                   iterations : 0..MaxAgentCascade, responder : {k.responder},
                   retries : {k.retries}, refused : {k.refused},
                   progress : {k.progress}, round : 1..MaxAutoRounds, out : Signals]

\* The dispatches the counters account for.
Spent(k) == (k.round - 1) * MaxAgentCascade + k.iterations

Ended == {"complete", "paused"}

\* An operation that began with n dispatches spent left k behind.
Fits(n, k) == /\ Shape(k)
              /\ k.out = "turn" => n + 1 <= Spent(k)
              /\ k.out \notin Ended => n <= Spent(k)

\* No dispatch beyond the counters while a cascade is open.
IInv == /\ Shape(cc) /\ cc.out = "none" /\ dispatched \in Nat
        /\ turn # "idle" => dispatched <= Spent(cc)
        /\ BoundedByRounds

---------------------------------------------------------------------------
\* Numbers

LEMMA Caps == MaxAgentCascade \in Nat \ {0} /\ MaxAutoRounds \in Nat \ {0}
  BY CapsAssumption

LEMMA Times ==
  ASSUME NEW a \in Nat, NEW b \in Nat, NEW c \in Nat, a <= b
  PROVE  /\ a * c \in Nat /\ a * c <= b * c /\ (a + 1) * c = a * c + c
<1>1. a * c \in Nat /\ b * c \in Nat /\ (b - a) * c \in Nat OBVIOUS
<1>2. b * c = a * c + (b - a) * c OBVIOUS
<1>3. (a + 1) * c = a * c + c OBVIOUS
<1> QED BY <1>1, <1>2, <1>3

LEMMA SpentFacts ==
  ASSUME NEW k, Shape(k)
  PROVE  /\ Spent(k) \in Nat /\ Spent(k) <= MaxAutoRounds * MaxAgentCascade
         /\ k.round \in 1..MaxAutoRounds /\ k.iterations \in 0..MaxAgentCascade
<1>1. k.round \in 1..MaxAutoRounds /\ k.iterations \in 0..MaxAgentCascade BY DEF Shape
<1> DEFINE r == k.round - 1
<1>2. r \in Nat /\ r + 1 <= MaxAutoRounds /\ r + 1 \in Nat BY <1>1, Caps
<1> HIDE DEF r
<1>3. r * MaxAgentCascade \in Nat /\ (r + 1) * MaxAgentCascade = r * MaxAgentCascade + MaxAgentCascade
  BY <1>2, Caps, Times
<1>4. (r + 1) * MaxAgentCascade <= MaxAutoRounds * MaxAgentCascade BY <1>2, Caps, Times
<1>5. Spent(k) = r * MaxAgentCascade + k.iterations BY DEF Spent, r
<1>6. MaxAutoRounds * MaxAgentCascade \in Nat BY Caps, Times
<1> QED BY <1>1, <1>3, <1>4, <1>5, <1>6, Caps

\* A record with the same counters has the same account.
LEMMA Kept ==
  ASSUME NEW k, NEW j, Shape(k), Shape(j), j.round = k.round, j.iterations = k.iterations
  PROVE  Spent(j) = Spent(k)
  BY DEF Spent

LEMMA FitsWeaker ==
  ASSUME NEW n \in Nat, NEW m \in Nat, n <= m, NEW k, Fits(m, k)
  PROVE  Fits(n, k)
  BY SpentFacts DEF Fits

---------------------------------------------------------------------------
\* The controller's operations

\* An operation that leaves the counters alone.
Same(k, j) == Shape(j) /\ j.round = k.round /\ j.iterations = k.iterations /\ j.out = k.out

LEMMA SameSpent ==
  ASSUME NEW k, NEW j, Shape(k), Same(k, j)
  PROVE  Spent(j) = Spent(k)
  BY DEF Spent, Same

LEMMA Enqueued ==
  ASSUME NEW k, Shape(k), NEW m
  PROVE  Same(k, enqueueTarget(k, m))
<1>1. Shape([k EXCEPT !.refused = m]) /\ Same(k, [k EXCEPT !.refused = m]) BY DEF Shape, Same
<1> DEFINE q == Append(k.queue, m)
<1>2. \A x : Same(k, [k EXCEPT !.queue = x]) BY DEF Shape, Same
<1>3. Same(k, k) BY DEF Same
<1> QED BY <1>1, <1>2, <1>3 DEF enqueueTarget

\* What tryDispatchNext may leave behind.
Left(k, j) == Shape(j) /\ j.round = k.round /\ j.iterations = k.iterations /\ j.out = "none"
Sent(k, j) == Shape(j) /\ j.round = k.round /\ j.iterations = k.iterations + 1 /\ j.out = "turn"

LEMMA LeftFits ==
  ASSUME NEW k, Shape(k), NEW j, Left(k, j)
  PROVE  Fits(Spent(k), j)
<1>1. Spent(j) = Spent(k) /\ Spent(k) \in Nat BY SpentFacts DEF Left, Spent
<1>2. Spent(k) <= Spent(j) BY <1>1
<1>3. Shape(j) /\ j.out # "turn" BY DEF Left
<1>4. j.out = "turn" => Spent(k) + 1 <= Spent(j) BY <1>3
<1> QED BY <1>2, <1>3, <1>4, Zenon DEF Fits

LEMMA SentFits ==
  ASSUME NEW k, Shape(k), NEW j, Sent(k, j)
  PROVE  Fits(Spent(k), j)
<1>1. Spent(j) = Spent(k) + 1 /\ Spent(k) \in Nat
  <2>1. (k.round - 1) * MaxAgentCascade \in Nat
    <3>1. k.round - 1 \in Nat BY SpentFacts, Caps
    <3> QED BY <3>1, Caps, Times
  <2> QED BY <2>1, SpentFacts DEF Sent, Spent
<1>2. Spent(k) <= Spent(j) /\ Spent(k) + 1 <= Spent(j) BY <1>1
<1> QED BY <1>2, Zenon DEF Fits, Sent

LEMMA Tried ==
  ASSUME NEW k, Shape(k)
  PROVE  Fits(Spent(k), tryDispatchNext(k)) /\ tryDispatchNext(k).out \in {"none", "turn"}
<1> DEFINE q == Resolved(k.queue)
           d == Resolved(k.deferred)
           stay == [k EXCEPT !.out = "none"]
           none == [k EXCEPT !.queue = <<>>, !.deferred = <<>>, !.out = "none"]
           first == [k EXCEPT !.queue = Tail(q), !.responder = Head(q),
                              !.iterations = @ + 1, !.out = "turn"]
           second == [k EXCEPT !.queue = <<>>, !.deferred = Tail(d), !.responder = Head(d),
                               !.iterations = @ + 1, !.out = "turn"]
           j == tryDispatchNext(k)
<1>1. Left(k, stay) BY DEF Shape, Left, Signals
<1>2. Left(k, none) BY DEF Shape, Left, Signals
<1>3. ASSUME k.iterations < MaxAgentCascade PROVE Sent(k, first) /\ Sent(k, second)
  <2>1. k.iterations + 1 \in 0..MaxAgentCascade BY <1>3, SpentFacts, Caps
  <2> HIDE DEF q, d
  <2> QED BY <2>1 DEF Shape, Sent, Signals
<1>4. k.iterations >= MaxAgentCascade \/ k.iterations < MaxAgentCascade
  BY SpentFacts, Caps
<1>5. CASE k.iterations >= MaxAgentCascade
  <2>0. ~(k.iterations < MaxAgentCascade) BY <1>5, SpentFacts, Caps
  <2>1. j = stay BY <1>5, <2>0 DEF tryDispatchNext
  <2> HIDE DEF j, stay
  <2> QED BY <2>1, <1>1, LeftFits DEF Left, j
<1>6. CASE k.iterations < MaxAgentCascade
  <2>1. ~(k.iterations >= MaxAgentCascade) BY <1>6, SpentFacts, Caps
  <2>2. j = first \/ j = second \/ j = none BY <1>6, <2>1 DEF tryDispatchNext
  <2> HIDE DEF j, first, second, none
  <2> QED BY <1>6, <2>2, <1>2, <1>3, LeftFits, SentFits DEF Left, Sent, j
<1> QED BY <1>4, <1>5, <1>6

LEMMA FitsTold ==
  ASSUME NEW k, Shape(k), NEW n \in Nat, n <= Spent(k), k.out # "turn"
  PROVE  Fits(n, k)
  BY DEF Fits

LEMMA ResetShape ==
  /\ Shape(resetTurnState) /\ resetTurnState.iterations = 0 /\ resetTurnState.round = 1
  /\ resetTurnState.out = "none"
<1> DEFINE z == [m \in Members |-> 0]
<1> HIDE DEF z
<1>1. resetTurnState = [queue |-> <<>>, deferred |-> <<>>, turns |-> z,
          iterations |-> 0, responder |-> None, retries |-> z,
          refused |-> None, progress |-> FALSE, round |-> 1, out |-> "none"]
  BY DEF resetTurnState, z
<1>2. 0 \in 0..MaxAgentCascade /\ 1 \in 1..MaxAutoRounds /\ "none" \in Signals
  BY Caps DEF Signals
<1> QED BY <1>1, <1>2 DEF Shape

\* The next round has its own budget, and the old one had not more.
LEMMA NextRounded ==
  ASSUME NEW k, Shape(k), k.round < MaxAutoRounds
  PROVE  Fits(Spent(k), nextRound(k)) /\ nextRound(k).out \in {"none", "turn"}
<1> DEFINE r == [resetTurnState EXCEPT !.responder = k.responder,
                                       !.retries = k.retries, !.round = k.round + 1]
           m == NextAlias(k)
           e == IF m \in roster THEN enqueueTarget(r, m) ELSE r
<1>1. k.round + 1 \in 1..MaxAutoRounds /\ k.round \in 1..MaxAutoRounds BY SpentFacts, Caps
<1>2. Shape(r) /\ r.round = k.round + 1 /\ r.iterations = 0
  BY <1>1, ResetShape DEF Shape
<1>3. nextRound(k) = tryDispatchNext(e) BY DEF nextRound
<1> HIDE DEF r, m
<1>4. Same(r, e) BY <1>2, Enqueued DEF Same
<1>5. Shape(e) /\ Spent(e) = Spent(r) BY <1>2, <1>4, SameSpent DEF Same
<1>6. Spent(k) \in Nat /\ Spent(r) \in Nat /\ Spent(k) <= Spent(r)
  <2> DEFINE b == k.round - 1
             x == b * MaxAgentCascade
             y == k.round * MaxAgentCascade
  <2>1. b \in Nat /\ k.round = b + 1 BY <1>1, Caps
  <2>2. x \in Nat /\ y = x + MaxAgentCascade BY <2>1, Caps, Times
  <2>3. Spent(k) = x + k.iterations BY DEF Spent
  <2>4. (k.round + 1) - 1 = k.round BY <1>1, Caps
  <2>5. Spent(r) = y + 0 BY <1>2, <2>4 DEF Spent
  <2> HIDE DEF x, y
  <2> QED BY <2>2, <2>3, <2>5, SpentFacts, Caps
<1> HIDE DEF e
<1>7. Fits(Spent(r), tryDispatchNext(e)) /\ tryDispatchNext(e).out \in {"none", "turn"}
  BY <1>5, Tried
<1>8. Fits(Spent(k), tryDispatchNext(e)) BY <1>6, <1>7, FitsWeaker
<1> QED BY <1>3, <1>7, <1>8

LEMMA Completed ==
  ASSUME NEW k, NEW p \in BOOLEAN, NEW n
  PROVE  Fits(n, complete(k, p)) /\ complete(k, p).out \in Ended
<1> DEFINE o == IF p THEN "paused" ELSE "complete"
           j == [resetTurnState EXCEPT !.out = o]
<1>1. o \in Ended /\ Ended \subseteq Signals /\ "turn" \notin Ended BY DEF Ended, Signals
<1>2. complete(k, p) = j BY DEF complete
<1> HIDE DEF o
<1>3. Shape(j) /\ j.out = o BY <1>1, ResetShape DEF Shape
<1> HIDE DEF j
<1>4. j.out # "turn" /\ j.out \in Ended BY <1>1, <1>3
<1> QED BY <1>2, <1>3, <1>4, Zenon DEF Fits

LEMMA Emitted ==
  ASSUME NEW k, Shape(k), NEW reason
  PROVE  LET j == emitCascadeCompleteAndClear(k, reason)
         IN  Fits(Spent(k), j) /\ j.out \in Ended \cup {"turn"}
<1> DEFINE n == nextRound(k)
           open == WorkWaiting(k) /\ reason # "hard"
           j == emitCascadeCompleteAndClear(k, reason)
<1>1. open \in BOOLEAN BY DEF WorkWaiting
<1>2. CASE open /\ k.progress /\ k.round < MaxAutoRounds /\ n.out = "turn"
  <2>1. j = n BY <1>2 DEF emitCascadeCompleteAndClear
  <2> HIDE DEF n, j
  <2>2. Fits(Spent(k), n) BY <1>2, NextRounded DEF n
  <2> QED BY <1>2, <2>1, <2>2 DEF j
<1>3. CASE ~(open /\ k.progress /\ k.round < MaxAutoRounds /\ n.out = "turn")
  <2>1. j = complete(k, open) BY <1>3 DEF emitCascadeCompleteAndClear
  <2> HIDE DEF n, open, j
  <2>2. Fits(Spent(k), j) /\ j.out \in Ended BY <1>1, <2>1, Completed
  <2> QED BY <2>2 DEF j
<1> QED BY <1>2, <1>3

\* The next member, or the end of the round.
Onward(n) == IF n.out = "turn" THEN n ELSE emitCascadeCompleteAndClear(n, "stop")

LEMMA GoesOn ==
  ASSUME NEW k, Shape(k)
  PROVE  LET j == Onward(tryDispatchNext(k))
         IN  Fits(Spent(k), j) /\ j.out \in Ended \cup {"turn"}
<1> DEFINE n == tryDispatchNext(k)
<1>1. Fits(Spent(k), n) /\ n.out \in {"none", "turn"} BY Tried
<1> HIDE DEF n
<1>2. CASE n.out = "turn" BY <1>1, <1>2 DEF n, Onward
<1>3. CASE n.out # "turn"
  <2> DEFINE j == emitCascadeCompleteAndClear(n, "stop")
  <2>1. Shape(n) /\ n.out \notin Ended BY <1>1, <1>3 DEF Fits, Ended
  <2>2. Fits(Spent(n), j) /\ j.out \in Ended \cup {"turn"} BY <2>1, Emitted
  <2>3. Spent(k) <= Spent(n) /\ Spent(k) \in Nat /\ Spent(n) \in Nat
    BY <1>1, <2>1, SpentFacts DEF Fits
  <2> HIDE DEF j
  <2>4. Fits(Spent(k), j) BY <2>2, <2>3, FitsWeaker
  <2> QED BY <1>3, <2>2, <2>4 DEF n, j, Onward
<1> QED BY <1>2, <1>3


---------------------------------------------------------------------------
\* Replies and verdicts

LEMMA BadReplied ==
  ASSUME NEW k, Shape(k)
  PROVE  Fits(Spent(k), badReply(k))
<1> DEFINE m == k.responder
           c == [k EXCEPT !.retries[m] = 0]
           b == [k EXCEPT !.retries[m] = @ + 1, !.progress = TRUE, !.out = "retry",
                          !.turns[m] = IF @ > 0 THEN @ - 1 ELSE 0]
<1>1. badReply(k) = IF k.retries[m] < MaxEchoRetries THEN b ELSE Onward(tryDispatchNext(c))
  BY DEF badReply, Onward
<1>2. Same(k, c) BY DEF Shape, Same
<1>3. Shape(b) /\ b.round = k.round /\ b.iterations = k.iterations /\ b.out = "retry"
  BY DEF Shape, Signals
<1> HIDE DEF m, c, b
<1>4. Fits(Spent(k), Onward(tryDispatchNext(c)))
  BY <1>2, SameSpent, GoesOn DEF Same
<1>5. Fits(Spent(k), b)
  <2>1. Spent(b) = Spent(k) /\ Spent(k) \in Nat BY <1>3, Kept, SpentFacts
  <2> QED BY <1>3, <2>1, FitsTold
<1> QED BY <1>1, <1>4, <1>5

LEMMA Replied ==
  ASSUME NEW k, Shape(k), NEW reply \in Replies, NEW novel
  PROVE  Fits(Spent(k), routeOrFinalize(k, reply, novel))
<1> DEFINE m == k.responder
           c == [k EXCEPT !.turns[m] = @ + 1]
           a == [c EXCEPT !.progress = @ \/ novel, !.retries[m] = 0]
           w == [a EXCEPT !.out = "classify"]
<1>1. Same(k, c) BY DEF Shape, Same
<1>2. /\ reply = "bad" => routeOrFinalize(k, reply, novel) = badReply(c)
      /\ reply = "mention" => routeOrFinalize(k, reply, novel) = w
      /\ reply = "plain" => routeOrFinalize(k, reply, novel) = Onward(tryDispatchNext(a))
  BY DEF routeOrFinalize, Onward
<1>3. reply \in {"bad", "mention", "plain"} BY DEF Replies
<1> HIDE DEF c
<1>4. Shape(a) /\ Same(c, a) BY <1>1 DEF Shape, Same
<1> HIDE DEF a
<1>5. Shape(w) /\ w.round = a.round /\ w.iterations = a.iterations /\ w.out = "classify"
  BY <1>4 DEF Shape, Signals
<1> HIDE DEF w
<1>6. Spent(c) = Spent(k) /\ Spent(a) = Spent(k) /\ Spent(w) = Spent(k) /\ Spent(k) \in Nat
  BY <1>1, <1>4, <1>5, SameSpent, Kept, SpentFacts DEF Same
<1>7. Fits(Spent(k), badReply(c)) BY <1>1, <1>6, BadReplied DEF Same
<1>8. Fits(Spent(k), w) BY <1>5, <1>6, FitsTold
<1>9. Fits(Spent(k), Onward(tryDispatchNext(a))) BY <1>4, <1>6, GoesOn
<1> QED BY <1>2, <1>3, <1>7, <1>8, <1>9

LEMMA Applied ==
  ASSUME NEW k, Shape(k), NEW v
  PROVE  Same(k, applyClassification(k, v))
<1> DEFINE x == Routed(k, v).queue
           y == Routed(k, v).refused
<1>1. applyClassification(k, v) = [k EXCEPT !.queue = x, !.refused = y]
  BY DEF applyClassification
<1> HIDE DEF x, y
<1> QED BY <1>1 DEF Shape, Same

LEMMA FitsSame ==
  ASSUME NEW n \in Nat, NEW k, Fits(n, k), NEW j, Same(k, j)
  PROVE  Fits(n, j)
<1>1. Shape(k) BY DEF Fits
<1>2. Spent(j) = Spent(k) /\ Shape(j) /\ j.out = k.out BY <1>1, SameSpent DEF Same
<1> QED BY <1>2 DEF Fits

\* A second attempt after one that dispatched nobody.
LEMMA FitsThen ==
  ASSUME NEW n \in Nat, NEW k, Fits(n, k), k.out \notin Ended, NEW j, Fits(Spent(k), j)
  PROVE  Fits(n, j)
<1>1. Shape(k) /\ n <= Spent(k) BY DEF Fits
<1>2. Spent(k) \in Nat BY <1>1, SpentFacts
<1> QED BY <1>1, <1>2, FitsWeaker

LEMMA VerdictApplied ==
  ASSUME NEW k, Shape(k), NEW v, NEW ex
  PROVE  Fits(Spent(k), classified(k, v, ex))
<1> DEFINE s == k.responder
           again == v.self /\ ~ex
           a == applyClassification(k, v)
           n == tryDispatchNext(a)
           x == IF v.delegate \in asked THEN v.delegate ELSE None
           q == enqueueTarget(n, x)
           d == IF q.queue = n.queue THEN q ELSE tryDispatchNext(q)
           w == [d EXCEPT !.out = "continue"]
           z == emitCascadeCompleteAndClear(d, "stop")
           j == classified(k, v, ex)
<1>1. /\ n.out = "turn" => j = enqueueTarget(n, s) \/ j = n
      /\ n.out # "turn" => j = d \/ j = w \/ j = z
      /\ n.out # "turn" /\ j # d => d.out # "turn"
  BY DEF classified
<1> HIDE DEF j
<1>2. Same(k, a) BY Applied
<1> HIDE DEF a
<1>3. Fits(Spent(k), n) /\ Spent(k) \in Nat /\ n.out \in {"none", "turn"} /\ Shape(n)
  BY <1>2, SameSpent, Tried, SpentFacts DEF Same, Fits
<1> HIDE DEF n, x
<1>4. CASE n.out = "turn"
  <2>1. Same(n, enqueueTarget(n, s)) BY <1>3, Enqueued
  <2>2. Fits(Spent(k), enqueueTarget(n, s)) BY <1>3, <2>1, FitsSame
  <2>3. Fits(Spent(k), j) BY <1>1, <1>3, <1>4, <2>2
  <2> QED BY <2>3 DEF j
<1>5. CASE n.out = "none"
  <2>1. Same(n, q) BY <1>3, Enqueued
  <2>2. Fits(Spent(k), q) BY <1>3, <2>1, FitsSame
  <2>3. Shape(q) /\ q.out \notin Ended BY <1>5, <2>1 DEF Same, Ended
  <2> HIDE DEF q
  <2>4. Fits(Spent(q), tryDispatchNext(q)) /\ tryDispatchNext(q).out \in {"none", "turn"}
    BY <2>3, Tried
  <2>5. Fits(Spent(k), tryDispatchNext(q)) BY <1>3, <2>2, <2>3, <2>4, FitsThen
  <2>6. q.out = "none" BY <1>5, <2>1 DEF Same
  <2>7. Fits(Spent(k), d) /\ d.out \in {"none", "turn"} BY <2>2, <2>4, <2>5, <2>6
  <2> HIDE DEF d
  <2>8. Shape(d) /\ d.out \notin Ended /\ Spent(k) <= Spent(d) BY <2>7 DEF Fits, Ended
  <2>9. Fits(Spent(k), w)
    <3>1. Shape(w) /\ w.round = d.round /\ w.iterations = d.iterations /\ w.out = "continue"
      BY <2>8 DEF Shape, Signals
    <3> HIDE DEF w
    <3>2. Spent(w) = Spent(d) BY <2>8, <3>1, Kept
    <3> QED BY <1>3, <2>8, <3>1, <3>2, FitsTold
  <2>10. Fits(Spent(k), z)
    <3>1. Fits(Spent(d), z) BY <2>8, Emitted
    <3> HIDE DEF z
    <3> QED BY <1>3, <2>7, <2>8, <3>1, FitsThen
  <2> HIDE DEF w, z
  <2>11. Fits(Spent(k), j) BY <1>1, <1>5, <2>7, <2>9, <2>10
  <2> QED BY <2>11 DEF j
<1> QED BY <1>3, <1>4, <1>5


---------------------------------------------------------------------------
\* Steps

\* The run's reaction to a signal counts a dispatch that has been paid for.
LEMMA Reacted ==
  ASSUME IInv, turn # "idle", NEW k, Fits(Spent(cc), k), NEW reason, React(k, reason)
  PROVE  IInv'
<1> DEFINE j == [k EXCEPT !.out = "none"]
<1>1. /\ cc' = j
      /\ turn' = CASE k.out = "classify" -> "classifying"
                   [] k.out \in {"complete", "paused"} -> "idle"
                   [] OTHER -> "speaking"
      /\ dispatched' = IF k.out = "turn" THEN dispatched + 1 ELSE dispatched
  BY DEF React
<1>2. Shape(k) BY DEF Fits
<1>3. Shape(j) /\ j.round = k.round /\ j.iterations = k.iterations /\ j.out = "none"
  BY <1>2 DEF Shape, Signals
<1> HIDE DEF j
<1>4. Spent(j) = Spent(k) /\ Spent(k) \in Nat BY <1>2, <1>3, Kept, SpentFacts
<1>5. Shape(cc') /\ Spent(cc') = Spent(k) BY <1>1, <1>3, <1>4
<1>6. Shape(cc)' /\ Spent(cc)' = Spent(k) BY <1>5 DEF Shape, Spent
<1>7. /\ dispatched \in Nat /\ dispatched <= Spent(cc) /\ Spent(cc) \in Nat
      /\ dispatched <= MaxAutoRounds * MaxAgentCascade
  BY SpentFacts DEF IInv, BoundedByRounds
<1>8. dispatched' \in Nat BY <1>1, <1>7
<1>9. Spent(k) <= MaxAutoRounds * MaxAgentCascade BY <1>2, SpentFacts
<1>a. MaxAutoRounds * MaxAgentCascade \in Nat BY Caps, Times
<1>b. k.out = "turn" => dispatched' <= Spent(k)
  BY <1>1, <1>4, <1>7 DEF Fits
<1>c. turn' # "idle" => dispatched' <= Spent(k)
  <2>1. CASE k.out = "turn" BY <2>1, <1>b
  <2>2. CASE k.out # "turn" /\ k.out \notin Ended
    <3>1. Spent(cc) <= Spent(k) BY <2>2 DEF Fits
    <3> QED BY <2>2, <3>1, <1>1, <1>4, <1>7
  <2>3. CASE k.out \in Ended
    <3>1. turn' = "idle" BY <2>3, <1>1 DEF Ended
    <3> QED BY <3>1
  <2> QED BY <2>1, <2>2, <2>3
<1>d. dispatched' <= MaxAutoRounds * MaxAgentCascade
  <2>1. CASE k.out = "turn" BY <2>1, <1>b, <1>4, <1>8, <1>9, <1>a
  <2>2. CASE k.out # "turn" BY <2>2, <1>1, <1>7
  <2> QED BY <2>1, <2>2
<1>e. cc'.out = "none" BY <1>1, <1>3
<1> QED BY <1>6, <1>8, <1>c, <1>d, <1>e DEF IInv, BoundedByRounds

LEMMA CarriedOn ==
  ASSUME NEW k, Fits(Spent(cc), k), Shape(cc), k.out \notin Ended, NEW reason
  PROVE  Fits(Spent(cc), emitCascadeCompleteAndClear(k, reason))
<1> DEFINE j == emitCascadeCompleteAndClear(k, reason)
<1>1. Shape(k) BY DEF Fits
<1>2. Fits(Spent(k), j) BY <1>1, Emitted
<1>3. Spent(cc) \in Nat BY SpentFacts
<1> HIDE DEF j
<1>4. Fits(Spent(cc), j) BY <1>2, <1>3, FitsThen
<1> QED BY <1>4 DEF j

LEMMA MessageStep ==
  ASSUME IInv, NEW ms, NEW b, UserMessage(ms, b)
  PROVE  IInv'
<1> DEFINE x == Mentioned(Tail(ms), b).queue
           y == Mentioned(Tail(ms), b).deferred
           z == Head(ms)
           j == [resetTurnState EXCEPT !.queue = x, !.deferred = y, !.responder = z]
<1>1. cc' = j /\ dispatched' = 0 BY DEF UserMessage
<1> HIDE DEF x, y, z
<1>2. Shape(j) /\ j.out = "none" BY ResetShape DEF Shape
<1> HIDE DEF j
<1>3. Shape(cc') /\ Spent(cc') \in Nat BY <1>1, <1>2, SpentFacts
<1>4. Shape(cc)' /\ Spent(cc)' \in Nat BY <1>3 DEF Shape, Spent
<1>5. MaxAutoRounds * MaxAgentCascade \in Nat BY Caps, Times
<1>6. cc'.out = "none" BY <1>1, <1>2
<1> QED BY <1>1, <1>4, <1>5, <1>6 DEF IInv, BoundedByRounds

LEMMA BatchStep ==
  ASSUME IInv, NEW m, ToolBatch(m)
  PROVE  IInv'
<1> DEFINE p == [cc EXCEPT !.progress = TRUE]
           k == enqueueTarget(p, m)
           n == tryDispatchNext(k)
<1>1. Shape(cc) /\ Spent(cc) \in Nat BY SpentFacts DEF IInv
<1>2. turn # "idle" /\ (React(n, "stop") \/ (React(k, "stop") /\ k.queue = cc.queue))
  BY DEF ToolBatch
<1>3. Same(cc, p) BY <1>1 DEF Shape, Same
<1> HIDE DEF p
<1>4. Same(p, k) BY <1>3, Enqueued DEF Same
<1> HIDE DEF k
<1>5. Same(cc, k) BY <1>3, <1>4 DEF Same
<1>6. Shape(k) /\ Spent(k) = Spent(cc) BY <1>1, <1>5, SameSpent DEF Same
<1>7. Fits(Spent(cc), n) BY <1>6, Tried
<1> HIDE DEF n
<1>8. CASE React(n, "stop") BY <1>8, <1>7, <1>2, Reacted
<1>9. CASE React(k, "stop")
  <2>1. Fits(Spent(cc), k) BY <1>6, <1>1, <1>5, FitsTold DEF Same, IInv
  <2> QED BY <1>9, <2>1, <1>2, Reacted
<1> QED BY <1>2, <1>8, <1>9

LEMMA ReplyStep ==
  ASSUME IInv, NEW r \in Replies, NEW novel, Reply(r, novel)
  PROVE  IInv'
<1>1. Shape(cc) /\ turn # "idle" BY DEF IInv, Reply
<1>2. Fits(Spent(cc), emitCascadeCompleteAndClear(cc, "user_message_pending"))
  BY <1>1, Emitted
<1>3. Fits(Spent(cc), routeOrFinalize(cc, r, novel)) BY <1>1, Replied
<1>4. \/ React(emitCascadeCompleteAndClear(cc, "user_message_pending"), "user_message_pending")
      \/ React(routeOrFinalize(cc, r, novel), "stop")
  BY DEF Reply
<1> QED BY <1>1, <1>2, <1>3, <1>4, Reacted

LEMMA CapStep ==
  ASSUME IInv, NEW r, CapReply(r)
  PROVE  IInv'
<1>1. Shape(cc) /\ turn # "idle" BY DEF IInv, CapReply
<1>2. Fits(Spent(cc), emitCascadeCompleteAndClear(cc, r)) BY <1>1, Emitted
<1> QED BY <1>1, <1>2, Reacted DEF CapReply

LEMMA VerdictStep ==
  ASSUME IInv, NEW v, Classified(v)
  PROVE  IInv'
<1>1. Shape(cc) /\ turn # "idle" BY DEF IInv, Classified
<1> DEFINE k == classified(cc, v, nudges[cc.responder] >= MaxDeferred)
           j == [k EXCEPT !.progress = TRUE]
           e == emitCascadeCompleteAndClear(k, "user_message_pending")
<1>2. \/ React(k, "stop")
      \/ k.out = "continue" /\ React(e, "user_message_pending")
      \/ k.out = "continue" /\ React(j, "stop")
  BY DEF Classified
<1>3. Fits(Spent(cc), k) BY <1>1, VerdictApplied
<1> HIDE DEF k
<1>4. CASE React(k, "stop") BY <1>1, <1>3, <1>4, Reacted
<1>5. CASE k.out = "continue" /\ React(e, "user_message_pending")
  <2>1. Fits(Spent(cc), e) BY <1>1, <1>3, <1>5, CarriedOn DEF Ended
  <2> QED BY <1>1, <1>5, <2>1, Reacted
<1>6. CASE k.out = "continue" /\ React(j, "stop")
  <2>1. Same(k, j) BY <1>3 DEF Shape, Same, Fits
  <2> HIDE DEF j
  <2>2. Fits(Spent(cc), j) BY <1>1, <1>3, <2>1, FitsSame, SpentFacts
  <2> QED BY <1>1, <1>6, <2>2, Reacted
<1> QED BY <1>2, <1>4, <1>5, <1>6

LEMMA QuietStep ==
  ASSUME IInv, UNCHANGED <<cc, turn, dispatched>>
  PROVE  IInv'
  BY DEF IInv, Shape, Spent, BoundedByRounds

---------------------------------------------------------------------------

\* The dispatches of a cascade never exceed what rounds and iterations account
\* for, in whatever order replies, retries, verdicts, tool batches, departures
\* and queued user messages arrive.
THEOREM Inductive == Spec => []IInv
<1>1. Init => IInv
  <2> SUFFICES ASSUME Init PROVE IInv OBVIOUS
  <2>1. Shape(cc) /\ cc.out = "none" /\ dispatched = 0 /\ turn = "idle"
    BY ResetShape DEF Init, resetTurnState
  <2>2. MaxAutoRounds * MaxAgentCascade \in Nat BY Caps, Times
  <2> QED BY <2>1, <2>2 DEF IInv, BoundedByRounds
<1>2. IInv /\ [Next]_vars => IInv'
  <2> SUFFICES ASSUME IInv, [Next]_vars PROVE IInv' OBVIOUS
  <2>1. ASSUME NEW ms \in Mentions, NEW b \in BOOLEAN, UserMessage(ms, b) PROVE IInv'
    BY <2>1, MessageStep
  <2>2. CASE TypeAhead BY <2>2, QuietStep DEF TypeAhead
  <2>3. ASSUME NEW m \in Members \cup {None}, ToolBatch(m) PROVE IInv' BY <2>3, BatchStep
  <2>4. ASSUME NEW r \in Replies, NEW novel \in BOOLEAN, Reply(r, novel) PROVE IInv'
    BY <2>4, ReplyStep
  <2>5. ASSUME NEW r \in {"tool_failure_cap", "hard"}, CapReply(r) PROVE IInv' BY <2>5, CapStep
  <2>6. ASSUME NEW v \in Verdicts, Classified(v) PROVE IInv' BY <2>6, VerdictStep
  <2>7. ASSUME NEW m \in Members, MemberLeaves(m) PROVE IInv'
    BY <2>7, QuietStep DEF MemberLeaves
  <2>8. CASE UNCHANGED vars BY <2>8, QuietStep DEF vars
  <2> QED BY <2>1, <2>2, <2>3, <2>4, <2>5, <2>6, <2>7, <2>8 DEF Next
<1> QED BY <1>1, <1>2, PTL DEF Spec

\* cascade-controller.h:211-223: one user message sets off at most as many
\* dispatches as all rounds together allow, for every team and all caps.
THEOREM DispatchesBounded == Spec => []BoundedByRounds
<1>1. IInv => BoundedByRounds BY DEF IInv
<1> QED BY <1>1, Inductive, PTL

---------------------------------------------------------------------------
\* Queues of members

LEMMA Places ==
  ASSUME NEW X, NEW s \in Seq(X)
  PROVE  Len(s) \in Nat /\ DOMAIN s = 1..Len(s) /\ \A i \in 1..Len(s) : s[i] \in X
  BY LenProperties, ElementOfSeq

LEMMA Joins ==
  ASSUME NEW X, NEW s \in Seq(X), IsInjective(s), NEW m \in X, ~Contains(s, m)
  PROVE  /\ Append(s, m) \in Seq(X) /\ IsInjective(Append(s, m))
         /\ \A x : Contains(Append(s, m), x) <=> Contains(s, x) \/ x = m
<1> DEFINE t == Append(s, m)
<1>1. /\ t \in Seq(X) /\ Len(t) = Len(s) + 1 /\ t[Len(s) + 1] = m
      /\ \A i \in 1..Len(s) : t[i] = s[i]
  BY AppendProperties
<1>2. Len(s) \in Nat /\ DOMAIN s = 1..Len(s) /\ DOMAIN t = 1..Len(t)
  BY <1>1, Places
<1> HIDE DEF t
<1>3. \A i \in 1..Len(t) : i \in 1..Len(s) \/ i = Len(s) + 1
  BY <1>1, <1>2
<1>4. \A i \in 1..Len(s) : i \in 1..Len(t) /\ s[i] # m
  BY <1>1, <1>2 DEF Contains
<1>5. Len(s) + 1 \in 1..Len(t)
  BY <1>1, <1>2
<1>6. IsInjective(t)
  <2> SUFFICES ASSUME NEW i \in 1..Len(t), NEW j \in 1..Len(t), t[i] = t[j] PROVE i = j
    BY <1>2 DEF IsInjective
  <2>1. CASE i \in 1..Len(s) /\ j \in 1..Len(s)
    BY <2>1, <1>1, <1>2 DEF IsInjective
  <2>2. CASE i = Len(s) + 1 \/ j = Len(s) + 1
    BY <2>2, <1>1, <1>3, <1>4
  <2> QED BY <1>3, <2>1, <2>2
<1>7. \A x : Contains(t, x) <=> Contains(s, x) \/ x = m
  BY <1>1, <1>3, <1>4, <1>5 DEF Contains
<1> QED BY <1>1, <1>6, <1>7 DEF t

LEMMA Leads ==
  ASSUME NEW X, NEW s \in Seq(X), s # <<>>
  PROVE  /\ Head(s) \in X /\ Tail(s) \in Seq(X)
         /\ IsInjective(s) => IsInjective(Tail(s)) /\ ~Contains(Tail(s), Head(s))
         /\ \A x : Contains(Tail(s), x) => Contains(s, x)
<1> DEFINE t == Tail(s)
<1>1. /\ Head(s) \in X /\ t \in Seq(X) /\ Len(t) = Len(s) - 1
      /\ \A i \in 1..Len(t) : t[i] = s[i + 1]
  BY HeadTailProperties
<1>2. Len(s) \in Nat /\ DOMAIN s = 1..Len(s) /\ DOMAIN t = 1..Len(t) /\ Len(s) # 0
  BY <1>1, Places, EmptySeq
<1>3. Head(s) = s[1]
  OBVIOUS
<1> HIDE DEF t
<1>4. \A i \in 1..Len(t) : i + 1 \in 1..Len(s) /\ i + 1 # 1
  BY <1>1, <1>2
<1>5. 1 \in 1..Len(s)
  BY <1>2
<1>6. ASSUME IsInjective(s) PROVE IsInjective(t) /\ ~Contains(t, Head(s))
  <2>1. \A i, j \in 1..Len(t) : t[i] = t[j] => i + 1 = j + 1
    BY <1>1, <1>2, <1>4, <1>6 DEF IsInjective
  <2>2. \A i \in 1..Len(t) : t[i] # s[1]
    BY <1>1, <1>2, <1>4, <1>5, <1>6 DEF IsInjective
  <2> QED BY <1>2, <1>3, <2>1, <2>2 DEF IsInjective, Contains
<1>7. \A x : Contains(t, x) => Contains(s, x)
  BY <1>1, <1>4 DEF Contains
<1> QED BY <1>1, <1>6, <1>7 DEF t

LEMMA NatMin ==
  ASSUME NEW S \in SUBSET Nat, S # {}
  PROVE  \E x \in S : \A y \in S : x <= y
<1> DEFINE R == OpToRel(<, Nat)
<1>1. PICK x \in S : \A y \in S : ~(<<y, x>> \in R)
  <2>1. IsWellFoundedOn(R, Nat)
    BY NatLessThanWellFounded
  <2> HIDE DEF R
  <2> QED BY <2>1, WFMin
<1>2. ASSUME NEW y \in S PROVE x <= y
  <2>1. x \in Nat /\ y \in Nat
    BY <1>1
  <2>2. y < x => <<y, x>> \in R
    BY <2>1 DEF OpToRel
  <2>3. ~(y < x)
    BY <1>1, <2>2
  <2> QED BY <2>1, <2>3
<1> QED BY <1>1, <1>2

\* What holds at 0 and survives a step holds of every place.
LEMMA StepByStep ==
  ASSUME NEW n \in Nat, NEW S, 0 \in S,
         \A i \in 1..n : i - 1 \in S => i \in S
  PROVE  0..n \subseteq S
<1> DEFINE D == {i \in 0..n : i \notin S}
<1>1. CASE D # {}
  <2>0. D \in SUBSET Nat
    OBVIOUS
  <2> HIDE DEF D
  <2>1. PICK x \in D : \A y \in D : x <= y
    BY <1>1, <2>0, NatMin
  <2> USE DEF D
  <2>2. x \in 1..n /\ x - 1 \in 0..n /\ x - 1 < x
    BY <2>1
  <2>3. x - 1 \in S
    BY <2>1, <2>2
  <2> QED BY <2>1, <2>2, <2>3
<1> QED BY <1>1

LEMMA ResolvedFacts ==
  ASSUME NEW q \in Seq(Members)
  PROVE  /\ Resolved(q) \in Seq(Members)
         /\ IsInjective(q) => IsInjective(Resolved(q))
         /\ (\E m \in roster : Contains(q, m)) => Resolved(q) # <<>>
<1> DEFINE at == {i \in DOMAIN q : q[i] \in roster}
           f == CHOOSE i \in at : \A j \in at : i <= j
           r == SubSeq(q, f, Len(q))
<1>1. Len(q) \in Nat /\ DOMAIN q = 1..Len(q) /\ \A i \in 1..Len(q) : q[i] \in Members
  BY Places
<1>2. CASE at = {}
  <2>1. Resolved(q) = <<>>
    BY <1>2 DEF Resolved
  <2>2. ~\E m \in roster : Contains(q, m)
    BY <1>1, <1>2 DEF Contains
  <2> QED BY <2>1, <2>2, EmptySeq DEF IsInjective
<1>3. CASE at # {}
  <2>1. Resolved(q) = r
    BY <1>3 DEF Resolved
  <2>2. f \in at
    <3>1. at \in SUBSET Nat
      BY <1>1
    <3> HIDE DEF at
    <3>2. \E i \in at : \A j \in at : i <= j
      BY <1>3, <3>1, NatMin
    <3> QED BY <3>2
  <2>3. f \in 1..Len(q)
    BY <1>1, <2>2
  <2> HIDE DEF f
  <2>4. /\ r \in Seq(Members) /\ Len(r) = Len(q) - f + 1
        /\ \A i \in 1..Len(q) - f + 1 : r[i] = q[f + i - 1]
    BY <1>1, <2>3, SubSeqProperties
  <2>5. DOMAIN r = 1..Len(r)
    BY <2>4, Places
  <2> HIDE DEF r
  <2>6. \A i \in 1..Len(r) : f + i - 1 \in 1..Len(q)
    BY <1>1, <2>3, <2>4
  <2>7. ASSUME IsInjective(q) PROVE IsInjective(r)
    <3>1. \A i, j \in 1..Len(r) : r[i] = r[j] => f + i - 1 = f + j - 1
      BY <1>1, <2>4, <2>6, <2>7 DEF IsInjective
    <3>2. \A i, j \in 1..Len(r) : f + i - 1 = f + j - 1 => i = j
      BY <1>1, <2>3, <2>4
    <3> QED BY <2>5, <3>1, <3>2 DEF IsInjective
  <2>8. r # <<>>
    BY <1>1, <2>3, <2>4, EmptySeq
  <2> QED BY <2>1, <2>4, <2>7, <2>8
<1> QED BY <1>2, <1>3

---------------------------------------------------------------------------
\* Who waits, and behind whom

Aliases == Members \cup {None}

\* The queues name members, nobody waits twice in one of them, and nobody who
\* speaks waits in the immediate one.
Line(k) ==
  /\ k.queue \in Seq(Members) /\ IsInjective(k.queue)
  /\ k.deferred \in Seq(Members) /\ IsInjective(k.deferred)
  /\ k.responder \in Aliases /\ ~Contains(k.queue, k.responder)

\* A member who still resolves waits.
Waits(k) == \E m \in roster : Contains(k.queue, m) \/ Contains(k.deferred, m)

\* The line of j continues that of k: nobody was sent away, nobody spoke.
Grown(k, j) ==
  /\ Same(k, j) /\ Line(j) /\ j.responder = k.responder /\ j.deferred = k.deferred
  /\ \A m : Contains(k.queue, m) => Contains(j.queue, m)

LEMMA GrownSame ==
  ASSUME NEW k, Shape(k), Line(k)
  PROVE  Grown(k, k)
  BY DEF Grown, Same

LEMMA GrownTwice ==
  ASSUME NEW i, NEW j, NEW k, Grown(i, j), Grown(j, k)
  PROVE  Grown(i, k)
  BY DEF Grown, Same

LEMMA Fields ==
  ASSUME NEW k, Shape(k)
  PROVE  /\ \A x : LET j == [k EXCEPT !.queue = x]
                   IN  /\ Shape(j) /\ Same(k, j) /\ j.queue = x
                       /\ j.deferred = k.deferred /\ j.responder = k.responder
         /\ \A x : LET j == [k EXCEPT !.deferred = x]
                   IN  /\ Shape(j) /\ Same(k, j) /\ j.queue = k.queue
                       /\ j.deferred = x /\ j.responder = k.responder
         /\ \A x : LET j == [k EXCEPT !.refused = x]
                   IN  /\ Shape(j) /\ Same(k, j) /\ j.queue = k.queue
                       /\ j.deferred = k.deferred /\ j.responder = k.responder
  BY DEF Shape, Same

LEMMA EnqueuedLine ==
  ASSUME NEW k, Shape(k), Line(k), NEW m \in Aliases
  PROVE  Grown(k, enqueueTarget(k, m))
<1> DEFINE q == Append(k.queue, m)
           long == [k EXCEPT !.queue = q]
           seen == [k EXCEPT !.refused = m]
           j == enqueueTarget(k, m)
<1>1. CASE j = k
  BY <1>1, GrownSame
<1>2. CASE j = seen
  <2>1. Grown(k, seen)
    BY Fields DEF Grown, Line
  <2> HIDE DEF seen
  <2> QED BY <1>2, <2>1
<1>3. CASE j = long /\ m \notin {None, k.responder} /\ ~Contains(k.queue, m)
  <2>1. m \in Members
    BY <1>3 DEF Aliases
  <2>2. /\ q \in Seq(Members) /\ IsInjective(q)
        /\ \A x : Contains(q, x) <=> Contains(k.queue, x) \/ x = m
    BY <1>3, <2>1, Joins DEF Line
  <2> HIDE DEF q
  <2>3. /\ Same(k, long) /\ long.queue = q
        /\ long.deferred = k.deferred /\ long.responder = k.responder
    BY Fields
  <2> HIDE DEF long
  <2>4. Grown(k, long)
    BY <1>3, <2>2, <2>3 DEF Grown, Line
  <2> QED BY <1>3, <2>4
<1>4. j = k \/ j = seen \/ (j = long /\ m \notin {None, k.responder} /\ ~Contains(k.queue, m))
  BY DEF enqueueTarget
<1> QED BY <1>1, <1>2, <1>3, <1>4

---------------------------------------------------------------------------
\* Targets and mentions, one after the other

\* f[i] is k once the first i targets of v have been invited.
Invites(f, n, k, v) ==
  f = [i \in 0..n |-> IF i = 0 THEN k ELSE Invite(f[i - 1], v, v.targets[i])]

LEMMA InvitesExist ==
  ASSUME NEW n \in Nat, NEW k, NEW v
  PROVE  \E f : Invites(f, n, k, v)
<1> DEFINE S == {i \in 0..n : \E f : Invites(f, i, k, v)}
<1>1. 0 \in S
  <2> DEFINE f == [i \in 0..0 |-> k]
  <2>1. Invites(f, 0, k, v)
    BY DEF Invites
  <2> QED BY <2>1
<1>2. ASSUME NEW i \in 1..n, i - 1 \in S PROVE i \in S
  <2>1. PICK f : Invites(f, i - 1, k, v)
    BY <1>2
  <2> DEFINE g == [x \in 0..i |-> IF x = i THEN Invite(f[i - 1], v, v.targets[i]) ELSE f[x]]
  <2>2. DOMAIN f = 0..(i - 1)
        /\ \A x \in 0..(i - 1) : f[x] = IF x = 0 THEN k ELSE Invite(f[x - 1], v, v.targets[x])
    BY <2>1 DEF Invites
  <2>3. ASSUME NEW x \in 0..i
        PROVE  g[x] = IF x = 0 THEN k ELSE Invite(g[x - 1], v, v.targets[x])
    <3>1. CASE x = 0
      <4>1. 0 \in 0..(i - 1) /\ 0 # i
        OBVIOUS
      <4>2. f[0] = k
        BY <4>1, <2>2
      <4> QED BY <3>1, <4>1, <4>2
    <3>2. CASE x # 0 /\ x # i
      <4>1. x \in 0..(i - 1) /\ x - 1 \in 0..i /\ x - 1 # i
        BY <3>2
      <4> QED BY <3>2, <4>1, <2>2
    <3>3. CASE x = i
      <4>1. i # 0 /\ i - 1 \in 0..i /\ i - 1 # i
        OBVIOUS
      <4> QED BY <3>3, <4>1
    <3> QED BY <3>1, <3>2, <3>3
  <2>4. Invites(g, i, k, v)
    <3>1. g = [x \in 0..i |-> g[x]]
      OBVIOUS
    <3> HIDE DEF g
    <3> QED BY <2>3, <3>1 DEF Invites
  <2> HIDE DEF g
  <2>5. i \in 0..n
    OBVIOUS
  <2> QED BY <2>4, <2>5
<1> HIDE DEF S
<1>3. 0..n \subseteq S
  BY <1>1, <1>2, StepByStep
<1>4. n \in S
  BY <1>3
<1> QED BY <1>4 DEF S

LEMMA VerdictFacts ==
  ASSUME NEW v \in Verdicts
  PROVE  /\ Len(v.targets) \in Nat
         /\ \A i \in 1..Len(v.targets) : v.targets[i] \in Members
         /\ v.delegate \in Aliases
<1>1. v.targets \in BoundedSeq(Members, MaxTargets) /\ v.delegate \in Aliases
  BY DEF Verdicts, Aliases
<1>2. PICK n \in 0..MaxTargets : v.targets \in [1..n -> Members]
  BY <1>1 DEF BoundedSeq, SeqOf
<1>3. n \in Nat
  BY <1>2, CapsAssumption
<1>4. Len(v.targets) = n
  BY <1>2, <1>3
<1> QED BY <1>1, <1>2, <1>3, <1>4

LEMMA RoutedLine ==
  ASSUME NEW k, Shape(k), Line(k), NEW v \in Verdicts
  PROVE  Grown(k, Routed(k, v))
<1> DEFINE n == Len(v.targets)
           f == CHOOSE f : Invites(f, n, k, v)
           S == {i \in 0..n : Grown(k, f[i])}
<1>1. n \in Nat /\ \A i \in 1..n : v.targets[i] \in Members
  BY VerdictFacts
<1>2. Routed(k, v) = f[n]
  BY DEF Routed, Invites
<1>3. Invites(f, n, k, v)
  BY <1>1, InvitesExist
<1> HIDE DEF f, n
<1>4. \A i \in 0..n : f[i] = IF i = 0 THEN k ELSE Invite(f[i - 1], v, v.targets[i])
  BY <1>3 DEF Invites
<1>5. 0 \in S
  BY <1>1, <1>4, GrownSame
<1>6. ASSUME NEW i \in 1..n, i - 1 \in S PROVE i \in S
  <2>1. i \in 0..n /\ i # 0 /\ f[i] = Invite(f[i - 1], v, v.targets[i])
    BY <1>1, <1>4
  <2>2. Grown(k, f[i - 1])
    BY <1>6
  <2>3. Shape(f[i - 1]) /\ Line(f[i - 1]) /\ v.targets[i] \in Aliases
    BY <1>1, <2>2 DEF Grown, Same, Aliases
  <2>4. Grown(f[i - 1], Invite(f[i - 1], v, v.targets[i]))
    BY <2>3, EnqueuedLine, GrownSame DEF Invite
  <2> QED BY <2>1, <2>2, <2>4, GrownTwice
<1> HIDE DEF S
<1>7. 0..n \subseteq S
  BY <1>1, <1>5, <1>6, StepByStep
<1>8. n \in S
  BY <1>1, <1>7
<1> QED BY <1>2, <1>8 DEF S

LEMMA AppliedLine ==
  ASSUME NEW k, Shape(k), Line(k), NEW v \in Verdicts
  PROVE  Grown(k, applyClassification(k, v))
<1> DEFINE r == Routed(k, v)
           a == [k EXCEPT !.queue = r.queue, !.refused = r.refused]
<1>1. Grown(k, r)
  BY RoutedLine
<1> HIDE DEF r
<1>2. applyClassification(k, v) = a
  BY DEF applyClassification, r
<1>3. Same(k, a) /\ a.queue = r.queue /\ a.deferred = k.deferred /\ a.responder = k.responder
  BY DEF Shape, Same
<1> HIDE DEF a
<1> QED BY <1>1, <1>2, <1>3 DEF Grown, Line

\* The mentions that wait: they are among X, and none waits twice in a queue.
Listed(k, X) ==
  /\ Shape(k) /\ k.queue \in Seq(X) /\ IsInjective(k.queue)
  /\ k.deferred \in Seq(X) /\ IsInjective(k.deferred)

LEMMA EnqueuedListed ==
  ASSUME NEW X, NEW k, Listed(k, X), NEW m \in X
  PROVE  Listed(enqueueTarget(k, m), X) /\ Listed(enqueueDeferredTarget(k, m), X)
<1> DEFINE q == Append(k.queue, m)
           d == Append(k.deferred, m)
           seen == [k EXCEPT !.refused = m]
           long == [k EXCEPT !.queue = q]
           later == [k EXCEPT !.deferred = d]
<1>0. Shape(k)
  BY DEF Listed
<1>1. Listed(seen, X)
  BY <1>0, Fields DEF Listed
<1>2. ~Contains(k.queue, m) => Listed(long, X)
  <2>1. ~Contains(k.queue, m) => q \in Seq(X) /\ IsInjective(q)
    BY Joins DEF Listed
  <2> HIDE DEF q
  <2>2. Shape(long) /\ long.queue = q /\ long.deferred = k.deferred
    BY <1>0, Fields
  <2> HIDE DEF long
  <2> QED BY <2>1, <2>2 DEF Listed
<1>3. ~Contains(k.deferred, m) => Listed(later, X)
  <2>1. ~Contains(k.deferred, m) => d \in Seq(X) /\ IsInjective(d)
    BY Joins DEF Listed
  <2> HIDE DEF d
  <2>2. Shape(later) /\ later.queue = k.queue /\ later.deferred = d
    BY <1>0, Fields
  <2> HIDE DEF later
  <2> QED BY <2>1, <2>2 DEF Listed
<1>4. /\ enqueueTarget(k, m) \in {k, seen, long}
      /\ enqueueTarget(k, m) = k \/ enqueueTarget(k, m) = seen \/ ~Contains(k.queue, m)
  BY DEF enqueueTarget
<1>5. \/ enqueueDeferredTarget(k, m) \in {k, seen}
      \/ enqueueDeferredTarget(k, m) = later /\ ~Contains(k.deferred, m)
  BY DEF enqueueDeferredTarget
<1> HIDE DEF seen, long, later
<1> QED BY <1>1, <1>2, <1>3, <1>4, <1>5

\* f[i] is the controller once the first i members of ms have been lined up.
Mentioning(f, n, ms, b) ==
  f = [i \in 0..n |-> IF i = 0 THEN resetTurnState ELSE LineUp(f[i - 1], ms[i], b)]

LEMMA MentioningExists ==
  ASSUME NEW n \in Nat, NEW ms, NEW b \in BOOLEAN
  PROVE  \E f : Mentioning(f, n, ms, b)
<1> DEFINE S == {i \in 0..n : \E f : Mentioning(f, i, ms, b)}
<1>1. 0 \in S
  <2> DEFINE f == [i \in 0..0 |-> resetTurnState]
  <2>1. Mentioning(f, 0, ms, b)
    BY DEF Mentioning
  <2> QED BY <2>1
<1>2. ASSUME NEW i \in 1..n, i - 1 \in S PROVE i \in S
  <2>1. PICK f : Mentioning(f, i - 1, ms, b)
    BY <1>2
  <2> DEFINE g == [x \in 0..i |-> IF x = i THEN LineUp(f[i - 1], ms[i], b) ELSE f[x]]
  <2>2. DOMAIN f = 0..(i - 1) /\ \A x \in 0..(i - 1) :
          f[x] = IF x = 0 THEN resetTurnState ELSE LineUp(f[x - 1], ms[x], b)
    BY <2>1 DEF Mentioning
  <2>3. ASSUME NEW x \in 0..i
        PROVE  g[x] = IF x = 0 THEN resetTurnState ELSE LineUp(g[x - 1], ms[x], b)
    <3>1. CASE x = 0
      <4>1. 0 \in 0..(i - 1) /\ 0 # i
        OBVIOUS
      <4>2. f[0] = resetTurnState
        BY <4>1, <2>2
      <4> QED BY <3>1, <4>1, <4>2
    <3>2. CASE x # 0 /\ x # i
      <4>1. x \in 0..(i - 1) /\ x - 1 \in 0..i /\ x - 1 # i
        BY <3>2
      <4>2. g[x] = f[x] /\ g[x - 1] = f[x - 1]
        BY <3>2, <4>1
      <4> HIDE DEF g
      <4> QED BY <4>1, <4>2, <2>2
    <3>3. CASE x = i
      <4>1. i # 0 /\ i - 1 \in 0..i /\ i - 1 # i
        OBVIOUS
      <4> QED BY <3>3, <4>1
    <3> QED BY <3>1, <3>2, <3>3
  <2>4. Mentioning(g, i, ms, b)
    <3>1. g = [x \in 0..i |-> g[x]]
      OBVIOUS
    <3> HIDE DEF g
    <3> QED BY <2>3, <3>1 DEF Mentioning
  <2> HIDE DEF g
  <2>5. i \in 0..n
    OBVIOUS
  <2> QED BY <2>4, <2>5
<1> HIDE DEF S
<1>3. 0..n \subseteq S
  BY <1>1, <1>2, StepByStep
<1>4. n \in S
  BY <1>3
<1> QED BY <1>4 DEF S

LEMMA MentionedLine ==
  ASSUME NEW X, NEW ms \in Seq(X), NEW b \in BOOLEAN
  PROVE  Listed(Mentioned(ms, b), X)
<1> DEFINE n == Len(ms)
           f == CHOOSE f : Mentioning(f, n, ms, b)
           S == {i \in 0..n : Listed(f[i], X)}
<1>1. n \in Nat /\ \A i \in 1..n : ms[i] \in X
  BY Places
<1>2. Mentioned(ms, b) = f[n]
  BY DEF Mentioned, Mentioning
<1>3. Mentioning(f, n, ms, b)
  BY <1>1, MentioningExists
<1> HIDE DEF f, n
<1>4. \A i \in 0..n : f[i] = IF i = 0 THEN resetTurnState ELSE LineUp(f[i - 1], ms[i], b)
  BY <1>3 DEF Mentioning
<1>5. 0 \in S
  <2>1. 0 \in 0..n /\ f[0] = resetTurnState
    BY <1>1, <1>4
  <2>2. resetTurnState.queue = <<>> /\ resetTurnState.deferred = <<>>
    BY DEF resetTurnState
  <2>3. Listed(resetTurnState, X)
    BY <2>2, ResetShape, EmptySeq DEF Listed, IsInjective
  <2> QED BY <2>1, <2>3
<1>6. ASSUME NEW i \in 1..n, i - 1 \in S PROVE i \in S
  <2>1. i \in 0..n /\ i # 0 /\ ms[i] \in X
    BY <1>1
  <2>2. f[i] = LineUp(f[i - 1], ms[i], b)
    BY <1>4, <2>1
  <2>3. Listed(f[i - 1], X)
    BY <1>6
  <2> QED BY <2>1, <2>2, <2>3, EnqueuedListed DEF LineUp
<1> HIDE DEF S
<1>7. 0..n \subseteq S
  BY <1>1, <1>5, <1>6, StepByStep
<1>8. n \in S
  BY <1>1, <1>7
<1> QED BY <1>2, <1>8 DEF S

---------------------------------------------------------------------------
\* Operations on the line

\* An operation on k left j: whoever waited goes on waiting, unless somebody
\* speaks next or the end is a visible pause.
Serves(k, j) ==
  /\ Line(j)
  /\ Waits(k) => j.out \in {"turn", "paused"} \/ (Waits(j) /\ j.out # "complete")

LEMMA GrownWaits ==
  ASSUME NEW k, NEW j, Grown(k, j), Waits(k)
  PROVE  Waits(j)
  BY DEF Grown, Waits

\* Serving what the line has grown to serves the line.
LEMMA ServesGrown ==
  ASSUME NEW k, NEW j, Grown(k, j), NEW i, Serves(j, i)
  PROVE  Serves(k, i)
  BY GrownWaits DEF Serves

LEMMA GrownServes ==
  ASSUME NEW k, NEW j, Grown(k, j), NEW i, Serves(i, k), k.out = "none"
  PROVE  Serves(i, j)
  BY GrownWaits DEF Serves, Grown, Same

LEMMA TriedLine ==
  ASSUME NEW k, Shape(k), Line(k)
  PROVE  Serves(k, tryDispatchNext(k))
<1> DEFINE q == Resolved(k.queue)
           d == Resolved(k.deferred)
           stay == [k EXCEPT !.out = "none"]
           none == [k EXCEPT !.queue = <<>>, !.deferred = <<>>, !.out = "none"]
           first == [k EXCEPT !.queue = Tail(q), !.responder = Head(q),
                              !.iterations = @ + 1, !.out = "turn"]
           second == [k EXCEPT !.queue = <<>>, !.deferred = Tail(d), !.responder = Head(d),
                               !.iterations = @ + 1, !.out = "turn"]
           j == tryDispatchNext(k)
<1>1. /\ q \in Seq(Members) /\ IsInjective(q)
      /\ d \in Seq(Members) /\ IsInjective(d)
      /\ Waits(k) => q # <<>> \/ d # <<>>
  BY ResolvedFacts DEF Line, Waits
<1>2. k.iterations >= MaxAgentCascade <=> ~(k.iterations < MaxAgentCascade)
  BY SpentFacts, Caps
<1>3. \/ j = stay
      \/ j = none /\ q = <<>> /\ d = <<>>
      \/ j = first /\ q # <<>>
      \/ j = second /\ d # <<>>
  BY <1>2 DEF tryDispatchNext
<1>4. IsInjective(<<>>) /\ <<>> \in Seq(Members) /\ \A x : ~Contains(<<>>, x)
  BY EmptySeq DEF IsInjective, Contains
<1> HIDE DEF q, d, j
<1>5. Serves(k, stay)
  <2>1. stay.queue = k.queue /\ stay.deferred = k.deferred /\ stay.responder = k.responder
        /\ stay.out = "none"
    BY DEF Shape
  <2> HIDE DEF stay
  <2> QED BY <2>1 DEF Serves, Line, Waits
<1>6. ASSUME q = <<>>, d = <<>> PROVE Serves(k, none)
  <2>1. none.queue = <<>> /\ none.deferred = <<>> /\ none.responder = k.responder
        /\ none.out = "none"
    BY DEF Shape
  <2> HIDE DEF none
  <2> QED BY <1>1, <1>4, <1>6, <2>1 DEF Serves, Line
<1>7. ASSUME q # <<>> PROVE Serves(k, first)
  <2> DEFINE h == Head(q)
             t == Tail(q)
  <2>1. h \in Members /\ t \in Seq(Members) /\ IsInjective(t) /\ ~Contains(t, h)
    BY <1>1, <1>7, Leads
  <2> HIDE DEF h, t
  <2>2. first.queue = t /\ first.deferred = k.deferred /\ first.responder = h
        /\ first.out = "turn"
    BY DEF Shape, h, t
  <2> HIDE DEF first
  <2> QED BY <2>1, <2>2 DEF Serves, Line, Aliases
<1>8. ASSUME d # <<>> PROVE Serves(k, second)
  <2> DEFINE h == Head(d)
             t == Tail(d)
  <2>1. h \in Members /\ t \in Seq(Members) /\ IsInjective(t)
    BY <1>1, <1>8, Leads
  <2> HIDE DEF h, t
  <2>2. second.queue = <<>> /\ second.deferred = t /\ second.responder = h
        /\ second.out = "turn"
    BY DEF Shape, h, t
  <2> HIDE DEF second
  <2> QED BY <1>4, <2>1, <2>2 DEF Serves, Line, Aliases
<1> HIDE DEF stay, none, first, second
<1>9. Serves(k, j)
  BY <1>3, <1>5, <1>6, <1>7, <1>8
<1> QED BY <1>9 DEF j

LEMMA FreshLine ==
  ASSUME NEW r, r.queue = <<>>, r.deferred = <<>>, r.responder \in Aliases
  PROVE  Line(r)
  BY EmptySeq DEF Line, IsInjective, Contains

LEMMA NextRoundLine ==
  ASSUME NEW k, Shape(k), Line(k), k.round < MaxAutoRounds, roster \subseteq Members
  PROVE  Line(nextRound(k))
<1> DEFINE r == [resetTurnState EXCEPT !.responder = k.responder,
                                       !.retries = k.retries, !.round = k.round + 1]
           m == NextAlias(k)
           e == IF m \in roster THEN enqueueTarget(r, m) ELSE r
<1>1. k.round + 1 \in 1..MaxAutoRounds
  BY SpentFacts, Caps
<1>2. Shape(r) /\ r.queue = <<>> /\ r.deferred = <<>> /\ r.responder = k.responder
  BY <1>1, ResetShape DEF Shape, resetTurnState
<1>3. nextRound(k) = tryDispatchNext(e)
  BY DEF nextRound
<1> HIDE DEF r, m
<1>4. Line(r)
  BY <1>2, FreshLine DEF Line
<1>5. Shape(e) /\ Line(e)
  BY <1>2, <1>4, EnqueuedLine DEF Aliases, Grown, Same
<1> HIDE DEF e
<1>6. Line(tryDispatchNext(e))
  BY <1>5, TriedLine DEF Serves
<1> QED BY <1>3, <1>6

LEMMA EmittedLine ==
  ASSUME NEW k, Shape(k), Line(k), roster \subseteq Members, NEW reason
  PROVE  LET j == emitCascadeCompleteAndClear(k, reason)
         IN  Line(j) /\ (Waits(k) /\ reason # "hard" => j.out # "complete")
<1> DEFINE n == nextRound(k)
           open == WorkWaiting(k) /\ reason # "hard"
           j == emitCascadeCompleteAndClear(k, reason)
<1>1. CASE open /\ k.progress /\ k.round < MaxAutoRounds /\ n.out = "turn"
  <2>1. j = n
    BY <1>1 DEF emitCascadeCompleteAndClear
  <2>2. Line(n)
    BY <1>1, NextRoundLine
  <2> HIDE DEF n, j
  <2> QED BY <1>1, <2>1, <2>2 DEF j
<1>2. CASE ~(open /\ k.progress /\ k.round < MaxAutoRounds /\ n.out = "turn")
  <2>1. j = complete(k, open)
    BY <1>2 DEF emitCascadeCompleteAndClear
  <2>2. Waits(k) => WorkWaiting(k)
    <3>1. \A x : ~Contains(<<>>, x)
      BY EmptySeq DEF Contains
    <3> QED BY <3>1 DEF Waits, WorkWaiting
  <2> DEFINE o == IF open THEN "paused" ELSE "complete"
  <2>3. complete(k, open) = [resetTurnState EXCEPT !.out = o]
    BY DEF complete
  <2> HIDE DEF o
  <2>4. /\ complete(k, open).queue = <<>> /\ complete(k, open).deferred = <<>>
        /\ complete(k, open).responder = None /\ complete(k, open).out = o
    BY <2>3 DEF resetTurnState
  <2> HIDE DEF n, j, open
  <2>5. Line(j) /\ j.out = o
    BY <2>1, <2>4, FreshLine DEF Aliases
  <2>6. Waits(k) /\ reason # "hard" => o # "complete"
    BY <2>2 DEF o, open
  <2> QED BY <2>5, <2>6 DEF j
<1> QED BY <1>1, <1>2

LEMMA OnwardLine ==
  ASSUME NEW k, Shape(k), Line(k), roster \subseteq Members
  PROVE  Serves(k, Onward(tryDispatchNext(k)))
<1> DEFINE n == tryDispatchNext(k)
           j == emitCascadeCompleteAndClear(n, "stop")
<1>1. Serves(k, n) /\ Shape(n) /\ n.out \in {"none", "turn"}
  BY TriedLine, Tried DEF Fits
<1>2. j.out \in Ended \cup {"turn"}
  BY <1>1, Emitted
<1>3. Line(j) /\ (Waits(n) => j.out # "complete")
  BY <1>1, EmittedLine DEF Serves
<1>4. Onward(n) = IF n.out = "turn" THEN n ELSE j
  BY DEF Onward
<1> HIDE DEF n, j
<1>5. CASE n.out = "turn"
  BY <1>1, <1>4, <1>5 DEF n
<1>6. CASE n.out = "none"
  <2>1. Serves(k, j)
    BY <1>1, <1>2, <1>3, <1>6 DEF Serves, Ended
  <2> QED BY <1>4, <1>6, <2>1 DEF n
<1> QED BY <1>1, <1>5, <1>6

\* The queues and the speaker stay as they are.
Stays(k, j) ==
  j.queue = k.queue /\ j.deferred = k.deferred /\ j.responder = k.responder

LEMMA StaysServes ==
  ASSUME NEW k, NEW j, Stays(k, j), Line(k)
  PROVE  /\ Line(j) /\ (Waits(j) <=> Waits(k))
         /\ j.out # "complete" => Serves(k, j)
         /\ \A i : Serves(j, i) <=> Serves(k, i)
<1>1. Line(j) /\ (Waits(j) <=> Waits(k))
  BY DEF Stays, Line, Waits
<1> QED BY <1>1 DEF Serves

LEMMA BadReplyLine ==
  ASSUME NEW k, Shape(k), Line(k), roster \subseteq Members
  PROVE  Serves(k, badReply(k))
<1> DEFINE m == k.responder
           c == [k EXCEPT !.retries[m] = 0]
           b == [k EXCEPT !.retries[m] = @ + 1, !.progress = TRUE, !.out = "retry",
                          !.turns[m] = IF @ > 0 THEN @ - 1 ELSE 0]
<1>1. badReply(k) = IF k.retries[m] < MaxEchoRetries THEN b ELSE Onward(tryDispatchNext(c))
  BY DEF badReply, Onward
<1>2. Same(k, c) /\ Stays(k, c)
  BY DEF Shape, Same, Stays
<1>3. Stays(k, b) /\ b.out = "retry"
  BY DEF Shape, Stays
<1> HIDE DEF m, c, b
<1>4. Serves(k, b)
  BY <1>3, StaysServes
<1>5. Serves(k, Onward(tryDispatchNext(c)))
  BY <1>2, StaysServes, OnwardLine DEF Same
<1> QED BY <1>1, <1>4, <1>5

LEMMA RepliedLine ==
  ASSUME NEW k, Shape(k), Line(k), roster \subseteq Members, NEW reply \in Replies, NEW novel
  PROVE  Serves(k, routeOrFinalize(k, reply, novel))
<1> DEFINE m == k.responder
           c == [k EXCEPT !.turns[m] = @ + 1]
           a == [c EXCEPT !.progress = @ \/ novel, !.retries[m] = 0]
           w == [a EXCEPT !.out = "classify"]
<1>1. Same(k, c) /\ Stays(k, c)
  BY DEF Shape, Same, Stays
<1>2. /\ reply = "bad" => routeOrFinalize(k, reply, novel) = badReply(c)
      /\ reply = "mention" => routeOrFinalize(k, reply, novel) = w
      /\ reply = "plain" => routeOrFinalize(k, reply, novel) = Onward(tryDispatchNext(a))
  BY DEF routeOrFinalize, Onward
<1>3. reply \in {"bad", "mention", "plain"}
  BY DEF Replies
<1> HIDE DEF c
<1>4. Same(c, a) /\ Stays(c, a)
  BY <1>1 DEF Shape, Same, Stays
<1> HIDE DEF a
<1>5. Stays(a, w) /\ w.out = "classify"
  BY <1>4 DEF Shape, Same, Stays
<1> HIDE DEF w
<1>6. Stays(k, a) /\ Stays(k, w) /\ Shape(c) /\ Shape(a)
  BY <1>1, <1>4, <1>5 DEF Stays, Same
<1>7. Line(c) /\ Line(a)
  BY <1>1, <1>6, StaysServes
<1>8. Serves(k, badReply(c))
  BY <1>1, <1>6, <1>7, BadReplyLine, StaysServes
<1>9. Serves(k, w)
  BY <1>5, <1>6, StaysServes
<1>10. Serves(k, Onward(tryDispatchNext(a)))
  BY <1>6, <1>7, OnwardLine, StaysServes
<1> QED BY <1>2, <1>3, <1>8, <1>9, <1>10

\* A verdict that only told the line to go on may be followed by another try.
LEMMA ServesThen ==
  ASSUME NEW k, NEW j, Serves(k, j), j.out \in {"none", "continue"}, NEW i, Serves(j, i)
  PROVE  Serves(k, i)
  BY DEF Serves

LEMMA VerdictLine ==
  ASSUME NEW k, Shape(k), Line(k), roster \subseteq Members, NEW v \in Verdicts, NEW ex
  PROVE  Serves(k, classified(k, v, ex))
<1> DEFINE s == k.responder
           again == v.self /\ ~ex
           a == applyClassification(k, v)
           n == tryDispatchNext(a)
           x == IF v.delegate \in asked THEN v.delegate ELSE None
           q == enqueueTarget(n, x)
           d == IF q.queue = n.queue THEN q ELSE tryDispatchNext(q)
           w == [d EXCEPT !.out = "continue"]
           z == emitCascadeCompleteAndClear(d, "stop")
           j == classified(k, v, ex)
<1>1. /\ n.out = "turn" => j = enqueueTarget(n, s) \/ j = n
      /\ n.out # "turn" => j = d \/ ((j = w \/ j = z) /\ d.out # "turn")
  BY DEF classified
<1>2. s \in Aliases /\ x \in Aliases
  BY VerdictFacts DEF Line, Aliases
<1> HIDE DEF j, s, x
<1>3. Grown(k, a) /\ Shape(a) /\ Line(a)
  BY AppliedLine DEF Grown, Same
<1> HIDE DEF a
<1>4. Serves(k, n) /\ Line(n) /\ Shape(n) /\ n.out \in {"none", "turn"}
  BY <1>3, Tried, TriedLine, ServesGrown DEF Serves, Fits
<1> HIDE DEF n
<1>5. CASE n.out = "turn"
  <2>1. Serves(k, enqueueTarget(n, s))
    <3>1. Line(enqueueTarget(n, s)) /\ enqueueTarget(n, s).out = "turn"
      BY <1>2, <1>4, <1>5, EnqueuedLine DEF Grown, Same
    <3> QED BY <3>1 DEF Serves
  <2> QED BY <1>1, <1>4, <1>5, <2>1 DEF j
<1>6. CASE n.out = "none"
  <2>1. Grown(n, q) /\ Shape(q) /\ Line(q) /\ q.out = "none"
    BY <1>2, <1>4, <1>6, EnqueuedLine DEF Grown, Same
  <2>2. Serves(k, q)
    BY <1>4, <1>6, <2>1, GrownServes
  <2> HIDE DEF q
  <2>3. Serves(q, tryDispatchNext(q)) /\ Shape(tryDispatchNext(q))
        /\ tryDispatchNext(q).out \in {"none", "turn"}
    BY <2>1, Tried, TriedLine DEF Fits
  <2>4. Serves(k, tryDispatchNext(q))
    BY <2>1, <2>2, <2>3, ServesThen
  <2>5. Serves(k, d) /\ Shape(d) /\ d.out \in {"none", "turn"} /\ Line(d)
    BY <2>1, <2>2, <2>3, <2>4 DEF Serves
  <2> HIDE DEF d
  <2>6. Serves(k, w) \/ d.out = "turn"
    <3>1. Stays(d, w) /\ w.out = "continue"
      BY <2>5 DEF Shape, Stays
    <3> HIDE DEF w
    <3>2. d.out = "none" => Serves(k, w)
      BY <2>5, <3>1, StaysServes, ServesThen
    <3> QED BY <2>5, <3>2
  <2>7. d.out = "none" => Serves(k, z)
    <3>1. z.out \in Ended \cup {"turn"} /\ Line(z) /\ (Waits(d) => z.out # "complete")
      BY <2>5, Emitted, EmittedLine
    <3> HIDE DEF z
    <3>2. Serves(d, z)
      BY <3>1 DEF Serves, Ended
    <3> QED BY <2>5, <3>2, ServesThen
  <2> HIDE DEF w, z
  <2> QED BY <1>1, <1>6, <2>5, <2>6, <2>7 DEF j
<1> QED BY <1>4, <1>5, <1>6

---------------------------------------------------------------------------
\* Steps of the line

LInv == Line(cc) /\ roster \subseteq Members

\* The run's reaction keeps the line, and an end it comes to is no silent one.
Heeds(reason) ==
  turn' = "idle" /\ reason # "hard" /\ Waits(cc) => ended'.paused

LEMMA ReactedLine ==
  ASSUME Shape(cc), NEW k, Shape(k), Line(k), NEW reason,
         Waits(cc) /\ reason # "hard" => k.out # "complete", React(k, reason)
  PROVE  /\ Line(cc)' /\ Heeds(reason)
         /\ turn' = "idle" => ended'.reason = reason
<1> DEFINE j == [k EXCEPT !.out = "none"]
<1>1. /\ cc' = j
      /\ turn' = CASE k.out = "classify" -> "classifying"
                   [] k.out \in {"complete", "paused"} -> "idle"
                   [] OTHER -> "speaking"
      /\ ended' = IF k.out \in {"complete", "paused"}
                  THEN [reason |-> reason, paused |-> k.out = "paused"] ELSE ended
  BY DEF React
<1>2. Stays(k, j)
  BY DEF Shape, Stays
<1> HIDE DEF j
<1>3. Line(cc')
  BY <1>1, <1>2, StaysServes
<1>4. Line(cc)'
  BY <1>3 DEF Line
<1>5. turn' = "idle" => k.out \in {"complete", "paused"}
  <2>1. k.out = "classify" => turn' = "classifying"
    BY <1>1
  <2>2. k.out \notin {"classify", "complete", "paused"} => turn' = "speaking"
    BY <1>1
  <2> QED BY <2>1, <2>2
<1> DEFINE told == [reason |-> reason, paused |-> k.out = "paused"]
<1>6. turn' = "idle" => ended' = told
  <2>1. ended' = IF k.out \in {"complete", "paused"} THEN told ELSE ended
    BY <1>1
  <2> HIDE DEF told
  <2> QED BY <1>5, <2>1
<1>7. turn' = "idle" => ended'.reason = reason /\ (k.out = "paused" => ended'.paused)
  <2>1. told.reason = reason
    BY DEF told
  <2>2. k.out = "paused" => told.paused
    <3>1. ASSUME k.out = "paused" PROVE told = [reason |-> reason, paused |-> TRUE]
      BY <3>1, Zenon DEF told
    <3> QED BY <3>1
  <2> HIDE DEF told
  <2> QED BY <1>6, <2>1, <2>2
<1> QED BY <1>4, <1>5, <1>7 DEF Heeds

\* A step keeps the line and ends nothing in silence.
Courteous ==
  /\ LInv'
  /\ turn' = "idle" /\ ended'.reason # "hard" /\ Waits(cc) => ended'.paused

LEMMA CourteousReaction ==
  ASSUME IInv, LInv, NEW k, Shape(k), Line(k), NEW reason,
         Waits(cc) /\ reason # "hard" => k.out # "complete",
         React(k, reason), roster' = roster
  PROVE  Courteous
<1>1. Shape(cc)
  BY DEF IInv
<1>2. /\ Line(cc)' /\ Heeds(reason)
      /\ turn' = "idle" => ended'.reason = reason
  BY <1>1, ReactedLine
<1> QED BY <1>2 DEF Courteous, LInv, Heeds

LEMMA ServedReaction ==
  ASSUME IInv, LInv, NEW k, Shape(k), Serves(cc, k), NEW reason,
         React(k, reason), roster' = roster
  PROVE  Courteous
<1>1. Line(k) /\ (Waits(cc) => k.out # "complete")
  BY DEF Serves
<1> QED BY <1>1, CourteousReaction

LEMMA MessageLine ==
  ASSUME IInv, LInv, NEW ms \in Mentions, NEW b \in BOOLEAN, UserMessage(ms, b)
  PROVE  LInv'
<1> DEFINE u == Tail(ms)
           X == {u[i] : i \in 1..Len(u)}
           x == Mentioned(u, b).queue
           y == Mentioned(u, b).deferred
           z == Head(ms)
           j == [resetTurnState EXCEPT !.queue = x, !.deferred = y, !.responder = z]
<1>1. ms \in Seq(Members) /\ ms # <<>> /\ IsInjective(ms)
  <2>1. ms \in BoundedSeq(Members, 3) /\ ms # <<>> /\ IsInjective(ms)
    BY DEF Mentions
  <2>2. PICK n \in 0..3 : ms \in [1..n -> Members]
    BY <2>1 DEF BoundedSeq, SeqOf
  <2> QED BY <2>1, <2>2
<1>2. u \in Seq(Members) /\ z \in Members /\ ~Contains(u, z)
  BY <1>1, Leads
<1>3. cc' = j /\ roster' = roster
  BY DEF UserMessage
<1> HIDE DEF u, z
<1>4. u \in Seq(X) /\ X \subseteq Members /\ z \notin X
  <2>1. Len(u) \in Nat /\ DOMAIN u = 1..Len(u) /\ u \in [1..Len(u) -> Members]
    BY <1>2, LenProperties
  <2>2. X \subseteq Members /\ z \notin X
    BY <1>2, <2>1 DEF Contains
  <2>3. u \in [1..Len(u) -> X]
    BY <2>1
  <2> HIDE DEF X
  <2>4. u \in Seq(X)
    BY <2>1, <2>3
  <2> QED BY <2>2, <2>4
<1> HIDE DEF X
<1>5. x \in Seq(X) /\ IsInjective(x) /\ y \in Seq(X) /\ IsInjective(y)
  BY <1>4, MentionedLine DEF Listed
<1> HIDE DEF x, y
<1>6. x \in Seq(Members) /\ y \in Seq(Members)
  BY <1>4, <1>5
<1>7. ~Contains(x, z)
  BY <1>4, <1>5, Places DEF Contains
<1>8. j.queue = x /\ j.deferred = y /\ j.responder = z
  BY DEF resetTurnState
<1> HIDE DEF j
<1>9. Line(j)
  BY <1>2, <1>5, <1>6, <1>7, <1>8 DEF Line, Aliases
<1>10. Line(cc')
  BY <1>3, <1>9
<1>11. Line(cc)'
  BY <1>10 DEF Line
<1> QED BY <1>3, <1>11 DEF LInv

LEMMA BatchLine ==
  ASSUME IInv, LInv, NEW m \in Members \cup {None}, ToolBatch(m)
  PROVE  Courteous
<1> DEFINE p == [cc EXCEPT !.progress = TRUE]
           k == enqueueTarget(p, m)
           n == tryDispatchNext(k)
<1>1. Shape(cc) /\ Line(cc) /\ cc.out = "none" /\ m \in Aliases
  BY DEF IInv, LInv, Aliases
<1>2. (React(n, "stop") \/ React(k, "stop")) /\ roster' = roster
  BY DEF ToolBatch
<1>3. Same(cc, p) /\ Stays(cc, p) /\ Shape(p)
  BY <1>1 DEF Shape, Same, Stays
<1> HIDE DEF p
<1>4. Line(p)
  BY <1>1, <1>3, StaysServes
<1>5. Grown(p, k) /\ Shape(k) /\ Line(k) /\ k.out = "none"
  BY <1>1, <1>3, <1>4, EnqueuedLine DEF Grown, Same
<1> HIDE DEF k
<1>6. Serves(k, n) /\ Shape(n)
  BY <1>5, Tried, TriedLine DEF Fits
<1> HIDE DEF n
<1>7. Serves(p, n) /\ Serves(p, k)
  <2>1. Serves(k, k)
    BY <1>5 DEF Serves
  <2> QED BY <1>5, <1>6, <2>1, ServesGrown
<1>8. Serves(cc, n) /\ Serves(cc, k)
  BY <1>1, <1>3, <1>7, StaysServes
<1> QED BY <1>2, <1>5, <1>6, <1>8, ServedReaction

LEMMA ReplyLine ==
  ASSUME IInv, LInv, NEW r \in Replies, NEW novel \in BOOLEAN, Reply(r, novel)
  PROVE  Courteous
<1> DEFINE e == emitCascadeCompleteAndClear(cc, "user_message_pending")
           k == routeOrFinalize(cc, r, novel)
<1>1. Shape(cc) /\ Line(cc) /\ roster \subseteq Members
  BY DEF IInv, LInv
<1>2. (React(e, "user_message_pending") \/ React(k, "stop")) /\ roster' = roster
  BY DEF Reply
<1>3. Shape(e) /\ Line(e) /\ (Waits(cc) => e.out # "complete")
  BY <1>1, Emitted, EmittedLine DEF Fits
<1>4. Shape(k) /\ Serves(cc, k)
  BY <1>1, Replied, RepliedLine DEF Fits
<1> HIDE DEF e, k
<1> QED BY <1>2, <1>3, <1>4, CourteousReaction, ServedReaction

LEMMA CapLine ==
  ASSUME IInv, LInv, NEW r, CapReply(r)
  PROVE  Courteous
<1> DEFINE e == emitCascadeCompleteAndClear(cc, r)
<1>1. Shape(cc) /\ Line(cc) /\ roster \subseteq Members
  BY DEF IInv, LInv
<1>2. React(e, r) /\ roster' = roster
  BY DEF CapReply
<1>3. Shape(e) /\ Line(e) /\ (Waits(cc) /\ r # "hard" => e.out # "complete")
  BY <1>1, Emitted, EmittedLine DEF Fits
<1> HIDE DEF e
<1> QED BY <1>2, <1>3, CourteousReaction

LEMMA ClassifiedLine ==
  ASSUME IInv, LInv, NEW v \in Verdicts, Classified(v)
  PROVE  Courteous
<1> DEFINE k == classified(cc, v, nudges[cc.responder] >= MaxDeferred)
           j == [k EXCEPT !.progress = TRUE]
           e == emitCascadeCompleteAndClear(k, "user_message_pending")
<1>1. Shape(cc) /\ Line(cc) /\ roster \subseteq Members
  BY DEF IInv, LInv
<1>2. /\ \/ React(k, "stop")
         \/ k.out = "continue" /\ React(e, "user_message_pending")
         \/ k.out = "continue" /\ React(j, "stop")
      /\ roster' = roster
  BY DEF Classified
<1>3. Shape(k) /\ Serves(cc, k) /\ Line(k)
  BY <1>1, VerdictApplied, VerdictLine DEF Fits, Serves
<1> HIDE DEF k
<1>4. CASE React(k, "stop")
  BY <1>2, <1>3, <1>4, ServedReaction
<1>5. CASE k.out = "continue" /\ React(e, "user_message_pending")
  <2>1. Shape(e) /\ Line(e) /\ (Waits(k) => e.out # "complete")
    BY <1>1, <1>3, Emitted, EmittedLine DEF Fits
  <2>2. Waits(cc) => Waits(k)
    BY <1>3, <1>5 DEF Serves
  <2> HIDE DEF e
  <2> QED BY <1>2, <1>5, <2>1, <2>2, CourteousReaction
<1>6. CASE k.out = "continue" /\ React(j, "stop")
  <2>1. Stays(k, j) /\ Shape(j) /\ j.out = k.out
    BY <1>3 DEF Shape, Stays
  <2> HIDE DEF j
  <2>2. Line(j) /\ j.out # "complete"
    BY <1>3, <1>6, <2>1, StaysServes
  <2> QED BY <1>2, <1>6, <2>1, <2>2, CourteousReaction
<1> QED BY <1>2, <1>4, <1>5, <1>6

LEMMA LineStep ==
  ASSUME IInv, LInv, [Next]_vars
  PROVE  /\ LInv'
         /\ turn # "idle" /\ turn' = "idle" /\ ended'.reason # "hard" /\ Waits(cc)
              => ended'.paused
<1> DEFINE G == /\ LInv'
                /\ turn # "idle" /\ turn' = "idle" /\ ended'.reason # "hard" /\ Waits(cc)
                     => ended'.paused
<1>0. (LInv' /\ (turn = "idle" \/ turn' = turn) => G) /\ (Courteous => G)
  <2>1. Courteous => G
    BY Zenon DEF Courteous
  <2>2. LInv' /\ (turn = "idle" \/ turn' = turn) => G
    BY Zenon
  <2> QED BY <2>1, <2>2
<1> HIDE DEF G
<1>1. ASSUME NEW ms \in Mentions, NEW b \in BOOLEAN, UserMessage(ms, b) PROVE G
  BY <1>0, <1>1, MessageLine DEF UserMessage
<1>2. ASSUME TypeAhead \/ UNCHANGED vars PROVE G
  <2>1. LInv' /\ turn' = turn
    BY <1>2 DEF TypeAhead, vars, LInv, Line
  <2> QED BY <1>0, <2>1
<1>3. ASSUME NEW m \in Members \cup {None}, ToolBatch(m) PROVE G
  BY <1>0, <1>3, BatchLine
<1>4. ASSUME NEW r \in Replies, NEW novel \in BOOLEAN, Reply(r, novel) PROVE G
  BY <1>0, <1>4, ReplyLine
<1>5. ASSUME NEW r \in {"tool_failure_cap", "hard"}, CapReply(r) PROVE G
  BY <1>0, <1>5, CapLine
<1>6. ASSUME NEW v \in Verdicts, Classified(v) PROVE G
  BY <1>0, <1>6, ClassifiedLine
<1>7. ASSUME NEW m \in Members, MemberLeaves(m) PROVE G
  <2>1. LInv' /\ turn' = turn
    BY <1>7 DEF MemberLeaves, LInv, Line
  <2> QED BY <1>0, <2>1
<1>8. G
  <2>1. (\E ms \in Mentions, b \in BOOLEAN : UserMessage(ms, b)) => G
    BY <1>1
  <2>2. (\E m \in Members \cup {None} : ToolBatch(m)) => G
    BY <1>3
  <2>3. (\E r \in Replies, novel \in BOOLEAN : Reply(r, novel)) => G
    BY <1>4
  <2>4. (\E r \in {"tool_failure_cap", "hard"} : CapReply(r)) => G
    BY <1>5
  <2>5. (\E v \in Verdicts : Classified(v)) => G
    BY <1>6
  <2>6. (\E m \in Members : MemberLeaves(m)) => G
    BY <1>7
  <2>7. Next \/ UNCHANGED vars
    OBVIOUS
  <2>8. Next => G
    BY <1>2, <2>1, <2>2, <2>3, <2>4, <2>5, <2>6 DEF Next
  <2> QED BY <1>2, <2>7, <2>8
<1> QED BY <1>8 DEF G

---------------------------------------------------------------------------

\* The immediate and the deferred queue of a cascade name members, neither names
\* one twice, and the immediate one does not name the member that speaks.
THEOREM LineInOrder == Spec => [](IInv /\ LInv)
<1>1. Init => LInv
  <2> SUFFICES ASSUME Init PROVE LInv
    OBVIOUS
  <2>1. cc.queue = <<>> /\ cc.deferred = <<>> /\ cc.responder = None /\ roster = Members
    BY DEF Init, resetTurnState
  <2> QED BY <2>1, FreshLine DEF LInv, Aliases
<1>2. IInv /\ LInv /\ [Next]_vars => LInv'
  BY LineStep
<1> QED BY <1>1, <1>2, Inductive, PTL DEF Spec

\* cascade-controller.cpp:171-176, 190-201: no sequence of handoffs, yields and
\* round changes puts the member that speaks into the immediate queue, or any
\* member twice into one queue, for every team and all caps.  The deferred queue
\* may still name the member that speaks.
THEOREM PlacesInQueues == Spec => []OnePlacePerQueue
<1>1. LInv => OnePlacePerQueue
  BY DEF LInv, Line, OnePlacePerQueue
<1> QED BY <1>1, LineInOrder, PTL

\* cascade-controller.cpp:1189-1190: a cascade that ends while members who still
\* resolve wait for the floor says that it pauses, whatever ended it but a hard cap.
THEOREM EndsAreVisible == Spec => NoSilentEnd
<1> DEFINE A == /\ turn # "idle" /\ turn' = "idle" /\ ended'.reason # "hard"
                /\ \E m \in roster : Contains(cc.queue \o cc.deferred, m)
<1>1. IInv /\ LInv /\ [Next]_vars => [A => ended'.paused]_vars
  <2> SUFFICES ASSUME IInv, LInv, [Next]_vars, A PROVE ended'.paused
    OBVIOUS
  <2>1. PICK m \in roster : Contains(cc.queue \o cc.deferred, m)
    OBVIOUS
  <2>2. cc.queue \in Seq(Members) /\ cc.deferred \in Seq(Members)
    BY DEF LInv, Line
  <2> DEFINE q == cc.queue
             d == cc.deferred
             s == q \o d
  <2>3. /\ Len(q) \in Nat /\ Len(d) \in Nat /\ Len(s) = Len(q) + Len(d)
        /\ \A i \in 1..Len(q) + Len(d) : s[i] = IF i <= Len(q) THEN q[i] ELSE d[i - Len(q)]
    BY <2>2, ConcatProperties, LenProperties
  <2>4. Contains(s, m)
    BY <2>1
  <2> HIDE DEF q, d, s
  <2>5. PICK i \in 1..Len(q) + Len(d) : s[i] = m
    BY <2>3, <2>4 DEF Contains
  <2>6. Contains(q, m) \/ Contains(d, m)
    <3>1. CASE i <= Len(q)
      BY <3>1, <2>3, <2>5 DEF Contains
    <3>2. CASE ~(i <= Len(q))
      <4>1. i - Len(q) \in 1..Len(d)
        BY <3>2, <2>3
      <4> QED BY <3>2, <4>1, <2>3, <2>5 DEF Contains
    <3> QED BY <3>1, <3>2
  <2>7. Waits(cc)
    BY <2>6 DEF Waits, q, d
  <2> QED BY <2>7, LineStep
<1>2. Spec => [][A => ended'.paused]_vars
  BY <1>1, LineInOrder, PTL DEF Spec
<1> QED BY <1>2 DEF NoSilentEnd
=============================================================================
