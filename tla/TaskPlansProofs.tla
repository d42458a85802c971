--------------------------- MODULE TaskPlansProofs ---------------------------
(***************************************************************************)
(* The shared anchor and the life of plans, for every set of conversations *)
(* and outlines and any number of plans, turns and steps of users.         *)
(***************************************************************************)
EXTENDS TaskPlans, SequenceTheorems, TLAPS

PlanStep == [owner : {"agent", "user"}, status : {"pending", "done", "blocked"}]
Steps == Seq(PlanStep) \ {<<>>}
Plan == {Gone} \cup [conv : Conversations, status : Open \cup Closed,
                     steps : Steps, old : BOOLEAN]
Turn == [phase : {"idle", "request", "tools"}, snap : Nat,
         iterations : BOOLEAN, cancelled : BOOLEAN]
State == [rows : Seq(Plan), later : SUBSET (Nat \X Nat), anchor : Nat,
          turn : [Conversations -> Turn]]

\* A plan with nothing left to do is not open.
Ends(plan) == (\A i \in DOMAIN plan.steps : plan.steps[i].status = "done")
                => plan.status \notin Open

\* What every handler keeps of the state it works on.
Good(S) == /\ S \in State
           /\ S.anchor \in 0..Len(S.rows)
           /\ S.anchor # 0 => S.rows[S.anchor].status \notin Closed
           /\ \A p \in DOMAIN S.rows : Ends(S.rows[p])

IInv == Good(Sys) /\ front \in Conversations \cup {None}

\* The same but for what is left of plan p.
GoodBut(S, p) == /\ S \in State
                 /\ S.anchor \in 0..Len(S.rows)
                 /\ S.anchor # 0 => S.rows[S.anchor].status \notin Closed
                 /\ \A q \in DOMAIN S.rows \ {p} : Ends(S.rows[q])

---------------------------------------------------------------------------
\* Rows

LEMMA PlanFacts ==
  /\ Gone \in Plan /\ Ends(Gone) /\ Gone.status = "gone"
  /\ \A plan \in Plan : plan.status # "gone" =>
       plan \in [conv : Conversations, status : Open \cup Closed, steps : Steps, old : BOOLEAN]
  /\ \A plan \in Plan : plan.status \in Open \cup Closed => plan.status # "gone"
  BY DEF Plan, Gone, Ends, Open, Closed

LEMMA RowFacts ==
  ASSUME NEW S \in State
  PROVE  /\ S.rows \in Seq(Plan) /\ Len(S.rows) \in Nat /\ DOMAIN S.rows = 1..Len(S.rows)
         /\ \A p \in DOMAIN S.rows : S.rows[p] \in Plan /\ p \in Nat
         /\ S.anchor \in Nat /\ S.turn \in [Conversations -> Turn]
         /\ S.later \subseteq Nat \X Nat
<1>1. S.rows \in Seq(Plan) /\ S.anchor \in Nat /\ S.turn \in [Conversations -> Turn]
      /\ S.later \subseteq Nat \X Nat
  BY DEF State
<1>2. QED
  BY <1>1, LenProperties, ElementOfSeq

\* The row of one plan is replaced.
LEMMA WriteRow ==
  ASSUME NEW S \in State, NEW p \in DOMAIN S.rows, NEW plan \in Plan
  PROVE  LET T == [S EXCEPT !.rows = [@ EXCEPT ![p] = plan]]
         IN  /\ T \in State /\ Len(T.rows) = Len(S.rows) /\ DOMAIN T.rows = DOMAIN S.rows
             /\ T.rows[p] = plan /\ \A q \in DOMAIN S.rows \ {p} : T.rows[q] = S.rows[q]
             /\ T.anchor = S.anchor /\ T.turn = S.turn /\ T.later = S.later
<1> DEFINE r == [S.rows EXCEPT ![p] = plan]
           T == [S EXCEPT !.rows = r]
<1>1. /\ r \in Seq(Plan) /\ Len(r) = Len(S.rows) /\ DOMAIN r = DOMAIN S.rows
      /\ r[p] = plan /\ \A q \in DOMAIN S.rows \ {p} : r[q] = S.rows[q]
  BY RowFacts, ExceptSeq
<1> HIDE DEF r
<1>2. T \in State /\ T.rows = r /\ T.anchor = S.anchor /\ T.turn = S.turn /\ T.later = S.later
  BY <1>1 DEF State
<1>3. QED
  BY <1>1, <1>2 DEF r

LEMMA ExistsFacts ==
  ASSUME NEW S \in State, NEW p, Exists(S, p)
  PROVE  /\ p \in DOMAIN S.rows /\ p \in Nat /\ p # 0
         /\ S.rows[p] \in [conv : Conversations, status : Open \cup Closed,
                            steps : Steps, old : BOOLEAN]
         /\ S.rows[p].steps \in Steps /\ S.rows[p].steps # <<>>
         /\ 1 \in DOMAIN S.rows[p].steps
<1>1. p \in DOMAIN S.rows /\ S.rows[p].status # "gone" /\ p \in 1..Len(S.rows)
      /\ S.rows[p] \in Plan
  BY RowFacts DEF Exists
<1>2. S.rows[p] \in [conv : Conversations, status : Open \cup Closed,
                     steps : Steps, old : BOOLEAN]
  BY <1>1, PlanFacts
<1>3. S.rows[p].steps \in Steps
  BY <1>2
<1>4. S.rows[p].steps # <<>> /\ 1 \in DOMAIN S.rows[p].steps
  BY <1>3, LenProperties, EmptySeq DEF Steps
<1>5. QED
  BY <1>1, <1>2, <1>3, <1>4, RowFacts

\* A step of a plan is replaced.
LEMMA WriteStep ==
  ASSUME NEW S \in State, NEW p, Exists(S, p), NEW i \in DOMAIN S.rows[p].steps,
         NEW status \in {"pending", "done", "blocked"}
  PROVE  LET T == updateStepStatus(S, p, i, status)
         IN  /\ T \in State /\ Len(T.rows) = Len(S.rows) /\ Exists(T, p)
             /\ \A q \in DOMAIN S.rows \ {p} : T.rows[q] = S.rows[q]
             /\ T.rows[p].status = S.rows[p].status /\ T.rows[p].old = S.rows[p].old
             /\ T.rows[p].steps[i].status = status /\ i \in DOMAIN T.rows[p].steps
             /\ T.anchor = S.anchor /\ T.turn = S.turn
<1> DEFINE plan == S.rows[p]
           step == [plan.steps[i] EXCEPT !.status = status]
           steps == [plan.steps EXCEPT ![i] = step]
           new == [plan EXCEPT !.steps = steps]
           T == updateStepStatus(S, p, i, status)
<1>1. /\ plan \in [conv : Conversations, status : Open \cup Closed, steps : Steps, old : BOOLEAN]
      /\ p \in DOMAIN S.rows /\ plan.status # "gone" /\ i \in DOMAIN plan.steps
  BY ExistsFacts DEF Exists
<1>2. T = [S EXCEPT !.rows = [@ EXCEPT ![p] = new]]
  BY DEF updateStepStatus
<1> HIDE DEF plan, T
<1>3. plan.steps[i] \in PlanStep
  <2>1. plan.steps \in Seq(PlanStep)
    BY <1>1 DEF Steps
  <2>2. QED
    BY <1>1, <2>1, LenProperties
<1>4. step \in PlanStep /\ step.status = status
  BY <1>3 DEF PlanStep
<1> HIDE DEF step
<1>5. steps \in Steps /\ steps[i] = step /\ i \in DOMAIN steps
  <2>1. plan.steps \in Seq(PlanStep)
    BY <1>1 DEF Steps
  <2>2. steps \in Seq(PlanStep)
        /\ DOMAIN steps = DOMAIN plan.steps /\ steps[i] = step
    BY <1>1, <1>4, <2>1, ExceptSeq, LenProperties
  <2>3. QED
    BY <1>1, <2>2, EmptySeq DEF Steps
<1> HIDE DEF steps
<1>6. /\ new \in Plan /\ new.status = plan.status /\ new.old = plan.old /\ new.steps = steps
  BY <1>1, <1>5 DEF Plan
<1> HIDE DEF new
<1>7. /\ T \in State /\ Len(T.rows) = Len(S.rows) /\ DOMAIN T.rows = DOMAIN S.rows
      /\ T.rows[p] = new /\ \A q \in DOMAIN S.rows \ {p} : T.rows[q] = S.rows[q]
      /\ T.anchor = S.anchor /\ T.turn = S.turn
  BY <1>1, <1>2, <1>6, WriteRow
<1>8. QED
  BY <1>1, <1>4, <1>5, <1>6, <1>7 DEF Exists, T, plan

\* The order of updates stays a set of pairs of plans.
LEMMA TouchedType ==
  ASSUME NEW S \in State, NEW E \in SUBSET DOMAIN S.rows
  PROVE  Touched(S, E) \subseteq Nat \X Nat
<1>1. DOMAIN S.rows \subseteq Nat /\ S.later \subseteq Nat \X Nat
  BY RowFacts
<1>2. QED
  BY <1>1 DEF Touched

\* A status is written and an anchor on a plan that closes is dropped.
LEMMA WriteStatus ==
  ASSUME NEW S \in State, NEW p, Exists(S, p), NEW status \in Open \cup Closed
  PROVE  LET T == updatePlanStatus(S, p, status)
         IN  /\ T \in State /\ Len(T.rows) = Len(S.rows) /\ Exists(T, p)
             /\ \A q \in DOMAIN S.rows \ {p} : T.rows[q] = S.rows[q]
             /\ T.rows[p].status = status /\ T.rows[p].steps = S.rows[p].steps
             /\ T.rows[p].old = S.rows[p].old
             /\ T.anchor = IF S.anchor = p /\ status \in Closed THEN 0 ELSE S.anchor
             /\ T.turn = S.turn
<1> DEFINE plan == S.rows[p]
           new == [plan EXCEPT !.status = status]
           U == [S EXCEPT !.rows = [@ EXCEPT ![p] = new]]
           a == IF S.anchor = p /\ status \in Closed THEN 0 ELSE S.anchor
           T == updatePlanStatus(S, p, status)
<1>1. /\ plan \in [conv : Conversations, status : Open \cup Closed, steps : Steps, old : BOOLEAN]
      /\ p \in DOMAIN S.rows
  BY ExistsFacts
<1>2. T = [U EXCEPT !.later = Touched(S, {p}), !.anchor = a]
  BY DEF updatePlanStatus, State
<1> HIDE DEF plan, T
<1>3. new \in Plan /\ new.status = status /\ new.steps = plan.steps /\ new.old = plan.old
  BY <1>1 DEF Plan
<1> HIDE DEF new
<1>4. /\ U \in State /\ Len(U.rows) = Len(S.rows) /\ DOMAIN U.rows = DOMAIN S.rows
      /\ U.rows[p] = new /\ \A q \in DOMAIN S.rows \ {p} : U.rows[q] = S.rows[q]
      /\ U.turn = S.turn
  BY <1>1, <1>3, WriteRow
<1>5. a \in Nat /\ Touched(S, {p}) \in SUBSET (Nat \X Nat)
  BY <1>1, TouchedType, RowFacts
<1> HIDE DEF U, a
<1>6. T \in State /\ T.rows = U.rows /\ T.turn = U.turn /\ T.anchor = a
  BY <1>2, <1>4, <1>5 DEF State
<1>7. status # "gone"
  BY DEF Open, Closed
<1>8. QED
  BY <1>1, <1>3, <1>4, <1>6, <1>7 DEF Exists, T, plan, a

---------------------------------------------------------------------------
\* What the handlers preserve

LEMMA GoodGoodBut ==
  ASSUME NEW S, NEW p
  PROVE  /\ Good(S) => GoodBut(S, p)
         /\ GoodBut(S, p) /\ p \in DOMAIN S.rows /\ Ends(S.rows[p]) => Good(S)
         /\ GoodBut(S, p) /\ p \notin DOMAIN S.rows => Good(S)
  BY DEF Good, GoodBut

LEMMA StepKeeps ==
  ASSUME NEW S, NEW p, GoodBut(S, p), Exists(S, p), NEW i \in DOMAIN S.rows[p].steps,
         NEW status \in {"pending", "done", "blocked"}
  PROVE  LET T == updateStepStatus(S, p, i, status)
         IN  GoodBut(T, p) /\ Exists(T, p) /\ (status # "done" => Good(T))
<1> DEFINE T == updateStepStatus(S, p, i, status)
<1>1. S \in State
  BY DEF GoodBut
<1>2. /\ T \in State /\ Len(T.rows) = Len(S.rows) /\ Exists(T, p)
      /\ \A q \in DOMAIN S.rows \ {p} : T.rows[q] = S.rows[q]
      /\ T.rows[p].status = S.rows[p].status
      /\ T.rows[p].steps[i].status = status /\ i \in DOMAIN T.rows[p].steps
      /\ T.anchor = S.anchor
  BY <1>1, WriteStep
<1> HIDE DEF T
<1>3. DOMAIN T.rows = DOMAIN S.rows /\ DOMAIN S.rows = 1..Len(S.rows) /\ Len(S.rows) \in Nat
  BY <1>1, <1>2, RowFacts
<1>4. S.anchor # 0 => S.anchor \in DOMAIN S.rows
  BY <1>3 DEF GoodBut
<1>5. GoodBut(T, p)
  BY <1>2, <1>3, <1>4 DEF GoodBut
<1>6. status # "done" => Ends(T.rows[p])
  BY <1>2 DEF Ends
<1>7. QED
  BY <1>2, <1>5, <1>6, GoodGoodBut DEF T, Exists

LEMMA StatusKeeps ==
  ASSUME NEW S, NEW p, GoodBut(S, p), Exists(S, p), NEW status \in Open \cup Closed
  PROVE  LET T == updatePlanStatus(S, p, status)
         IN  /\ GoodBut(T, p) /\ Exists(T, p)
             /\ status \in Closed => Good(T)
             /\ (\E i \in DOMAIN S.rows[p].steps : S.rows[p].steps[i].status # "done")
                   => Good(T)
<1> DEFINE T == updatePlanStatus(S, p, status)
<1>1. S \in State
  BY DEF GoodBut
<1>2. /\ T \in State /\ Len(T.rows) = Len(S.rows) /\ Exists(T, p)
      /\ \A q \in DOMAIN S.rows \ {p} : T.rows[q] = S.rows[q]
      /\ T.rows[p].status = status /\ T.rows[p].steps = S.rows[p].steps
      /\ T.anchor = IF S.anchor = p /\ status \in Closed THEN 0 ELSE S.anchor
  BY <1>1, WriteStatus
<1> HIDE DEF T
<1>3. DOMAIN T.rows = DOMAIN S.rows /\ DOMAIN S.rows = 1..Len(S.rows) /\ Len(S.rows) \in Nat
  BY <1>1, <1>2, RowFacts
<1>4. S.anchor # 0 => S.anchor \in DOMAIN S.rows
  BY <1>3 DEF GoodBut
<1>5. GoodBut(T, p)
  BY <1>2, <1>3, <1>4 DEF GoodBut
<1>6. status \in Closed => status \notin Open
  BY DEF Open, Closed
<1>7. QED
  BY <1>2, <1>5, <1>6, GoodGoodBut DEF T, Exists, Ends

\* The outline of a plan is replaced.
LEMMA WriteSteps ==
  ASSUME NEW S \in State, NEW p, Exists(S, p), NEW steps \in Steps
  PROVE  LET T == [S EXCEPT !.rows[p].steps = steps]
         IN  /\ T \in State /\ Len(T.rows) = Len(S.rows) /\ Exists(T, p)
             /\ \A q \in DOMAIN S.rows \ {p} : T.rows[q] = S.rows[q]
             /\ T.rows[p].status = S.rows[p].status /\ T.rows[p].old = S.rows[p].old
             /\ T.rows[p].steps = steps
             /\ T.anchor = S.anchor /\ T.turn = S.turn
<1> DEFINE plan == S.rows[p]
           new == [plan EXCEPT !.steps = steps]
           T == [S EXCEPT !.rows[p].steps = steps]
<1>1. /\ plan \in [conv : Conversations, status : Open \cup Closed, steps : Steps, old : BOOLEAN]
      /\ p \in DOMAIN S.rows /\ plan.status # "gone"
  BY ExistsFacts DEF Exists
<1>2. T = [S EXCEPT !.rows = [@ EXCEPT ![p] = new]]
  OBVIOUS
<1> HIDE DEF plan, T
<1>3. /\ new \in Plan /\ new.status = plan.status /\ new.old = plan.old /\ new.steps = steps
  BY <1>1 DEF Plan
<1> HIDE DEF new
<1>4. /\ T \in State /\ Len(T.rows) = Len(S.rows) /\ DOMAIN T.rows = DOMAIN S.rows
      /\ T.rows[p] = new /\ \A q \in DOMAIN S.rows \ {p} : T.rows[q] = S.rows[q]
      /\ T.anchor = S.anchor /\ T.turn = S.turn
  BY <1>1, <1>2, <1>3, WriteRow
<1>5. QED
  BY <1>1, <1>3, <1>4 DEF Exists, T, plan

LEMMA StepsKeep ==
  ASSUME NEW S, NEW p, GoodBut(S, p), Exists(S, p), NEW steps \in Steps
  PROVE  LET T == [S EXCEPT !.rows[p].steps = steps]
         IN  /\ GoodBut(T, p) /\ Exists(T, p) /\ T.rows[p].steps = steps
             /\ (\E i \in DOMAIN steps : steps[i].status # "done") => Good(T)
             /\ S.rows[p].status \in Closed => Good(T)
<1> DEFINE T == [S EXCEPT !.rows[p].steps = steps]
<1>1. S \in State
  BY DEF GoodBut
<1>2. /\ T \in State /\ Len(T.rows) = Len(S.rows) /\ Exists(T, p)
      /\ \A q \in DOMAIN S.rows \ {p} : T.rows[q] = S.rows[q]
      /\ T.rows[p].status = S.rows[p].status /\ T.rows[p].steps = steps
      /\ T.anchor = S.anchor
  BY <1>1, WriteSteps
<1> HIDE DEF T
<1>3. DOMAIN T.rows = DOMAIN S.rows /\ DOMAIN S.rows = 1..Len(S.rows) /\ Len(S.rows) \in Nat
  BY <1>1, <1>2, RowFacts
<1>4. S.anchor # 0 => S.anchor \in DOMAIN S.rows
  BY <1>3 DEF GoodBut
<1>5. GoodBut(T, p)
  BY <1>2, <1>3, <1>4 DEF GoodBut
<1>6. S.rows[p].status \in Closed => S.rows[p].status \notin Open
  BY DEF Open, Closed
<1>7. QED
  BY <1>2, <1>5, <1>6, GoodGoodBut DEF T, Exists, Ends

\* A turn is replaced.
LEMMA TurnKeeps ==
  ASSUME NEW S, Good(S), NEW c \in Conversations, NEW t \in Turn
  PROVE  LET T == [S EXCEPT !.turn[c] = t]
         IN  /\ Good(T) /\ T.rows = S.rows /\ T.anchor = S.anchor /\ T.later = S.later
             /\ T.turn = [S.turn EXCEPT ![c] = t]
<1> DEFINE u == [S.turn EXCEPT ![c] = t]
           T == [S EXCEPT !.turn = u]
<1>1. S \in State /\ u \in [Conversations -> Turn]
  BY DEF Good, State
<1> HIDE DEF u
<1>2. T \in State /\ T.rows = S.rows /\ T.anchor = S.anchor /\ T.later = S.later /\ T.turn = u
  BY <1>1 DEF State
<1> HIDE DEF T
<1>3. Good(T)
  BY <1>2 DEF Good
<1>4. QED
  BY <1>2, <1>3 DEF u, T

\* The anchor moves to a plan that is not closed, or to none.
LEMMA AnchorKeeps ==
  ASSUME NEW S, Good(S), NEW a \in 0..Len(S.rows),
         a # 0 => S.rows[a].status \notin Closed
  PROVE  LET T == [S EXCEPT !.anchor = a]
         IN  Good(T) /\ T.rows = S.rows /\ T.anchor = a /\ T.turn = S.turn /\ T.later = S.later
<1> DEFINE T == [S EXCEPT !.anchor = a]
<1>1. S \in State /\ a \in Nat
  BY RowFacts DEF Good
<1>2. T \in State /\ T.rows = S.rows /\ T.anchor = a /\ T.turn = S.turn /\ T.later = S.later
  BY <1>1 DEF State
<1> HIDE DEF T
<1>3. Good(T)
  BY <1>2 DEF Good
<1>4. QED
  BY <1>2, <1>3 DEF T

LEMMA NoAnchor ==
  ASSUME NEW S, Good(S)
  PROVE  LET T == [S EXCEPT !.anchor = 0]
         IN  Good(T) /\ T.rows = S.rows /\ T.anchor = 0 /\ T.turn = S.turn /\ T.later = S.later
<1>1. 0 \in 0..Len(S.rows)
  BY RowFacts DEF Good
<1>2. QED
  BY <1>1, AnchorKeeps

---------------------------------------------------------------------------
\* The operations, one by one

\* Nothing that has ended opens again.
StaysClosed(S, T) ==
  /\ DOMAIN S.rows \subseteq DOMAIN T.rows
  /\ \A p \in DOMAIN S.rows : S.rows[p].status \in Closed => T.rows[p].status \in Closed

LEMMA StaysClosedTrans ==
  ASSUME NEW S, NEW T, NEW U, StaysClosed(S, T), StaysClosed(T, U)
  PROVE  StaysClosed(S, U)
  BY DEF StaysClosed

LEMMA StaysClosedSame ==
  ASSUME NEW S, NEW T, S.rows = T.rows
  PROVE  StaysClosed(S, T)
  BY DEF StaysClosed

\* A plan is closed.
LEMMA CloseKeeps ==
  ASSUME NEW S, NEW p, GoodBut(S, p), Exists(S, p), NEW status \in Closed
  PROVE  LET T == updatePlanStatus(S, p, status)
         IN  /\ Good(T) /\ StaysClosed(S, T) /\ T.turn = S.turn /\ Len(T.rows) = Len(S.rows)
             /\ Exists(T, p) /\ T.rows[p].status = status
             /\ T.rows[p].steps = S.rows[p].steps
<1> DEFINE T == updatePlanStatus(S, p, status)
<1>1. S \in State /\ p \in DOMAIN S.rows
  BY DEF GoodBut, Exists
<1>2. status \in Open \cup Closed
  OBVIOUS
<1>3. /\ T \in State /\ Len(T.rows) = Len(S.rows)
      /\ \A q \in DOMAIN S.rows \ {p} : T.rows[q] = S.rows[q]
      /\ T.rows[p].status = status /\ T.turn = S.turn /\ T.rows[p].steps = S.rows[p].steps
  BY <1>1, <1>2, WriteStatus
<1>4. Good(T) /\ Exists(T, p)
  BY <1>2, StatusKeeps
<1> HIDE DEF T
<1>5. DOMAIN T.rows = DOMAIN S.rows
  BY <1>1, <1>3, RowFacts
<1>6. StaysClosed(S, T)
  BY <1>3, <1>5 DEF StaysClosed
<1>7. QED
  BY <1>3, <1>4, <1>6 DEF T

LEMMA CreateKeeps ==
  ASSUME NEW S, Good(S), NEW c \in Conversations, NEW owners \in Seq({"agent", "user"}),
         owners # <<>>
  PROVE  LET T == createPlan(S, c, owners)
         IN  /\ Good(T) /\ StaysClosed(S, T) /\ T.turn = S.turn /\ T.anchor = S.anchor
             /\ Len(T.rows) = Len(S.rows) + 1
             /\ T.rows[Len(S.rows) + 1].status = "executing"
<1> DEFINE n == Len(S.rows)
           steps == [i \in 1..Len(owners) |-> Step(owners[i])]
           new == [conv |-> c, status |-> "executing", steps |-> steps, old |-> FALSE]
           r == Append(S.rows, new)
           l == S.later \cup {x \in {n + 1} \X DOMAIN S.rows : Exists(S, x[2])}
           T == createPlan(S, c, owners)
<1>1. /\ S \in State /\ S.rows \in Seq(Plan) /\ n \in Nat /\ DOMAIN S.rows = 1..n
      /\ S.later \subseteq Nat \X Nat /\ S.anchor \in 0..n
  BY RowFacts DEF Good
<1>2. Len(owners) \in Nat \ {0} /\ \A i \in 1..Len(owners) : owners[i] \in {"agent", "user"}
  BY EmptySeq, LenProperties
<1>3. steps \in Steps /\ 1 \in DOMAIN steps /\ steps[1].status = "pending"
  <2>1. \A i \in 1..Len(owners) : Step(owners[i]) \in PlanStep /\ Step(owners[i]).status = "pending"
    BY <1>2 DEF Step, PlanStep
  <2>2. steps \in Seq(PlanStep) /\ DOMAIN steps = 1..Len(owners)
    BY <1>2, <2>1
  <2>3. QED
    BY <1>2, <2>1, <2>2, EmptySeq DEF Steps
<1>4. T = [S EXCEPT !.rows = r, !.later = l]
  BY DEF createPlan
<1> HIDE DEF steps, T
<1>5. new \in Plan /\ new.status = "executing" /\ Ends(new)
  BY <1>3 DEF Plan, Open, Ends
<1> HIDE DEF new
<1>6. /\ r \in Seq(Plan) /\ Len(r) = n + 1 /\ DOMAIN r = 1..(n + 1) /\ r[n + 1] = new
      /\ \A q \in 1..n : r[q] = S.rows[q]
  BY <1>1, <1>5, AppendProperties, LenProperties
<1>7. l \in SUBSET (Nat \X Nat)
  BY <1>1
<1> HIDE DEF r, l
<1>8. T \in State /\ T.rows = r /\ T.anchor = S.anchor /\ T.turn = S.turn
  BY <1>1, <1>4, <1>6, <1>7 DEF State
<1> HIDE DEF n
<1>9. Good(T)
  <2>1. T.anchor \in 0..Len(T.rows) /\ (T.anchor # 0 => T.anchor \in 1..n)
    BY <1>1, <1>6, <1>8
  <2>2. T.anchor # 0 => T.rows[T.anchor].status \notin Closed
    BY <1>6, <1>8, <2>1 DEF Good
  <2>3. \A q \in DOMAIN T.rows : Ends(T.rows[q])
    <3>1. \A q \in 1..n : Ends(S.rows[q])
      BY <1>1 DEF Good
    <3>2. \A q \in 1..(n + 1) : q \in 1..n \/ q = n + 1
      BY <1>1
    <3>3. QED
      BY <1>5, <1>6, <1>8, <3>1, <3>2
  <2>4. QED
    BY <1>8, <2>1, <2>2, <2>3 DEF Good
<1>10. StaysClosed(S, T)
  BY <1>1, <1>6, <1>8 DEF StaysClosed
<1>11. QED
  BY <1>5, <1>6, <1>8, <1>9, <1>10 DEF T, n

LEMMA StopTaskKeeps ==
  ASSUME NEW S, Good(S), NEW p
  PROVE  LET T == handleStopTask(S, p)
         IN  /\ Good(T) /\ StaysClosed(S, T) /\ T.turn = S.turn /\ Len(T.rows) = Len(S.rows)
<1>1. CASE Exists(S, p)
  BY <1>1, GoodGoodBut, CloseKeeps DEF handleStopTask, Closed
<1>2. CASE ~Exists(S, p)
  BY <1>2, StaysClosedSame DEF handleStopTask
<1>3. QED
  BY <1>1, <1>2

\* Waiting for the user moves pending steps to blocked and nothing else.
LEMMA WaitFacts ==
  ASSUME NEW steps \in Steps
  PROVE  /\ WaitForUser(steps) \in Steps
         /\ DOMAIN WaitForUser(steps) = DOMAIN steps
         /\ \A i \in DOMAIN steps : steps[i].status # "done" =>
              WaitForUser(steps)[i].status # "done"
<1>1. steps \in Seq(PlanStep) /\ Len(steps) \in Nat /\ DOMAIN steps = 1..Len(steps)
      /\ \A i \in 1..Len(steps) : steps[i] \in PlanStep
  BY LenProperties DEF Steps
<1>2. /\ DOMAIN WaitForUser(steps) = DOMAIN steps
      /\ \A i \in DOMAIN steps : \/ WaitForUser(steps)[i] = steps[i]
                               \/ WaitForUser(steps)[i] = [steps[i] EXCEPT !.status = "blocked"]
  BY DEF WaitForUser
<1>3. \A i \in DOMAIN steps : [steps[i] EXCEPT !.status = "blocked"] \in PlanStep
         /\ [steps[i] EXCEPT !.status = "blocked"].status = "blocked"
  BY <1>1 DEF PlanStep
<1>4. \A i \in 1..Len(steps) : WaitForUser(steps)[i] \in PlanStep
  BY <1>1, <1>2, <1>3
<1>5. WaitForUser(steps) \in Seq(PlanStep)
  <2>1. WaitForUser(steps) = [i \in 1..Len(steps) |-> WaitForUser(steps)[i]]
    BY <1>1 DEF WaitForUser
  <2>2. QED
    BY <1>1, <1>4, <2>1
<1>6. WaitForUser(steps) # <<>>
  BY <1>1, <1>2, EmptySeq DEF Steps
<1>7. QED
  BY <1>2, <1>3, <1>5, <1>6 DEF Steps

\* What is left of a plan decides whether it waits, is dispatched or ends.
LEMMA AdvanceKeeps ==
  ASSUME NEW S, NEW p, GoodBut(S, p), Exists(S, p)
  PROVE  Good(advancePlan(S, p))
<1> DEFINE steps == S.rows[p].steps
           W == WaitForUser(steps)
           T == [S EXCEPT !.rows[p].steps = W]
           statuses == {T.rows[p].steps[i].status : i \in DOMAIN T.rows[p].steps}
<1>1. S \in State /\ steps \in Steps /\ 1 \in DOMAIN steps
  BY ExistsFacts DEF GoodBut
<1>2. /\ W \in Steps /\ DOMAIN W = DOMAIN steps
      /\ \A i \in DOMAIN steps : steps[i].status # "done" => W[i].status # "done"
  BY <1>1, WaitFacts
<1>3. /\ GoodBut(T, p) /\ Exists(T, p) /\ T.rows[p].steps = W
      /\ (\E i \in DOMAIN W : W[i].status # "done") => Good(T)
  BY <1>2, StepsKeep
<1>4. CASE S.rows[p].old
  <2>1. advancePlan(S, p) = updatePlanStatus(S, p, "failed")
    BY <1>4 DEF advancePlan
  <2>2. QED
    BY <2>1, CloseKeeps DEF Closed
<1>5. CASE ~S.rows[p].old /\ Dispatches(steps)
  <2>1. advancePlan(S, p) = T
    BY <1>5 DEF advancePlan
  <2>2. \E i \in DOMAIN W : W[i].status # "done"
    BY <1>2, <1>5 DEF Dispatches
  <2>3. QED
    BY <1>3, <2>1, <2>2
<1>6. CASE ~S.rows[p].old /\ ~Dispatches(steps) /\ statuses = {"done"}
  <2>1. advancePlan(S, p) = updatePlanStatus(T, p, "completed")
    BY <1>6 DEF advancePlan
  <2>2. QED
    BY <1>3, <2>1, CloseKeeps DEF Closed
<1>7. CASE ~S.rows[p].old /\ ~Dispatches(steps) /\ statuses # {"done"}
  <2>1. advancePlan(S, p) = updatePlanStatus(T, p, "blocked")
    BY <1>7 DEF advancePlan
  <2>2. \E i \in DOMAIN T.rows[p].steps : T.rows[p].steps[i].status # "done"
    BY <1>1, <1>2, <1>3, <1>7
  <2>3. QED
    BY <1>3, <2>1, <2>2, StatusKeeps DEF Open
<1>8. QED
  BY <1>4, <1>5, <1>6, <1>7

\* The buttons of the plans overlay.
LEMMA UserStepKeeps ==
  ASSUME NEW S, NEW p, Good(S), Exists(S, p), NEW i \in DOMAIN S.rows[p].steps
  PROVE  /\ Good(userRetryStep(S, p, i))
         /\ Good(userOverrideStepAsDone(S, p, i))
         /\ Good(userSkipStep(S, p, i))
<1>1. GoodBut(S, p) /\ S \in State
  BY GoodGoodBut DEF Good
<1>2. Good(userRetryStep(S, p, i))
  <2> DEFINE T == updateStepStatus(S, p, i, "pending")
  <2>1. /\ GoodBut(T, p) /\ Exists(T, p) /\ Good(T)
        /\ T.rows[p].steps[i].status = "pending" /\ i \in DOMAIN T.rows[p].steps
    BY <1>1, StepKeeps, WriteStep
  <2> HIDE DEF T
  <2>2. Good(updatePlanStatus(T, p, "executing"))
    BY <2>1, StatusKeeps DEF Open
  <2>3. QED
    BY <2>1, <2>2 DEF userRetryStep, T
<1> DEFINE T == updateStepStatus(S, p, i, "done")
<1>3. GoodBut(T, p) /\ Exists(T, p)
  BY <1>1, StepKeeps
<1>4. Good(userOverrideStepAsDone(S, p, i))
  BY <1>3, AdvanceKeeps DEF userOverrideStepAsDone
<1>5. Good(userSkipStep(S, p, i))
  <2> DEFINE U == updatePlanStatus(T, p, "executing")
  <2>1. GoodBut(U, p) /\ Exists(U, p)
    BY <1>3, StatusKeeps DEF Open
  <2> HIDE DEF T
  <2>2. Good(advancePlan(U, p)) /\ Good(advancePlan(T, p))
    BY <1>3, <2>1, AdvanceKeeps
  <2>3. QED
    BY <2>2 DEF userSkipStep, T
<1>6. QED
  BY <1>2, <1>4, <1>5

\* A first step is marked done and the plan completes.
LEMMA CompleteKeeps ==
  ASSUME NEW S, NEW p, Good(S), Exists(S, p)
  PROVE  LET T == updatePlanStatus(MarkFirst(S, p, "done"), p, "completed")
         IN  Good(T) /\ StaysClosed(S, T) /\ T.turn = S.turn
<1> DEFINE M == updateStepStatus(S, p, 1, "done")
           T == updatePlanStatus(M, p, "completed")
<1>1. S \in State /\ GoodBut(S, p) /\ 1 \in DOMAIN S.rows[p].steps
  BY GoodGoodBut, ExistsFacts DEF Good
<1>2. GoodBut(M, p) /\ Exists(M, p)
  BY <1>1, StepKeeps
<1>3. /\ M \in State /\ Len(M.rows) = Len(S.rows) /\ M.turn = S.turn
      /\ \A q \in DOMAIN S.rows \ {p} : M.rows[q] = S.rows[q]
      /\ M.rows[p].status = S.rows[p].status
  BY <1>1, WriteStep
<1> HIDE DEF M
<1>4. Good(T) /\ StaysClosed(M, T) /\ T.turn = M.turn
  BY <1>2, CloseKeeps DEF Closed
<1>5. StaysClosed(S, M)
  BY <1>1, <1>3, RowFacts DEF StaysClosed
<1>6. Good(T) /\ StaysClosed(S, T) /\ T.turn = S.turn
  BY <1>3, <1>4, <1>5, StaysClosedTrans
<1>7. QED
  BY <1>6 DEF M, MarkFirst

\* The marker of a reply: completed, blocked, or nothing the gate acts on.
LEMMA DeclaredKeeps ==
  ASSUME NEW S, Good(S), NEW declared
  PROVE  LET T == applyDeclaredStatus(S, declared)
         IN  Good(T) /\ StaysClosed(S, T) /\ T.turn = S.turn
<1> DEFINE p == S.anchor
<1>1. CASE ~Exists(S, p) \/ declared \notin {"completed", "blocked"}
  <2>1. applyDeclaredStatus(S, declared) = S
    BY <1>1 DEF applyDeclaredStatus
  <2>2. QED
    BY <2>1, StaysClosedSame
<1>2. CASE Exists(S, p) /\ declared = "completed"
  <2>1. applyDeclaredStatus(S, declared) = updatePlanStatus(MarkFirst(S, p, "done"), p, "completed")
    BY <1>2 DEF applyDeclaredStatus
  <2>2. QED
    BY <1>2, <2>1, CompleteKeeps
<1>3. CASE Exists(S, p) /\ declared = "blocked"
  <2> DEFINE M == updateStepStatus(S, p, 1, "blocked")
             U == updatePlanStatus(M, p, "blocked")
             T == [U EXCEPT !.anchor = 0]
  <2>1. applyDeclaredStatus(S, declared) = T
    BY <1>3 DEF applyDeclaredStatus, MarkFirst
  <2>2. /\ S \in State /\ GoodBut(S, p) /\ 1 \in DOMAIN S.rows[p].steps
        /\ p # 0 /\ p \in DOMAIN S.rows /\ S.rows[p].status \notin Closed
    BY <1>3, GoodGoodBut, ExistsFacts DEF Good
  <2>3. GoodBut(M, p) /\ Exists(M, p)
    BY <1>3, <2>2, StepKeeps
  <2>4. /\ M \in State /\ Len(M.rows) = Len(S.rows) /\ M.turn = S.turn
        /\ \A q \in DOMAIN S.rows \ {p} : M.rows[q] = S.rows[q]
        /\ M.rows[p].steps[1].status = "blocked" /\ 1 \in DOMAIN M.rows[p].steps
    BY <1>3, <2>2, WriteStep
  <2> HIDE DEF M
  <2>5. Good(U)
    BY <2>3, <2>4, StatusKeeps DEF Open
  <2>6. /\ U \in State /\ Len(U.rows) = Len(M.rows) /\ U.turn = M.turn
        /\ \A q \in DOMAIN M.rows \ {p} : U.rows[q] = M.rows[q]
    BY <2>3, <2>4, WriteStatus DEF Open
  <2> HIDE DEF U
  <2>7. Good(T) /\ T.rows = U.rows /\ T.turn = U.turn
    BY <2>5, NoAnchor
  <2>8. DOMAIN S.rows = DOMAIN M.rows /\ DOMAIN M.rows = DOMAIN U.rows
    BY <2>2, <2>4, <2>6, RowFacts
  <2>9. StaysClosed(S, T)
    BY <2>2, <2>4, <2>6, <2>7, <2>8 DEF StaysClosed
  <2>10. QED
    BY <2>1, <2>4, <2>6, <2>7, <2>9
<1>4. QED
  BY <1>1, <1>2, <1>3

LEMMA ImplicitKeeps ==
  ASSUME NEW S, Good(S), NEW declared, NEW stop \in BOOLEAN, NEW iterations \in BOOLEAN
  PROVE  LET T == applyImplicitCompletion(S, declared, stop, iterations)
         IN  Good(T) /\ StaysClosed(S, T) /\ T.turn = S.turn
<1>1. CASE declared = "" /\ stop /\ iterations /\ Exists(S, S.anchor)
           /\ S.rows[S.anchor].status \notin Closed
  BY <1>1, CompleteKeeps DEF applyImplicitCompletion
<1>2. CASE ~(declared = "" /\ stop /\ iterations /\ Exists(S, S.anchor)
             /\ S.rows[S.anchor].status \notin Closed)
  BY <1>2, StaysClosedSame DEF applyImplicitCompletion
<1>3. QED
  BY <1>1, <1>2

LEMMA CancelKeeps ==
  ASSUME NEW S, Good(S)
  PROVE  LET T == handleUserCancel(S)
         IN  Good(T) /\ StaysClosed(S, T) /\ T.turn = S.turn
<1> DEFINE U == handleStopTask(S, S.anchor)
           T == [U EXCEPT !.anchor = 0]
<1>1. Good(U) /\ StaysClosed(S, U) /\ U.turn = S.turn
  BY StopTaskKeeps
<1> HIDE DEF U
<1>2. Good(T) /\ T.rows = U.rows /\ T.turn = U.turn
  BY <1>1, NoAnchor
<1>3. Good(T) /\ StaysClosed(S, T) /\ T.turn = S.turn
  BY <1>1, <1>2 DEF StaysClosed
<1>4. QED
  BY <1>3 DEF U, handleUserCancel

LEMMA BuildKeeps ==
  ASSUME NEW S, Good(S)
  PROVE  LET T == buildRequest(S)
         IN  Good(T) /\ StaysClosed(S, T) /\ T.turn = S.turn
<1>1. LET T == [S EXCEPT !.anchor = 0]
      IN  Good(T) /\ StaysClosed(S, T) /\ T.turn = S.turn
  BY NoAnchor, StaysClosedSame
<1>2. QED
  BY <1>1, StaysClosedSame DEF buildRequest

\* The plan the gate finds for a conversation executes, or there is none.
LEMMA NewestFacts ==
  ASSUME NEW S \in State, NEW c
  PROVE  \/ NewestExecuting(S, c) = 0
         \/ /\ NewestExecuting(S, c) \in DOMAIN S.rows
            /\ S.rows[NewestExecuting(S, c)].status = "executing"
<1> DEFINE mine == {p \in DOMAIN S.rows : S.rows[p].conv = c /\ S.rows[p].status = "executing"}
           newest == {p \in mine : \A q \in mine \ {p} : <<p, q>> \in S.later}
<1>1. NewestExecuting(S, c) = IF newest = {} THEN 0 ELSE CHOOSE p \in newest : TRUE
  BY DEF NewestExecuting
<1>2. \A x \in newest : x \in DOMAIN S.rows /\ S.rows[x].status = "executing"
  OBVIOUS
<1> HIDE DEF newest
<1>3. newest # {} => (CHOOSE p \in newest : TRUE) \in newest
  OBVIOUS
<1>4. QED
  BY <1>1, <1>2, <1>3

LEMMA SwitchedKeeps ==
  ASSUME NEW S, Good(S), NEW c
  PROVE  LET T == onConversationSwitched(S, c)
         IN  Good(T) /\ T.rows = S.rows /\ T.turn = S.turn
<1>1. S \in State /\ DOMAIN S.rows = 1..Len(S.rows) /\ Len(S.rows) \in Nat
  BY RowFacts DEF Good
<1>2. "executing" \notin Closed
  BY DEF Closed
<1>3. /\ NewestExecuting(S, c) \in 0..Len(S.rows)
      /\ NewestExecuting(S, c) # 0 => S.rows[NewestExecuting(S, c)].status \notin Closed
  BY <1>1, <1>2, NewestFacts
<1>4. QED
  BY <1>3, AnchorKeeps DEF onConversationSwitched

LEMMA TurnFacts ==
  /\ NoTurn \in Turn /\ [NoTurn EXCEPT !.cancelled = TRUE] \in Turn
  /\ \A t \in Turn : /\ t.iterations \in BOOLEAN /\ t.cancelled \in BOOLEAN
                     /\ [NoTurn EXCEPT !.cancelled = t.cancelled] \in Turn
                     /\ [t EXCEPT !.phase = "request", !.iterations = FALSE] \in Turn
                     /\ [t EXCEPT !.phase = "request", !.snap = 0] \in Turn
                     /\ [t EXCEPT !.cancelled = FALSE] \in Turn
                     /\ [t EXCEPT !.iterations = TRUE] \in Turn
                     /\ \A a \in Nat : /\ [t EXCEPT !.phase = "tools", !.snap = a] \in Turn
                                       /\ [t EXCEPT !.snap = a] \in Turn
  BY DEF Turn, NoTurn

LEMMA CompleteTurnKeeps ==
  ASSUME NEW S, Good(S), NEW c \in Conversations, NEW declared,
         NEW stop \in BOOLEAN, NEW implicit \in BOOLEAN
  PROVE  LET T == onCascadeComplete(S, c, declared, stop, implicit)
         IN  Good(T) /\ StaysClosed(S, T)
<1> DEFINE D == applyDeclaredStatus(S, declared)
           I == IF implicit
                THEN applyImplicitCompletion(D, declared, stop, S.turn[c].iterations) ELSE D
           T == [I EXCEPT !.turn[c] = NoTurn]
<1>1. S.turn[c].iterations \in BOOLEAN
  BY RowFacts, TurnFacts DEF Good
<1>2. Good(D) /\ StaysClosed(S, D)
  BY DeclaredKeeps
<1> HIDE DEF D
<1>3. Good(I) /\ StaysClosed(D, I)
  BY <1>1, <1>2, ImplicitKeeps, StaysClosedSame
<1> HIDE DEF I
<1>4. Good(T) /\ StaysClosed(I, T)
  <2>1. NoTurn \in Turn
    BY TurnFacts
  <2>2. Good(T) /\ T.rows = I.rows
    BY <1>3, <2>1, TurnKeeps
  <2>3. QED
    BY <2>2, StaysClosedSame
<1>5. Good(T) /\ StaysClosed(S, T)
  BY <1>2, <1>3, <1>4, StaysClosedTrans
<1>6. QED
  BY <1>5 DEF D, I, onCascadeComplete

\* A new plan takes the anchor.
LEMMA CreateAnchored ==
  ASSUME NEW S, Good(S), NEW c \in Conversations, NEW owners \in Seq({"agent", "user"}),
         owners # <<>>
  PROVE  LET T == [createPlan(S, c, owners) EXCEPT !.anchor = Len(S.rows) + 1]
         IN  Good(T) /\ StaysClosed(S, T) /\ T.turn = S.turn
<1> DEFINE U == createPlan(S, c, owners)
           n == Len(S.rows)
           T == [U EXCEPT !.anchor = n + 1]
<1>1. n \in Nat
  BY RowFacts DEF Good
<1>2. /\ Good(U) /\ StaysClosed(S, U) /\ U.turn = S.turn /\ Len(U.rows) = n + 1
      /\ U.rows[n + 1].status = "executing"
  BY CreateKeeps
<1> HIDE DEF U
<1>3. n + 1 \in 0..Len(U.rows) /\ U.rows[n + 1].status \notin Closed
  BY <1>1, <1>2 DEF Closed
<1> HIDE DEF n
<1>4. Good(T) /\ T.rows = U.rows /\ T.turn = U.turn
  BY <1>2, <1>3, AnchorKeeps
<1>5. Good(T) /\ StaysClosed(S, T) /\ T.turn = S.turn
  BY <1>2, <1>4 DEF StaysClosed
<1>6. QED
  BY <1>5 DEF U, n

LEMMA OutlineFacts ==
  /\ \A owners \in StepOwners : owners # <<>> => owners \in Seq({"agent", "user"})
  /\ <<"agent">> \in Seq({"agent", "user"}) /\ <<"agent">> # <<>>
<1>1. <<"agent">> \in Seq({"agent", "user"}) /\ <<"agent">> # <<>>
  OBVIOUS
<1>2. <<"user">> \in Seq({"agent", "user"})
  OBVIOUS
<1>3. ASSUME NEW n \in Outlines
      PROVE  [i \in 1..n |-> "agent"] \in Seq({"agent", "user"})
  BY TaskPlansAssumption
<1>4. QED
  BY <1>1, <1>2, <1>3 DEF StepOwners

LEMMA StartTaskKeeps ==
  ASSUME NEW S, Good(S), NEW owners \in StepOwners, front \in Conversations \cup {None}
  PROVE  Good(startTask(S, owners)) /\ StaysClosed(S, startTask(S, owners))
<1>1. LET T == [S EXCEPT !.anchor = 0] IN Good(T) /\ StaysClosed(S, T)
  BY NoAnchor, StaysClosedSame
<1>2. ASSUME front # None, owners # <<>>
      PROVE  LET T == [createPlan(S, front, owners) EXCEPT !.anchor = Len(S.rows) + 1]
             IN  Good(T) /\ StaysClosed(S, T)
  BY <1>2, CreateAnchored, OutlineFacts
<1>3. QED
  BY <1>1, <1>2, StaysClosedSame DEF startTask

LEMMA CompleteTaskKeeps ==
  ASSUME NEW S, Good(S), NEW c, NEW named
  PROVE  Good(completeTask(S, c, named)) /\ StaysClosed(S, completeTask(S, c, named))
<1> DEFINE own == NewestExecuting(S, c)
           p == CASE S.anchor # 0 -> S.anchor
                  [] S.anchor = 0 /\ own # 0 -> own
                  [] OTHER -> named
           T == updatePlanStatus(S, p, "completed")
           steps == T.rows[p].steps
           done == [i \in DOMAIN steps |-> [steps[i] EXCEPT !.status = "done"]]
           U == [T EXCEPT !.rows[p].steps = done]
<1>1. completeTask(S, c, named) = IF ~Exists(S, p) THEN S ELSE U
  BY DEF completeTask
<1> HIDE DEF p
<1>2. CASE ~Exists(S, p)
  BY <1>1, <1>2, StaysClosedSame
<1>3. CASE Exists(S, p)
  <2>1. /\ Good(T) /\ StaysClosed(S, T) /\ Exists(T, p) /\ T.rows[p].status = "completed"
    BY <1>3, GoodGoodBut, CloseKeeps DEF Closed
  <2>2. GoodBut(T, p) /\ T \in State
    BY <2>1, GoodGoodBut DEF Good
  <2> HIDE DEF T
  <2>3. steps \in Steps
    BY <2>1, <2>2, ExistsFacts
  <2> HIDE DEF steps
  <2>4. done \in Steps
    <3>1. steps \in Seq(PlanStep) /\ Len(steps) \in Nat /\ DOMAIN steps = 1..Len(steps)
          /\ \A i \in 1..Len(steps) : steps[i] \in PlanStep
      BY <2>3, LenProperties DEF Steps
    <3>2. \A i \in 1..Len(steps) : [steps[i] EXCEPT !.status = "done"] \in PlanStep
      BY <3>1 DEF PlanStep
    <3>3. done \in Seq(PlanStep) /\ DOMAIN done = DOMAIN steps
      BY <3>1, <3>2
    <3>4. QED
      BY <2>3, <3>1, <3>3, EmptySeq DEF Steps
  <2> HIDE DEF done
  <2>5. Good(U)
    BY <2>1, <2>2, <2>4, StepsKeep DEF Closed
  <2>6. /\ U \in State /\ Len(U.rows) = Len(T.rows)
        /\ \A q \in DOMAIN T.rows \ {p} : U.rows[q] = T.rows[q]
        /\ U.rows[p].status = T.rows[p].status
    BY <2>1, <2>2, <2>4, WriteSteps
  <2> HIDE DEF U
  <2>7. StaysClosed(T, U)
    BY <2>2, <2>6, RowFacts DEF StaysClosed
  <2>8. QED
    BY <1>1, <1>3, <2>1, <2>5, <2>7, StaysClosedTrans
<1>4. QED
  BY <1>2, <1>3

LEMMA AutoAnchorKeeps ==
  ASSUME NEW S, Good(S), NEW c \in Conversations, NEW worded \in BOOLEAN
  PROVE  Good(autoAnchor(S, c, worded)) /\ StaysClosed(S, autoAnchor(S, c, worded))
<1> DEFINE n == Len(S.rows)
           U == [createPlan(S, c, <<"agent">>) EXCEPT !.anchor = n + 1]
           t == [U.turn[c] EXCEPT !.snap = n + 1]
           T == [U EXCEPT !.turn[c] = t]
<1>1. /\ Good(U) /\ StaysClosed(S, U)
  BY CreateAnchored, OutlineFacts
<1>2. T = [createPlan(S, c, <<"agent">>) EXCEPT !.anchor = n + 1, !.turn[c].snap = n + 1]
  BY DEF createPlan
<1>3. n + 1 \in Nat
  BY RowFacts DEF Good
<1> HIDE DEF n, U
<1>4. t \in Turn
  BY <1>1, <1>3, TurnFacts, RowFacts DEF Good
<1> HIDE DEF t
<1>5. Good(T) /\ StaysClosed(U, T)
  <2>1. Good(T) /\ T.rows = U.rows
    BY <1>1, <1>4, TurnKeeps
  <2>2. QED
    BY <2>1, StaysClosedSame
<1>6. Good(T) /\ StaysClosed(S, T)
  BY <1>1, <1>5, StaysClosedTrans
<1> HIDE DEF T
<1>7. autoAnchor(S, c, worded) = T \/ autoAnchor(S, c, worded) = S
  BY <1>2 DEF autoAnchor, n
<1>8. QED
  BY <1>6, <1>7, StaysClosedSame

LEMMA StopGenerationKeeps ==
  ASSUME NEW S, Good(S), NEW c \in Conversations
  PROVE  LET T == stopGeneration(S, c)
         IN  Good(T) /\ T.rows = S.rows /\ T.anchor = S.anchor
<1> DEFINE t == [NoTurn EXCEPT !.cancelled = TRUE]
<1>1. t \in Turn
  BY TurnFacts
<1> HIDE DEF t
<1>2. LET T == [S EXCEPT !.turn[c] = t]
      IN  Good(T) /\ T.rows = S.rows /\ T.anchor = S.anchor
  BY <1>1, TurnKeeps
<1>3. QED
  BY <1>2 DEF stopGeneration, t

---------------------------------------------------------------------------
\* The steps of the system

LEMMA BecomeGood ==
  ASSUME NEW S, Good(S), Become(S)
  PROVE  Sys' = S /\ Good(Sys)'
<1>1. S = [rows |-> S.rows, later |-> S.later, anchor |-> S.anchor, turn |-> S.turn]
  BY DEF Good, State
<1>2. Sys' = S
  BY <1>1 DEF Become, Sys
<1>3. QED
  BY <1>2

LEMMA SysFacts ==
  ASSUME Good(Sys)
  PROVE  /\ Sys \in State /\ Sys.rows = rows /\ Sys.anchor = anchor /\ Sys.turn = turn
         /\ Sys.later = later
         /\ rows \in Seq(Plan) /\ Len(rows) \in Nat /\ DOMAIN rows = 1..Len(rows)
         /\ anchor \in 0..Len(rows) /\ anchor \in Nat
         /\ turn \in [Conversations -> Turn] /\ later \subseteq Nat \X Nat
         /\ \A p \in DOMAIN rows : rows[p] \in Plan /\ Ends(rows[p])
<1>1. Sys \in State /\ Sys.rows = rows /\ Sys.anchor = anchor /\ Sys.turn = turn
      /\ Sys.later = later
  BY DEF Good, Sys
<1>2. QED
  BY <1>1, RowFacts DEF Good

LEMMA StartTurnGood ==
  ASSUME Good(Sys), NEW c \in Conversations, StartTurn(c)
  PROVE  Good(Sys)' /\ StaysClosed(Sys, Sys')
<1> DEFINE t == [Sys.turn[c] EXCEPT !.phase = "request", !.iterations = FALSE]
           S == [Sys EXCEPT !.turn[c] = t]
           T == buildRequest(S)
<1>1. Become(T)
  BY DEF StartTurn
<1>2. t \in Turn
  BY SysFacts, TurnFacts
<1> HIDE DEF t
<1>3. Good(S) /\ S.rows = Sys.rows
  BY <1>2, TurnKeeps
<1>4. StaysClosed(Sys, S)
  BY <1>3, StaysClosedSame
<1> HIDE DEF S
<1>5. Good(T) /\ StaysClosed(S, T)
  BY <1>3, BuildKeeps
<1> HIDE DEF T
<1>6. QED
  BY <1>1, <1>4, <1>5, BecomeGood, StaysClosedTrans

LEMMA BatchCompletedGood ==
  ASSUME Good(Sys), NEW c \in Conversations, BatchCompleted(c)
  PROVE  Good(Sys)' /\ StaysClosed(Sys, Sys')
<1> DEFINE t == [Sys.turn[c] EXCEPT !.phase = "request", !.snap = 0]
           S == [Sys EXCEPT !.turn[c] = t]
           T == buildRequest(S)
<1>1. Become(T)
  BY DEF BatchCompleted
<1>2. t \in Turn
  BY SysFacts, TurnFacts
<1> HIDE DEF t
<1>3. Good(S) /\ S.rows = Sys.rows
  BY <1>2, TurnKeeps
<1>4. StaysClosed(Sys, S)
  BY <1>3, StaysClosedSame
<1> HIDE DEF S
<1>5. Good(T) /\ StaysClosed(S, T)
  BY <1>3, BuildKeeps
<1> HIDE DEF T
<1>6. QED
  BY <1>1, <1>4, <1>5, BecomeGood, StaysClosedTrans

LEMMA RequestErrorGood ==
  ASSUME Good(Sys), NEW c \in Conversations, RequestError(c)
  PROVE  Good(Sys)' /\ StaysClosed(Sys, Sys')
<1> DEFINE t == [NoTurn EXCEPT !.cancelled = turn[c].cancelled]
           S == [Sys EXCEPT !.turn[c] = t]
<1>1. t \in Turn
  BY SysFacts, TurnFacts
<1>2. Sys' = S
  BY SysFacts DEF RequestError, Sys
<1> HIDE DEF t
<1>3. Good(S) /\ S.rows = Sys.rows
  BY <1>1, TurnKeeps
<1>4. QED
  BY <1>2, <1>3, StaysClosedSame

LEMMA RequestFinishedGood ==
  ASSUME Good(Sys), NEW c \in Conversations, RequestFinished(c)
  PROVE  Good(Sys)' /\ StaysClosed(Sys, Sys')
<1> DEFINE t == [Sys.turn[c] EXCEPT !.cancelled = FALSE]
           S == [Sys EXCEPT !.turn[c].cancelled = FALSE]
           C == handleUserCancel(S)
           u == [S.turn[c] EXCEPT !.phase = "tools", !.snap = anchor]
<1>1. \/ Become([C EXCEPT !.turn[c] = NoTurn])
      \/ Become([S EXCEPT !.turn[c] = u])
      \/ \E stop, implicit \in BOOLEAN, declared \in {"", "completed", "blocked", "working"} :
           Become(onCascadeComplete(S, c, declared, stop, implicit))
  BY DEF RequestFinished
<1>2. t \in Turn /\ NoTurn \in Turn
  BY SysFacts, TurnFacts
<1>3. S = [Sys EXCEPT !.turn[c] = t]
  OBVIOUS
<1> HIDE DEF t, S
<1>4. Good(S) /\ S.rows = Sys.rows
  BY <1>2, <1>3, TurnKeeps
<1>5. StaysClosed(Sys, S)
  BY <1>4, StaysClosedSame
<1>6. ASSUME NEW T, Good(T), StaysClosed(S, T), Become(T)
      PROVE  Good(Sys)' /\ StaysClosed(Sys, Sys')
  BY <1>5, <1>6, BecomeGood, StaysClosedTrans
<1>7. Good([C EXCEPT !.turn[c] = NoTurn]) /\ StaysClosed(S, [C EXCEPT !.turn[c] = NoTurn])
  <2>1. Good(C) /\ StaysClosed(S, C)
    BY <1>4, CancelKeeps
  <2> HIDE DEF C
  <2>2. LET T == [C EXCEPT !.turn[c] = NoTurn] IN Good(T) /\ T.rows = C.rows
    BY <1>2, <2>1, TurnKeeps
  <2>3. QED
    BY <2>1, <2>2 DEF StaysClosed
<1>8. Good([S EXCEPT !.turn[c] = u]) /\ StaysClosed(S, [S EXCEPT !.turn[c] = u])
  <2>1. u \in Turn
    <3>1. S.turn[c] \in Turn /\ anchor \in Nat
      BY <1>4, RowFacts, SysFacts DEF Good
    <3>2. QED
      BY <3>1, TurnFacts
  <2> HIDE DEF u
  <2>2. LET T == [S EXCEPT !.turn[c] = u] IN Good(T) /\ T.rows = S.rows
    BY <1>4, <2>1, TurnKeeps
  <2>3. QED
    BY <2>2, StaysClosedSame
<1>9. ASSUME NEW stop \in BOOLEAN, NEW implicit \in BOOLEAN, NEW declared
      PROVE  LET T == onCascadeComplete(S, c, declared, stop, implicit)
             IN  Good(T) /\ StaysClosed(S, T)
  BY <1>4, CompleteTurnKeeps
<1> HIDE DEF C, u
<1>10. QED
  BY <1>1, <1>6, <1>7, <1>8, <1>9

LEMMA ToolCallGood ==
  ASSUME IInv, NEW c \in Conversations, ToolCall(c)
  PROVE  Good(Sys)' /\ StaysClosed(Sys, Sys')
<1> DEFINE t == [Sys.turn[c] EXCEPT !.iterations = TRUE]
           S == [Sys EXCEPT !.turn[c].iterations = TRUE]
<1> USE DEF IInv
<1>1. \/ \E owners \in StepOwners : Become(startTask(S, owners))
      \/ \E p \in DOMAIN rows \cup {0} : Become(stopTask(S, p))
      \/ \E p \in DOMAIN rows \cup {0} : Become(completeTask(S, c, p))
      \/ \E worded \in BOOLEAN : Become(autoAnchor(S, c, worded))
  BY DEF ToolCall
<1>2. t \in Turn
  BY SysFacts, TurnFacts
<1>3. S = [Sys EXCEPT !.turn[c] = t]
  OBVIOUS
<1> HIDE DEF t, S
<1>4. Good(S) /\ S.rows = Sys.rows
  BY <1>2, <1>3, TurnKeeps
<1>5. StaysClosed(Sys, S)
  BY <1>4, StaysClosedSame
<1>6. ASSUME NEW T, Good(T), StaysClosed(S, T), Become(T)
      PROVE  Good(Sys)' /\ StaysClosed(Sys, Sys')
  BY <1>5, <1>6, BecomeGood, StaysClosedTrans
<1>7. ASSUME NEW owners \in StepOwners
      PROVE  Good(startTask(S, owners)) /\ StaysClosed(S, startTask(S, owners))
  BY <1>4, StartTaskKeeps
<1>8. ASSUME NEW p
      PROVE  Good(stopTask(S, p)) /\ StaysClosed(S, stopTask(S, p))
  BY <1>4, StopTaskKeeps DEF stopTask
<1>9. ASSUME NEW p
      PROVE  Good(completeTask(S, c, p)) /\ StaysClosed(S, completeTask(S, c, p))
  BY <1>4, CompleteTaskKeeps
<1>10. ASSUME NEW worded \in BOOLEAN
       PROVE  Good(autoAnchor(S, c, worded)) /\ StaysClosed(S, autoAnchor(S, c, worded))
  BY <1>4, AutoAnchorKeeps
<1>11. QED
  BY <1>1, <1>6, <1>7, <1>8, <1>9, <1>10

LEMMA TurnStepGood ==
  ASSUME IInv, NEW c \in Conversations, TurnStep(c)
  PROVE  Good(Sys)' /\ StaysClosed(Sys, Sys')
  BY StartTurnGood, RequestFinishedGood, RequestErrorGood, BatchCompletedGood, ToolCallGood
     DEF TurnStep, IInv

\* Several rows are written at once.
LEMMA RowsKeep ==
  ASSUME NEW S, Good(S), NEW r \in Seq(Plan), Len(r) = Len(S.rows),
         NEW l \in SUBSET (Nat \X Nat), NEW a \in 0..Len(S.rows),
         a # 0 => r[a].status \notin Closed,
         \A p \in DOMAIN r : Ends(r[p])
  PROVE  LET T == [S EXCEPT !.rows = r, !.later = l, !.anchor = a]
         IN  Good(T) /\ T.turn = S.turn /\ T.rows = r /\ T.anchor = a
<1> DEFINE T == [S EXCEPT !.rows = r, !.later = l, !.anchor = a]
<1>1. S \in State /\ a \in Nat
  BY RowFacts DEF Good
<1>2. T \in State /\ T.rows = r /\ T.anchor = a /\ T.turn = S.turn
  BY <1>1 DEF State
<1> HIDE DEF T
<1>3. Good(T)
  BY <1>2 DEF Good
<1>4. QED
  BY <1>2, <1>3 DEF T

LEMMA UserStartGood ==
  ASSUME Good(Sys), NEW c \in Conversations, userInitiatedStartTask(c)
  PROVE  Good(Sys)'
<1> DEFINE S == createPlan(Sys, c, <<"agent">>)
           n == Len(Sys.rows)
           A == [S EXCEPT !.anchor = Len(S.rows)]
           t == [S.turn[c] EXCEPT !.phase = "request", !.iterations = FALSE]
           T == [A EXCEPT !.turn[c] = t]
<1>1. \/ Become(S)
      \/ Become([S EXCEPT !.anchor = Len(S.rows),
                   !.turn[c] = [@ EXCEPT !.phase = "request", !.iterations = FALSE]])
  BY DEF userInitiatedStartTask
<1>2. T = [S EXCEPT !.anchor = Len(S.rows),
                    !.turn[c] = [@ EXCEPT !.phase = "request", !.iterations = FALSE]]
  BY DEF createPlan
<1>3. n \in Nat
  BY SysFacts
<1>4. /\ Good(S) /\ S.turn = Sys.turn /\ Len(S.rows) = n + 1
      /\ S.rows[n + 1].status = "executing"
  BY CreateKeeps, OutlineFacts
<1> HIDE DEF S, n
<1>5. Len(S.rows) \in 0..Len(S.rows) /\ S.rows[Len(S.rows)].status \notin Closed
  BY <1>3, <1>4 DEF Closed
<1>6. Good(A)
  BY <1>4, <1>5, AnchorKeeps
<1>7. t \in Turn
  BY <1>4, SysFacts, TurnFacts
<1> HIDE DEF A, t
<1>8. Good(T)
  BY <1>6, <1>7, TurnKeeps
<1> HIDE DEF T
<1>9. QED
  BY <1>1, <1>2, <1>4, <1>8, BecomeGood

LEMMA StopPlanGood ==
  ASSUME Good(Sys), NEW p, stopPlan(p)
  PROVE  Good(Sys)'
<1> DEFINE H == handleStopTask(Sys, p)
<1>1. PICK first \in Conversations : Become(onExternalPlanStopped(H, p, first))
  BY DEF stopPlan
<1>2. Good(H)
  BY StopTaskKeeps
<1> HIDE DEF H
<1> DEFINE G == stopGeneration(H, first)
<1>3. Good(G)
  BY <1>2, StopGenerationKeeps
<1> HIDE DEF G
<1>4. Good([G EXCEPT !.anchor = 0])
  BY <1>3, NoAnchor
<1>5. Good(onExternalPlanStopped(H, p, first))
  BY <1>2, <1>4 DEF onExternalPlanStopped, G
<1>6. QED
  BY <1>1, <1>5, BecomeGood

LEMMA StopAllGood ==
  ASSUME Good(Sys), NEW c \in Conversations, stopAllActivePlansInConversation(c)
  PROVE  Good(Sys)'
<1> DEFINE mine == activePlansForConversation(Sys, c)
           failed(p) == [rows[p] EXCEPT !.status = "failed"]
           r == [p \in DOMAIN rows |-> IF p \in mine THEN failed(p) ELSE rows[p]]
           l == Touched(Sys, mine)
           a == IF anchor \in mine THEN 0 ELSE anchor
           S == [Sys EXCEPT !.rows = r, !.later = l, !.anchor = a]
           T == IF c \in loaded \cup keyed THEN stopGeneration(S, c) ELSE S
<1>1. Become(IF c \in loaded THEN [T EXCEPT !.anchor = 0] ELSE T)
  BY DEF stopAllActivePlansInConversation, Sys
<1>2. /\ Sys \in State /\ Sys.rows = rows /\ DOMAIN rows = 1..Len(rows) /\ Len(rows) \in Nat
      /\ anchor \in 0..Len(rows) /\ Sys.anchor = anchor
      /\ \A p \in DOMAIN rows : rows[p] \in Plan /\ Ends(rows[p])
  BY SysFacts
<1>3. /\ mine \subseteq DOMAIN rows
      /\ \A p \in mine : rows[p].status \in Open
  BY <1>2 DEF activePlansForConversation
<1> HIDE DEF mine
<1>4. \A p \in mine : failed(p) \in Plan /\ failed(p).status = "failed" /\ Ends(failed(p))
  <2> TAKE p \in mine
  <2>1. rows[p] \in [conv : Conversations, status : Open \cup Closed, steps : Steps, old : BOOLEAN]
    BY <1>2, <1>3, PlanFacts
  <2>2. failed(p) \in [conv : Conversations, status : Open \cup Closed, steps : Steps, old : BOOLEAN]
        /\ failed(p).status = "failed"
    BY <2>1 DEF Closed
  <2> HIDE DEF failed
  <2>3. QED
    BY <2>2 DEF Plan, Ends, Open
<1> HIDE DEF failed
<1>5. /\ DOMAIN r = 1..Len(rows)
      /\ \A p \in DOMAIN r : /\ r[p] \in Plan /\ Ends(r[p])
                             /\ p \notin mine => r[p] = rows[p]
  BY <1>2, <1>4
<1>6. r \in Seq(Plan) /\ Len(r) = Len(rows)
  <2>1. r = [p \in 1..Len(rows) |-> r[p]]
    BY <1>2
  <2>2. QED
    BY <1>2, <1>5, <2>1
<1>7. l \in SUBSET (Nat \X Nat)
  BY <1>2, <1>3, TouchedType
<1>8. a \in 0..Len(rows) /\ (a # 0 => r[a].status \notin Closed)
  <2>1. a \in 0..Len(rows) /\ (a # 0 => a = anchor /\ a \notin mine /\ a \in DOMAIN r)
    BY <1>2, <1>5
  <2>2. anchor # 0 => rows[anchor].status \notin Closed
    BY <1>2 DEF Good
  <2>3. QED
    BY <1>5, <2>1, <2>2
<1> HIDE DEF r, l, a
<1>9. Good(S)
  BY <1>2, <1>5, <1>6, <1>7, <1>8, RowsKeep
<1> HIDE DEF S
<1>10. Good(T)
  BY <1>9, StopGenerationKeeps
<1> HIDE DEF T
<1>11. Good([T EXCEPT !.anchor = 0])
  BY <1>10, NoAnchor
<1>12. QED
  BY <1>1, <1>10, <1>11, BecomeGood

LEMMA UserStepGood ==
  ASSUME Good(Sys), NEW p, UserStep(p)
  PROVE  Good(Sys)'
<1>1. /\ Exists(Sys, p)
      /\ \E i \in DOMAIN Sys.rows[p].steps :
           \/ Become(userRetryStep(Sys, p, i))
           \/ Become(userOverrideStepAsDone(Sys, p, i))
           \/ Become(userSkipStep(Sys, p, i))
  BY SysFacts DEF UserStep
<1>2. QED
  BY <1>1, UserStepKeeps, BecomeGood

LEMMA PlanAgesGood ==
  ASSUME Good(Sys), NEW p, PlanAges(p)
  PROVE  Good(Sys)'
<1> DEFINE new == [rows[p] EXCEPT !.old = TRUE]
           T == [Sys EXCEPT !.rows = [@ EXCEPT ![p] = new]]
<1>1. Sys \in State /\ Exists(Sys, p) /\ Sys.rows = rows /\ p \in DOMAIN rows
  BY SysFacts DEF PlanAges, Exists
<1>2. rows[p] \in [conv : Conversations, status : Open \cup Closed, steps : Steps, old : BOOLEAN]
  BY <1>1, ExistsFacts
<1>3. /\ new \in Plan /\ new.status = rows[p].status /\ new.steps = rows[p].steps
  BY <1>2 DEF Plan
<1>4. Sys' = T
  <2>1. rows' = [rows EXCEPT ![p] = new] /\ UNCHANGED <<later, anchor, turn>>
    BY DEF PlanAges
  <2> HIDE DEF new
  <2>2. QED
    BY <2>1 DEF Sys
<1> HIDE DEF new
<1>5. /\ T \in State /\ Len(T.rows) = Len(rows) /\ DOMAIN T.rows = DOMAIN rows
      /\ T.rows[p] = new /\ \A q \in DOMAIN rows \ {p} : T.rows[q] = rows[q]
      /\ T.anchor = anchor
  <2>1. Sys.anchor = anchor /\ p \in DOMAIN Sys.rows
    BY <1>1, SysFacts
  <2>2. /\ T \in State /\ Len(T.rows) = Len(Sys.rows) /\ DOMAIN T.rows = DOMAIN Sys.rows
        /\ T.rows[p] = new /\ \A q \in DOMAIN Sys.rows \ {p} : T.rows[q] = Sys.rows[q]
        /\ T.anchor = Sys.anchor
    BY <1>1, <1>3, <2>1, WriteRow
  <2> HIDE DEF T
  <2>3. QED
    BY <1>1, <2>1, <2>2
<1> HIDE DEF T
<1>6. /\ anchor \in 0..Len(rows) /\ DOMAIN rows = 1..Len(rows) /\ Len(rows) \in Nat
      /\ anchor # 0 => rows[anchor].status \notin Closed
      /\ \A q \in DOMAIN rows : Ends(rows[q])
  BY SysFacts DEF Good
<1>7. Ends(new)
  BY <1>1, <1>3, <1>6 DEF Ends
<1>8. Good(T)
  BY <1>3, <1>5, <1>6, <1>7 DEF Good
<1>9. QED
  BY <1>4, <1>8

LEMMA SwitchGood ==
  ASSUME Good(Sys), front \in Conversations \cup {None}, NEW c \in Conversations,
         SwitchConversation(c)
  PROVE  Good(Sys)'
<1> DEFINE S == onConversationSwitched(Sys, c)
           U == [S EXCEPT !.turn[c] = S.turn[front]]
           T == [U EXCEPT !.turn[front] = NoTurn]
<1>1. CASE c \in loaded
  BY <1>1 DEF SwitchConversation, Sys
<1>2. CASE c \notin loaded
  <2>1. \/ Become(S)
        \/ /\ front # None
           /\ Become([S EXCEPT !.turn[c] = S.turn[front], !.turn[front] = NoTurn])
    BY <1>2 DEF SwitchConversation
  <2>2. T = [S EXCEPT !.turn[c] = S.turn[front], !.turn[front] = NoTurn]
    BY DEF onConversationSwitched
  <2>3. Good(S) /\ S.turn = Sys.turn
    BY SwitchedKeeps
  <2> HIDE DEF S
  <2>4. ASSUME front # None
        PROVE  Good(T)
    <3>1. front \in Conversations /\ NoTurn \in Turn
      BY <2>4, TurnFacts
    <3>2. S.turn[front] \in Turn
      BY <2>3, <3>1, SysFacts
    <3>3. Good(U)
      BY <2>3, <3>2, TurnKeeps
    <3> HIDE DEF U
    <3>4. QED
      BY <3>1, <3>3, TurnKeeps
  <2> HIDE DEF T
  <2>5. QED
    BY <2>1, <2>2, <2>3, <2>4, BecomeGood
<1>3. QED
  BY <1>1, <1>2

LEMMA DeleteGood ==
  ASSUME Good(Sys), NEW c \in Conversations, DeleteConversation(c)
  PROVE  Good(Sys)'
<1> DEFINE r == [p \in DOMAIN Sys.rows |-> IF Sys.rows[p].conv = c THEN Gone ELSE Sys.rows[p]]
           l == {x \in Sys.later : \A i \in 1..2 : rows[x[i]].conv # c}
           S == [Sys EXCEPT !.rows = r, !.later = l, !.anchor = anchor]
           T == [S EXCEPT !.turn[c] = NoTurn]
<1>1. Become(T)
  <2> DEFINE D == [Sys EXCEPT !.rows = r, !.later = l, !.turn[c] = NoTurn]
  <2>1. Become(D)
    BY DEF DeleteConversation
  <2> HIDE DEF r, l
  <2>2. T = D
    BY SysFacts DEF State
  <2> HIDE DEF D, T
  <2>3. QED
    BY <2>1, <2>2
<1>2. /\ Sys \in State /\ Sys.rows = rows /\ DOMAIN rows = 1..Len(rows) /\ Len(rows) \in Nat
      /\ anchor \in 0..Len(rows) /\ Sys.anchor = anchor /\ Sys.later \subseteq Nat \X Nat
      /\ \A p \in DOMAIN rows : rows[p] \in Plan /\ Ends(rows[p])
  BY SysFacts
<1>3. /\ DOMAIN r = 1..Len(rows)
      /\ \A p \in DOMAIN r : /\ r[p] \in Plan /\ Ends(r[p])
                             /\ r[p] = rows[p] \/ r[p] = Gone
  BY <1>2, PlanFacts
<1>4. r \in Seq(Plan) /\ Len(r) = Len(rows)
  <2>1. r = [p \in 1..Len(rows) |-> r[p]]
    BY <1>2
  <2>2. QED
    BY <1>2, <1>3, <2>1
<1>5. l \in SUBSET (Nat \X Nat)
  BY <1>2
<1>6. anchor # 0 => r[anchor].status \notin Closed
  <2>1. anchor # 0 => anchor \in DOMAIN r /\ rows[anchor].status \notin Closed
    BY <1>2, <1>3 DEF Good
  <2>2. QED
    BY <1>3, <2>1, PlanFacts DEF Closed
<1> HIDE DEF r, l
<1>7. Good(S)
  BY <1>2, <1>3, <1>4, <1>5, <1>6, RowsKeep
<1> HIDE DEF S
<1>8. NoTurn \in Turn
  BY TurnFacts
<1>9. Good(T)
  BY <1>7, <1>8, TurnKeeps
<1> HIDE DEF T
<1>10. QED
  BY <1>1, <1>9, BecomeGood

---------------------------------------------------------------------------
\* The theorems

LEMMA InitInv == Init => IInv
<1>1. ASSUME Init PROVE IInv
  <2>1. rows = <<>> /\ anchor = 0 /\ later = {} /\ front = None
        /\ turn = [c \in Conversations |-> NoTurn]
    BY <1>1 DEF Init
  <2>2. rows \in Seq(Plan) /\ Len(rows) = 0 /\ DOMAIN rows = {}
    BY <2>1, EmptySeq
  <2>3. turn \in [Conversations -> Turn] /\ later \in SUBSET (Nat \X Nat) /\ anchor \in Nat
    BY <2>1, TurnFacts
  <2>4. Sys \in State /\ Sys.rows = rows /\ Sys.anchor = anchor
    BY <2>2, <2>3 DEF Sys, State
  <2>5. QED
    BY <2>1, <2>2, <2>4 DEF IInv, Good
<1>2. QED
  BY <1>1

LEMMA NextInv == IInv /\ [Next]_vars => IInv'
<1> SUFFICES ASSUME IInv, [Next]_vars PROVE IInv'
  OBVIOUS
<1>1. Good(Sys) /\ front \in Conversations \cup {None}
  BY DEF IInv
<1>2. CASE UNCHANGED vars
  BY <1>1, <1>2 DEF vars, IInv, Sys
<1>3. ASSUME NEW c \in Conversations, TurnStep(c)
      PROVE  IInv'
  <2>1. front' = front
    BY <1>3 DEF TurnStep, StartTurn, RequestFinished, RequestError, BatchCompleted, ToolCall
  <2>2. QED
    BY <1>1, <1>3, <2>1, TurnStepGood DEF IInv
<1>4. ASSUME UserDoes
      PROVE  IInv'
  <2>1. ASSUME NEW c \in Conversations, StopTurn(c) PROVE IInv'
    <3>1. Good(stopGeneration(Sys, c)) /\ Become(stopGeneration(Sys, c)) /\ front' = front
      BY <1>1, <2>1, StopGenerationKeeps DEF StopTurn
    <3>2. QED
      BY <1>1, <3>1, BecomeGood DEF IInv
  <2>2. ASSUME NEW c \in Conversations, SwitchConversation(c) PROVE IInv'
    <3>1. front' = c
      BY <2>2 DEF SwitchConversation
    <3>2. QED
      BY <1>1, <2>2, <3>1, SwitchGood DEF IInv
  <2>3. ASSUME NEW c \in Conversations, DeleteConversation(c) PROVE IInv'
    <3>1. front' \in {front, None}
      BY <2>3 DEF DeleteConversation
    <3>2. QED
      BY <1>1, <2>3, <3>1, DeleteGood DEF IInv
  <2>4. ASSUME NEW c \in Conversations, userInitiatedStartTask(c) PROVE IInv'
    <3>1. front' = front
      BY <2>4 DEF userInitiatedStartTask
    <3>2. QED
      BY <1>1, <2>4, <3>1, UserStartGood DEF IInv
  <2>5. ASSUME NEW c \in Conversations, stopAllActivePlansInConversation(c) PROVE IInv'
    <3>1. front' = front
      BY <2>5 DEF stopAllActivePlansInConversation
    <3>2. QED
      BY <1>1, <2>5, <3>1, StopAllGood DEF IInv
  <2>6. CASE ClearSelection
    <3>1. front' = None /\ Sys' = Sys
      BY <2>6 DEF ClearSelection, Sys
    <3>2. QED
      BY <1>1, <3>1 DEF IInv
  <2>7. ASSUME NEW p \in DOMAIN rows, stopPlan(p) PROVE IInv'
    <3>1. front' = front
      BY <2>7 DEF stopPlan
    <3>2. QED
      BY <1>1, <2>7, <3>1, StopPlanGood DEF IInv
  <2>8. ASSUME NEW p \in DOMAIN rows, UserStep(p) PROVE IInv'
    <3>1. front' = front
      BY <2>8 DEF UserStep
    <3>2. QED
      BY <1>1, <2>8, <3>1, UserStepGood DEF IInv
  <2>9. ASSUME NEW p \in DOMAIN rows, PlanAges(p) PROVE IInv'
    <3>1. front' = front
      BY <2>9 DEF PlanAges
    <3>2. QED
      BY <1>1, <2>9, <3>1, PlanAgesGood DEF IInv
  <2>10. QED
    BY <1>4, <2>1, <2>2, <2>3, <2>4, <2>5, <2>6, <2>7, <2>8, <2>9 DEF UserDoes
<1>5. QED
  BY <1>2, <1>3, <1>4 DEF Next

\* Every reachable state is a good one for the gate: rows, anchor and turns keep
\* their types, the anchor is on no ended plan, and what has nothing left to do
\* is not open (task-gate-service.cpp:56-60, task-runner.cpp:372-378).
THEOREM Inductive == Spec => []IInv
  BY InitInv, NextInv, PTL DEF Spec

\* task-gate-service.cpp:56-60: whichever path closes a plan, the anchor that all
\* runs share is off it when the handler returns; so no request is built and no
\* tool runs under a plan that has been completed or has failed.  The id of a plan
\* deleted with its conversation may stay anchored (plan-service.cpp:446-472).
THEOREM AnchorStaysLive == Spec => []AnchorIsLive
<1>1. IInv => AnchorIsLive
  BY DEF IInv, Good, Sys, AnchorIsLive
<1>2. QED
  BY <1>1, Inductive, PTL

\* task-runner.cpp:372-378: a plan whose every step is done, skipped or overridden
\* is completed or failed, whoever marked the last step and in whatever order.
THEOREM FinishedPlansClose == Spec => []NothingLeftMeansClosed
<1>1. IInv => NothingLeftMeansClosed
  BY DEF IInv, Good, Sys, Ends, NothingLeftMeansClosed
<1>2. QED
  BY <1>1, Inductive, PTL

\* No reply, tool call or declared status takes a plan back from completed or
\* failed: the only write of "blocked" in a turn goes to the anchored plan, and
\* that one is not closed (task-gate-service.cpp, applyDeclaredStatus).
THEOREM ModelsNeverReopen == Spec => OnlyUserReopens
<1> DEFINE Stays == \A c \in Conversations : TurnStep(c) =>
                      \A p \in DOMAIN rows :
                        rows[p].status \in Closed => rows'[p].status \notin Open
<1>1. IInv /\ [Next]_vars => [Stays]_vars
  <2> SUFFICES ASSUME IInv, NEW c \in Conversations, TurnStep(c), NEW p \in DOMAIN rows,
                      rows[p].status \in Closed
               PROVE  rows'[p].status \notin Open
    OBVIOUS
  <2>1. StaysClosed(Sys, Sys')
    BY TurnStepGood
  <2>2. rows'[p].status \in Closed
    BY <2>1 DEF StaysClosed, Sys
  <2>3. QED
    BY <2>2 DEF Open, Closed
<1>2. QED
  BY <1>1, Inductive, PTL DEF Spec, OnlyUserReopens

=============================================================================
