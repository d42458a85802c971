------------------------ MODULE ToolDispatcherProofs ------------------------
(***************************************************************************)
(* The tool dispatcher's safety for every set of budgets and every bound:  *)
(* rows pair up, the budget holds, and no reply is asked for early.        *)
(***************************************************************************)
EXTENDS ToolDispatcher, FiniteSetTheorems, SequenceTheorems, TLAPS

Dispatcher == [pending : Seq(1..MaxCalls), parent : BOOLEAN, iterations : Nat,
               failures : Nat, req : Nat, cap : Caps]
Row == [row : {"call", "result"}, call : Nat]
Worker == [req : Nat \ {0}, call : Nat]

Types == /\ d \in Dispatcher
         /\ turn \in {"idle", "streaming", "tools"} /\ req \in Nat /\ ticks \in Nat
         /\ workers \subseteq Worker /\ IsFiniteSet(workers)
         /\ log \in Seq(Row)

\* Without a batch no worker's request is the dispatcher's, and the reply's
\* calls are numbered as they arrive.
Gathering ==
  turn # "tools" =>
    /\ d.req = 0 /\ ~d.parent /\ log = <<>>
    /\ Len(d.pending) <= MaxCalls
    /\ \A i \in 1..Len(d.pending) : d.pending[i] = i
    /\ d.failures <= MaxFailures + MaxCalls - 1

\* A request's id is not one an abandoned worker still carries.
FreshRequest == turn = "streaming" => req # 0 /\ \A w \in workers : w.req # req

\* The calls that have a row, and whether the last of them has no answer yet.
Started == (Len(log) + 1) \div 2
Running == Len(log) % 2 = 1

\* In a batch either one call runs and nothing is posted, or none runs; what is
\* pending follows what has started.
Batch ==
  turn = "tools" =>
    /\ d.req # 0
    /\ \A i \in 1..Len(d.pending) : d.pending[i] = Started + i
    /\ \A w \in workers : w.req = d.req => Running /\ w.call = Started
    /\ \A v, w \in workers : v.req = d.req /\ w.req = d.req => v = w
    /\ ticks <= 1 /\ (Running => ticks = 0)
    /\ d.pending # <<>> => d.parent
    /\ d.failures + Len(d.pending) + (IF Running THEN 1 ELSE 0)
         <= MaxFailures + MaxCalls - 1

IterationsHold == d.cap > 0 /\ turn = "tools" => d.iterations <= d.cap

IInv == /\ Types /\ Gathering /\ FreshRequest /\ Batch
        /\ ResultsPairUp /\ IterationsHold

---------------------------------------------------------------------------
\* Numbers and sequences

\* One more row: a running call is answered, or the next one starts.
LEMMA Parity ==
  ASSUME NEW n \in Nat
  PROVE  /\ n % 2 \in {0, 1} /\ (n + 1) \div 2 \in Nat
         /\ n % 2 = 1 => (n + 1) % 2 = 0 /\ (n + 1 + 1) \div 2 = (n + 1) \div 2
         /\ n % 2 = 0 => (n + 1) % 2 = 1 /\ (n + 1 + 1) \div 2 = (n + 1) \div 2 + 1
  OBVIOUS

LEMMA TailFacts ==
  ASSUME NEW S, NEW s \in Seq(S), s # <<>>
  PROVE  /\ Len(s) \in Nat \ {0} /\ Head(s) \in S /\ Head(s) = s[1]
         /\ Tail(s) \in Seq(S) /\ Len(Tail(s)) = Len(s) - 1
         /\ \A i \in 1..(Len(s) - 1) : Tail(s)[i] = s[i + 1]
  BY HeadTailProperties, LenProperties, EmptySeq

LEMMA AppendFacts ==
  ASSUME NEW S, NEW s \in Seq(S), NEW e \in S
  PROVE  /\ Len(s) \in Nat /\ Append(s, e) \in Seq(S) /\ Append(s, e) # <<>>
         /\ Len(Append(s, e)) = Len(s) + 1
         /\ \A i \in 1..Len(s) : Append(s, e)[i] = s[i]
         /\ Append(s, e)[Len(s) + 1] = e
  BY AppendProperties, LenProperties

\* An id that neither the dispatcher nor a worker refers to exists: there are
\* fewer of those than candidates.
LEMMA FreshId ==
  ASSUME Types
  PROVE  /\ nextGlobalRequestId \in Nat \ {0}
         /\ \A w \in workers : w.req # nextGlobalRequestId
<1> DEFINE n == Cardinality(workers)
           used == {w.req : w \in workers}
           candidates == 1..(n + 2)
<1>1. n \in Nat
  BY FS_CardinalityType DEF Types
<1>2. IsFiniteSet(used) /\ Cardinality(used) <= n
  <2>1. [w \in workers |-> w.req] \in Surjection(workers, used)
    BY DEF Surjection
  <2>2. QED
    BY <2>1, FS_Surjection DEF Types
<1>3. IsFiniteSet(used \cup {d.req}) /\ Cardinality(used \cup {d.req}) <= n + 1
  <2> HIDE DEF n, used
  <2>1. Cardinality(used) \in Nat
    BY <1>2, FS_CardinalityType
  <2>2. IsFiniteSet(used \cup {d.req})
        /\ Cardinality(used \cup {d.req})
             = IF d.req \in used THEN Cardinality(used) ELSE Cardinality(used) + 1
    BY <1>2, FS_AddElement
  <2>3. QED
    BY <1>1, <1>2, <2>1, <2>2
<1>4. Cardinality(candidates) = n + 2
  <2> HIDE DEF n
  <2>1. QED
    BY <1>1, FS_Interval
<1>5. ~(candidates \subseteq used \cup {d.req})
  <2> HIDE DEF n, used, candidates
  <2>1. Cardinality(used \cup {d.req}) \in Nat
    BY <1>3, FS_CardinalityType
  <2>2. candidates \subseteq used \cup {d.req}
          => Cardinality(candidates) <= Cardinality(used \cup {d.req})
    BY <1>3, FS_Subset
  <2>3. QED
    BY <1>1, <1>3, <1>4, <2>1, <2>2
<1>6. \E i \in candidates : i # d.req /\ \A w \in workers : w.req # i
  BY <1>5
<1>7. QED
  BY <1>1, <1>6 DEF nextGlobalRequestId

---------------------------------------------------------------------------
\* The steps all actions are made of

LEMMA ResetFacts ==
  ASSUME NEW k \in Dispatcher
  PROVE  /\ resetState(k) \in Dispatcher
         /\ resetState(k).req = 0 /\ ~resetState(k).parent
         /\ resetState(k).pending = <<>> /\ resetState(k).failures = 0
<1>1. <<>> \in Seq(1..MaxCalls)
  BY EmptySeq
<1>2. QED
  BY <1>1 DEF resetState, Dispatcher

\* A request goes out with an empty reply, whatever workers are left.
LEMMA NewReplyInv ==
  ASSUME Types, NEW k \in Dispatcher, NewReply(k),
         k.req = 0, ~k.parent, k.pending = <<>>,
         k.failures <= MaxFailures + MaxCalls - 1,
         workers' \subseteq workers, ticks' \in Nat
  PROVE  IInv'
<1>1. d' = k /\ turn' = "streaming" /\ req' = nextGlobalRequestId /\ log' = <<>>
  BY DEF NewReply
<1>2. req' \in Nat \ {0} /\ \A w \in workers : w.req # req'
  BY <1>1, FreshId
<1>3. Types'
  BY <1>1, <1>2, FS_Subset DEF Types
<1>4. Gathering'
  BY <1>1, CapsAssumption DEF Gathering
<1>5. FreshRequest' /\ Batch' /\ IterationsHold' /\ ResultsPairUp'
  BY <1>1, <1>2 DEF FreshRequest, Batch, IterationsHold, ResultsPairUp
<1>6. QED
  BY <1>3, <1>4, <1>5 DEF IInv

LEMMA EndTurnInv ==
  ASSUME Types, NEW k \in Dispatcher, EndTurn(k),
         workers' \subseteq workers, ticks' \in Nat
  PROVE  IInv'
<1>1. d' = resetState(k) /\ turn' = "idle" /\ req' = 0 /\ log' = <<>>
  BY DEF EndTurn
<1>2. Types'
  BY <1>1, ResetFacts, FS_Subset DEF Types
<1>3. Gathering'
  BY <1>1, ResetFacts, CapsAssumption DEF Gathering
<1>4. FreshRequest' /\ Batch' /\ IterationsHold' /\ ResultsPairUp'
  BY <1>1 DEF FreshRequest, Batch, IterationsHold, ResultsPairUp
<1>5. QED
  BY <1>2, <1>3, <1>4 DEF IInv

\* The next call of a batch starts: its row follows an answered one.
LEMMA CallStarts ==
  ASSUME Types, ResultsPairUp, NEW k \in Dispatcher, Dispatch(k),
         k.req # 0, k.parent, k.pending # <<>>, ~iterationCapReached(k), ~Running,
         \A i \in 1..Len(k.pending) : k.pending[i] = Started + i,
         \A w \in workers : w.req # k.req,
         k.failures + Len(k.pending) <= MaxFailures + MaxCalls - 1,
         turn' = "tools", ticks' = 0, req' \in Nat
  PROVE  IInv'
<1> DEFINE w == [req |-> k.req, call |-> Head(k.pending)]
           row == [row |-> "call", call |-> Head(k.pending)]
<1>1. d' = takeFirst(k) /\ workers' = workers \cup {w} /\ log' = Append(log, row)
  BY DEF Dispatch, dispatchNext
<1>2. /\ Len(k.pending) \in Nat \ {0} /\ Head(k.pending) \in 1..MaxCalls
      /\ Head(k.pending) = k.pending[1]
      /\ Tail(k.pending) \in Seq(1..MaxCalls) /\ Len(Tail(k.pending)) = Len(k.pending) - 1
      /\ \A i \in 1..(Len(k.pending) - 1) : Tail(k.pending)[i] = k.pending[i + 1]
  BY TailFacts DEF Dispatcher
<1>3. Head(k.pending) \in Nat /\ row \in Row /\ w \in Worker
  BY <1>2 DEF Row, Worker, Dispatcher
<1>4. /\ Len(log) \in Nat /\ log' \in Seq(Row) /\ Len(log') = Len(log) + 1
      /\ \A i \in 1..Len(log) : log'[i] = log[i]
      /\ log'[Len(log) + 1] = row
  BY <1>1, <1>3, AppendFacts DEF Types
<1>5. Started \in Nat /\ Running' /\ Started' = Started + 1
  <2>1. Len(log) % 2 = 0
    BY <1>4, Parity DEF Running
  <2>2. QED
    BY <1>4, <2>1, Parity DEF Started, Running
<1>6. /\ d' \in Dispatcher /\ d'.req = k.req /\ d'.parent /\ d'.failures = k.failures
      /\ d'.pending = Tail(k.pending) /\ d'.cap = k.cap
      /\ d'.iterations = IF k.iterations < MaxIterations THEN k.iterations + 1 ELSE k.iterations
  <2> DEFINE n == IF k.iterations < MaxIterations THEN k.iterations + 1 ELSE k.iterations
  <2>1. n \in Nat /\ d' = [k EXCEPT !.pending = Tail(k.pending), !.iterations = n]
    BY <1>1 DEF takeFirst, Dispatcher
  <2> HIDE DEF n
  <2>2. /\ d' \in Dispatcher /\ d'.req = k.req /\ d'.parent = k.parent
        /\ d'.failures = k.failures /\ d'.pending = Tail(k.pending) /\ d'.cap = k.cap
        /\ d'.iterations = n
    BY <1>2, <2>1 DEF Dispatcher
  <2>3. QED
    BY <2>2 DEF n
<1>7. Types'
  BY <1>1, <1>3, <1>4, <1>6, FS_AddElement DEF Types
<1>8. Gathering' /\ FreshRequest'
  BY DEF Gathering, FreshRequest
<1>9. Batch'
  <2>1. \A i \in 1..Len(d'.pending) : d'.pending[i] = Started' + i
    <3>1. TAKE i \in 1..Len(d'.pending)
    <3>2. i + 1 \in 1..Len(k.pending) /\ d'.pending[i] = k.pending[i + 1]
      BY <1>2, <1>6
    <3>3. QED
      BY <1>5, <3>2
  <2>2. w.req = k.req /\ w.call = Started + 1
    BY <1>2, <1>5
  <2>3. \A v \in workers' : v.req = d'.req => v = w
    BY <1>1, <1>6
  <2>4. d'.failures + Len(d'.pending) + 1 <= MaxFailures + MaxCalls - 1
    BY <1>2, <1>6, CapsAssumption DEF Dispatcher
  <2> HIDE DEF w
  <2>5. \A v \in workers' : v.req = d'.req => Running' /\ v.call = Started'
    BY <1>5, <2>2, <2>3
  <2>6. d'.failures + Len(d'.pending) + (IF Running' THEN 1 ELSE 0)
          <= MaxFailures + MaxCalls - 1
    BY <1>5, <2>4
  <2>7. QED
    BY <1>6, <2>1, <2>3, <2>5, <2>6 DEF Batch
<1>10. ResultsPairUp'
  <2>1. \A i \in 1..Len(log') : i \in 1..Len(log) \/ i = Len(log) + 1
    BY <1>4
  <2>2. log'[Len(log) + 1].row = "call" /\ log'[Len(log) + 1].call = Started + 1
    BY <1>2, <1>4, <1>5
  <2>3. (Len(log) + 1) % 2 = 1 /\ (Len(log) + 1 + 1) \div 2 = Started + 1
    BY <1>4, Parity DEF Started, Running
  <2>4. ASSUME NEW i \in 1..Len(log')
        PROVE  /\ log'[i].row = (IF i % 2 = 1 THEN "call" ELSE "result")
               /\ log'[i].call = (i + 1) \div 2
    <3>1. CASE i \in 1..Len(log)
      BY <1>4, <3>1 DEF ResultsPairUp
    <3>2. CASE i = Len(log) + 1
      BY <2>2, <2>3, <3>2
    <3>3. QED
      BY <2>1, <3>1, <3>2
  <2>5. QED
    BY <2>4 DEF ResultsPairUp
<1>11. IterationsHold'
  <2>1. k.cap \in Nat /\ k.cap < MaxIterations /\ k.iterations \in Nat /\ MaxIterations \in Nat
    BY CapsAssumption DEF Dispatcher
  <2>2. QED
    BY <1>6, <2>1 DEF IterationsHold, iterationCapReached
<1>12. QED
  BY <1>7, <1>8, <1>9, <1>10, <1>11 DEF IInv

---------------------------------------------------------------------------
\* The invariant is inductive

LEMMA InitInv == Init => IInv
<1> SUFFICES ASSUME Init PROVE IInv
  OBVIOUS
<1>1. PICK c \in Caps : d = [pending |-> <<>>, parent |-> FALSE, iterations |-> 0,
                             failures |-> 0, req |-> 0, cap |-> c]
  BY DEF Init
<1>2. <<>> \in Seq(1..MaxCalls) /\ <<>> \in Seq(Row)
  BY EmptySeq
<1>3. Types
  BY <1>1, <1>2, FS_EmptySet DEF Init, Types, Dispatcher
<1>4. Gathering
  BY <1>1, CapsAssumption DEF Init, Gathering
<1>5. FreshRequest /\ Batch /\ ResultsPairUp /\ IterationsHold
  BY DEF Init, FreshRequest, Batch, ResultsPairUp, IterationsHold
<1>6. QED
  BY <1>3, <1>4, <1>5 DEF IInv

LEMMA UserTurnInv == IInv /\ UserTurn => IInv'
<1> SUFFICES ASSUME IInv, UserTurn PROVE IInv'
  OBVIOUS
<1>1. Types /\ d \in Dispatcher
  BY DEF IInv, Types
<1>2. NewReply(resetState(d)) /\ workers' = workers /\ ticks' \in Nat
  BY <1>1 DEF UserTurn, Types
<1>3. QED
  BY <1>1, <1>2, NewReplyInv, ResetFacts, CapsAssumption

LEMMA StopInv == IInv /\ Stop => IInv'
<1> SUFFICES ASSUME IInv, Stop PROVE IInv'
  OBVIOUS
<1>1. Types /\ d \in Dispatcher /\ EndTurn(d) /\ workers' = workers /\ ticks' \in Nat
  BY DEF IInv, Types, Stop
<1>2. QED
  BY <1>1, EndTurnInv

LEMMA ChunkInv == IInv /\ Chunk => IInv'
<1> SUFFICES ASSUME IInv, Chunk PROVE IInv'
  OBVIOUS
<1> USE DEF IInv
<1> DEFINE q == Append(d.pending, Len(d.pending) + 1)
<1>1. /\ turn = "streaming" /\ Len(d.pending) < MaxCalls
      /\ d' = [d EXCEPT !.pending = q]
      /\ UNCHANGED <<turn, req, workers, ticks, log>>
  BY DEF Chunk
<1>2. d.pending \in Seq(1..MaxCalls) /\ Len(d.pending) \in Nat /\ MaxCalls \in Nat
  BY LenProperties, CapsAssumption DEF Types, Dispatcher
<1>3. /\ q \in Seq(1..MaxCalls) /\ Len(q) = Len(d.pending) + 1
      /\ \A i \in 1..Len(d.pending) : q[i] = d.pending[i]
      /\ q[Len(d.pending) + 1] = Len(d.pending) + 1
  BY <1>1, <1>2, AppendFacts
<1> HIDE DEF q
<1>4. /\ d' \in Dispatcher /\ d'.pending = q /\ d'.req = d.req /\ d'.parent = d.parent
      /\ d'.failures = d.failures
  BY <1>1, <1>3 DEF Types, Dispatcher
<1>5. Types'
  BY <1>1, <1>4 DEF Types
<1>6. Gathering'
  <2>1. \A i \in 1..Len(q) : i \in 1..Len(d.pending) \/ i = Len(d.pending) + 1
    BY <1>2, <1>3
  <2>2. \A i \in 1..Len(q) : q[i] = i
    BY <1>1, <1>3, <2>1 DEF Gathering
  <2>3. QED
    BY <1>1, <1>2, <1>3, <1>4, <2>2 DEF Gathering
<1>7. FreshRequest' /\ Batch' /\ ResultsPairUp' /\ IterationsHold'
  BY <1>1 DEF FreshRequest, Batch, ResultsPairUp, IterationsHold
<1>8. QED
  BY <1>5, <1>6, <1>7

LEMMA RequestFinishedInv ==
  ASSUME IInv, NEW c \in Caps, NEW echo \in BOOLEAN, RequestFinished(c, echo)
  PROVE  IInv'
<1> DEFINE k == [d EXCEPT !.cap = c]
           b == [k EXCEPT !.parent = TRUE, !.req = req]
           over == k.pending = <<>> \/ echo \/ iterationCapReached(k) \/ failureCapReached(k)
<1>1. /\ k \in Dispatcher /\ k.pending = d.pending /\ k.req = d.req /\ k.parent = d.parent
      /\ k.failures = d.failures
  BY DEF IInv, Types, Dispatcher
<1>2. Types /\ turn = "streaming" /\ ticks = 0 /\ req # 0
      /\ \A w \in workers : w.req # req
  BY DEF IInv, RequestFinished, FreshRequest
<1>3. /\ k.req = 0 /\ ~k.parent /\ log = <<>> /\ Len(k.pending) <= MaxCalls
      /\ \A i \in 1..Len(k.pending) : k.pending[i] = i
      /\ k.failures <= MaxFailures + MaxCalls - 1
  BY <1>1, <1>2 DEF IInv, Gathering
<1>4. CASE over
  <2>1. /\ UNCHANGED <<workers, ticks>>
        /\ EndTurn(k) \/ NewReply(resetState(k)) \/ (k.pending = <<>> /\ NewReply(k))
    BY <1>4 DEF RequestFinished
  <2> HIDE DEF k
  <2>2. CASE EndTurn(k)
    BY <1>1, <1>2, <2>1, <2>2, EndTurnInv
  <2>3. CASE NewReply(resetState(k))
    BY <1>1, <1>2, <2>1, <2>3, NewReplyInv, ResetFacts, CapsAssumption
  <2>4. CASE k.pending = <<>> /\ NewReply(k)
    BY <1>1, <1>2, <1>3, <2>1, <2>4, NewReplyInv
  <2>5. QED
    BY <2>1, <2>2, <2>3, <2>4
<1>5. CASE ~over
  <2>1. Dispatch(b) /\ turn' = "tools" /\ UNCHANGED <<req, ticks>>
    BY <1>5 DEF RequestFinished
  <2>2. k.pending # <<>> /\ ~iterationCapReached(k) /\ k.failures < MaxFailures
    <3>1. k.pending # <<>> /\ ~iterationCapReached(k) /\ ~failureCapReached(k)
      BY <1>5
    <3> HIDE DEF k
    <3>2. k.failures \in Nat /\ MaxFailures \in Nat
      BY <1>1, CapsAssumption DEF Dispatcher
    <3>3. QED
      BY <3>1, <3>2 DEF failureCapReached
  <2> HIDE DEF k
  <2>3. /\ b \in Dispatcher /\ b.parent /\ b.req = req /\ b.pending = k.pending
        /\ b.failures = k.failures /\ b.iterations = k.iterations /\ b.cap = k.cap
    BY <1>1, <1>2 DEF Types, Dispatcher
  <2> HIDE DEF b
  <2>4. ~iterationCapReached(b)
    BY <2>2, <2>3 DEF iterationCapReached
  <2>5. ~Running /\ Started = 0
    BY <1>3 DEF Running, Started
  <2>6. Len(k.pending) \in Nat /\ k.failures \in Nat
        /\ MaxFailures \in Nat /\ MaxCalls \in Nat
    BY <1>1, LenProperties, CapsAssumption DEF Dispatcher
  <2>7. b.failures + Len(b.pending) <= MaxFailures + MaxCalls - 1
    BY <1>3, <2>2, <2>3, <2>6
  <2>8. \A i \in 1..Len(b.pending) : b.pending[i] = Started + i
    BY <1>3, <2>3, <2>5
  <2>9. ResultsPairUp /\ req' \in Nat /\ ticks' = 0
    BY <1>2, <2>1 DEF IInv, Types
  <2>10. QED
    BY <1>2, <2>1, <2>2, <2>3, <2>4, <2>5, <2>7, <2>8, <2>9, CallStarts
<1>6. QED
  BY <1>4, <1>5

\* What stays true when rows, requests and the batch are left alone and calls
\* that were pending are dropped.
LEMMA DroppedInv ==
  ASSUME IInv, UNCHANGED <<turn, req, log>>, workers' \subseteq workers,
         ticks' \in Nat, turn = "tools" => ticks' <= ticks,
         d' \in Dispatcher, d'.req = d.req, d'.failures = d.failures,
         d'.iterations = d.iterations, d'.cap = d.cap,
         \/ d'.pending = d.pending /\ d'.parent = d.parent
         \/ d'.pending = <<>> /\ (d'.parent => d.parent)
  PROVE  IInv'
<1> USE DEF IInv
<1>1. Types'
  BY FS_Subset DEF Types
<1>2. MaxFailures \in Nat /\ MaxCalls \in Nat /\ d.failures \in Nat
      /\ Len(d.pending) \in Nat /\ Len(d'.pending) <= Len(d.pending) /\ Len(d'.pending) \in Nat
  BY CapsAssumption, LenProperties DEF Types, Dispatcher
<1>3. Gathering'
  BY <1>2 DEF Gathering
<1>4. FreshRequest' /\ ResultsPairUp' /\ IterationsHold'
  BY DEF FreshRequest, ResultsPairUp, IterationsHold
<1>5. Batch'
  <2>1. CASE turn # "tools"
    BY <2>1 DEF Batch
  <2>2. CASE turn = "tools"
    <3>1. (Running' <=> Running) /\ Started' = Started
      BY DEF Running, Started
    <3>2. \A i \in 1..Len(d'.pending) : d'.pending[i] = Started' + i
      BY <2>2, <3>1 DEF Batch
    <3>3. d'.pending # <<>> => d'.parent
      BY <2>2 DEF Batch
    <3>4. ticks' <= 1 /\ (Running' => ticks' = 0)
      BY <2>2, <3>1 DEF Batch, Types
    <3>5. d.failures + Len(d.pending) + (IF Running THEN 1 ELSE 0) <= MaxFailures + MaxCalls - 1
      BY <2>2 DEF Batch
    <3>6. d'.failures + Len(d'.pending) + (IF Running' THEN 1 ELSE 0)
            <= MaxFailures + MaxCalls - 1
      BY <1>2, <3>1, <3>5
    <3>7. /\ d'.req # 0
          /\ \A w \in workers' : w.req = d'.req => Running' /\ w.call = Started'
          /\ \A v, w \in workers' : v.req = d'.req /\ w.req = d'.req => v = w
      BY <2>2, <3>1 DEF Batch
    <3>8. QED
      BY <3>2, <3>3, <3>4, <3>6, <3>7 DEF Batch
  <2>3. QED
    BY <2>1, <2>2
<1>6. QED
  BY <1>1, <1>3, <1>4, <1>5

LEMMA TickInv == IInv /\ Tick => IInv'
<1> SUFFICES ASSUME IInv, Tick PROVE IInv'
  OBVIOUS
<1>1. /\ ticks \in Nat /\ ticks > 0 /\ ticks' = ticks - 1 /\ Dispatch(d)
      /\ UNCHANGED <<turn, req>> /\ Types /\ d \in Dispatcher
  BY DEF IInv, Types, Tick
<1>2. d.parent => turn = "tools"
  BY DEF IInv, Gathering
<1>3. CASE d.pending = <<>> \/ ~d.parent \/ iterationCapReached(d)
  <2>1. <<>> \in Seq(1..MaxCalls)
    BY EmptySeq
  <2>2. \/ d' = d \/ d' = [d EXCEPT !.pending = <<>>]
        \/ d' = [d EXCEPT !.pending = <<>>, !.parent = FALSE]
    BY <1>1, <1>3 DEF Dispatch, dispatchNext
  <2>3. UNCHANGED <<workers, log>>
    BY <1>1, <1>3 DEF Dispatch, dispatchNext
  <2>4. /\ d' \in Dispatcher /\ d'.req = d.req /\ d'.failures = d.failures
        /\ d'.iterations = d.iterations /\ d'.cap = d.cap
        /\ \/ d'.pending = d.pending /\ d'.parent = d.parent
           \/ d'.pending = <<>> /\ (d'.parent => d.parent)
    BY <1>1, <2>1, <2>2 DEF Dispatcher
  <2>5. ticks' \in Nat /\ ticks' <= ticks
    BY <1>1
  <2>6. QED
    BY <1>1, <2>3, <2>4, <2>5, DroppedInv
<1>4. CASE d.pending # <<>> /\ d.parent /\ ~iterationCapReached(d)
  <2>1. turn = "tools" /\ ResultsPairUp /\ Batch
    BY <1>2, <1>4 DEF IInv
  <2>2. /\ d.req # 0 /\ ~Running /\ ticks' = 0
        /\ \A i \in 1..Len(d.pending) : d.pending[i] = Started + i
        /\ \A w \in workers : w.req # d.req
        /\ d.failures + Len(d.pending) + (IF Running THEN 1 ELSE 0)
             <= MaxFailures + MaxCalls - 1
    BY <1>1, <2>1 DEF Batch
  <2>3. d.failures \in Nat /\ Len(d.pending) \in Nat
        /\ MaxFailures \in Nat /\ MaxCalls \in Nat
    BY <1>1, LenProperties, CapsAssumption DEF Dispatcher
  <2>4. d.failures + Len(d.pending) <= MaxFailures + MaxCalls - 1
    BY <2>2, <2>3
  <2>5. turn' = "tools" /\ req' \in Nat
    BY <1>1, <2>1 DEF Types
  <2>6. QED
    BY <1>1, <1>4, <2>1, <2>2, <2>4, <2>5, CallStarts
<1>5. QED
  BY <1>3, <1>4

\* What the end of a call finds, unless its batch is gone.
LEMMA LiveCall ==
  ASSUME IInv, NEW w \in workers, ~stale(w)
  PROVE  /\ turn = "tools" /\ Running /\ w.call = Started /\ ticks = 0
         /\ \A v \in workers \ {w} : v.req # d.req
<1>1. w.req # 0 /\ d.req = w.req
  BY DEF IInv, Types, Worker, stale
<1>2. turn = "tools"
  BY <1>1 DEF IInv, Gathering
<1>3. QED
  BY <1>1, <1>2 DEF IInv, Batch

LEMMA ToolFinishedInv ==
  ASSUME IInv, NEW w \in workers, NEW ok \in BOOLEAN, ToolFinished(w, ok)
  PROVE  IInv'
<1>1. Types /\ d \in Dispatcher /\ workers' = workers \ {w} /\ ticks \in Nat
  BY DEF IInv, Types, ToolFinished
<1>2. CASE stale(w)
  <2>1. UNCHANGED <<d, turn, req, ticks, log>>
    BY <1>2 DEF ToolFinished
  <2>2. QED
    BY <1>1, <2>1, DroppedInv
<1>3. CASE ~stale(w)
  <2> DEFINE k == countResult(ok)
             done == [k EXCEPT !.parent = FALSE, !.req = 0]
             row == [row |-> "result", call |-> w.call]
  <2>1. /\ turn = "tools" /\ Running /\ w.call = Started /\ ticks = 0
        /\ \A v \in workers \ {w} : v.req # d.req
    BY <1>3, LiveCall
  <2>2. /\ d.failures \in Nat /\ Len(d.pending) \in Nat
        /\ MaxFailures \in Nat \ {0} /\ MaxCalls \in Nat \ {0}
    BY <1>1, LenProperties, CapsAssumption DEF Dispatcher
  <2>3. d.failures + Len(d.pending) + 1 <= MaxFailures + MaxCalls - 1
    BY <2>1, <2>2 DEF IInv, Batch
  <2>4. /\ k \in Dispatcher /\ k.pending = d.pending /\ k.req = d.req /\ k.parent = d.parent
        /\ k.cap = d.cap /\ k.iterations = d.iterations
        /\ k.failures \in Nat /\ k.failures <= d.failures + 1
    <3>1. d \in Dispatcher /\ (IF ok THEN 0 ELSE d.failures + 1) \in Nat
      BY <1>1, <2>2
    <3>2. k = [d EXCEPT !.failures = IF ok THEN 0 ELSE d.failures + 1]
      BY DEF countResult
    <3> DEFINE f == IF ok THEN 0 ELSE d.failures + 1
    <3>3. f \in Nat /\ f <= d.failures + 1
      BY <2>2
    <3> HIDE DEF f, k
    <3>4. k = [d EXCEPT !.failures = f]
      BY <3>2 DEF f
    <3>5. QED
      BY <3>1, <3>3, <3>4 DEF Dispatcher
  <2>5. CASE drained(k)
    <3>1. UNCHANGED ticks /\ (NewReply(done) \/ NewReply(resetState(done)))
      BY <1>3, <2>5 DEF ToolFinished
    <3> HIDE DEF k
    <3>2. /\ done \in Dispatcher /\ done.req = 0 /\ ~done.parent
          /\ done.pending = k.pending /\ done.failures = k.failures
      BY <2>4 DEF Dispatcher
    <3>3. done.pending = <<>> /\ done.failures <= MaxFailures + MaxCalls - 1
      BY <2>2, <2>3, <2>4, <2>5, <3>2 DEF drained
    <3> HIDE DEF done
    <3>4. CASE NewReply(done)
      BY <1>1, <3>1, <3>2, <3>3, <3>4, NewReplyInv
    <3>5. CASE NewReply(resetState(done))
      BY <1>1, <2>2, <3>1, <3>2, <3>5, NewReplyInv, ResetFacts
    <3>6. QED
      BY <3>1, <3>4, <3>5
  <2>6. CASE ~drained(k)
    <3>1. d' = k /\ ticks' = ticks + 1 /\ log' = Append(log, row) /\ UNCHANGED <<turn, req>>
      BY <1>3, <2>6 DEF ToolFinished
    <3> HIDE DEF k
    <3>2. row \in Row /\ row.row = "result" /\ row.call = Started
      BY <1>1, <2>1 DEF Types, Worker, Row
    <3> HIDE DEF row
    <3>3. /\ Len(log) \in Nat /\ log' \in Seq(Row) /\ Len(log') = Len(log) + 1
          /\ \A i \in 1..Len(log) : log'[i] = log[i]
          /\ log'[Len(log) + 1] = row
      BY <1>1, <3>1, <3>2, AppendFacts DEF Types
    <3>4. Started \in Nat /\ ~Running' /\ Started' = Started
      BY <2>1, <3>3, Parity DEF Started, Running
    <3>5. Types'
      BY <1>1, <2>4, <3>1, <3>3, FS_Subset DEF Types
    <3>6. Gathering' /\ FreshRequest' /\ IterationsHold'
      BY <2>1, <2>4, <3>1 DEF IInv, Gathering, FreshRequest, IterationsHold
    <3>7. Batch'
      <4>1. \A v \in workers' : v.req # d'.req
        BY <1>1, <2>1, <2>4, <3>1
      <4>2. d'.failures + Len(d'.pending) + (IF Running' THEN 1 ELSE 0)
              <= MaxFailures + MaxCalls - 1
        <5>1. Len(d'.pending) = Len(d.pending) /\ d'.failures \in Nat
              /\ d'.failures <= d.failures + 1
          BY <2>4, <3>1
        <5>2. QED
          BY <2>2, <2>3, <3>4, <5>1
      <4>3. ticks' <= 1 /\ (Running' => ticks' = 0)
        BY <2>1, <3>1, <3>4
      <4>4. /\ d'.req # 0 /\ (d'.pending # <<>> => d'.parent)
            /\ \A i \in 1..Len(d'.pending) : d'.pending[i] = Started' + i
        BY <2>1, <2>4, <3>1, <3>4 DEF IInv, Batch
      <4>5. QED
        BY <4>1, <4>2, <4>3, <4>4 DEF Batch
    <3>8. ResultsPairUp'
      <4>1. \A i \in 1..Len(log') : i \in 1..Len(log) \/ i = Len(log) + 1
        BY <3>3
      <4>2. (Len(log) + 1) % 2 = 0 /\ (Len(log) + 1 + 1) \div 2 = Started
        BY <2>1, <3>3, Parity DEF Started, Running
      <4>3. ResultsPairUp
        BY DEF IInv
      <4>4. QED
        BY <3>2, <3>3, <4>1, <4>2, <4>3 DEF ResultsPairUp
    <3>9. QED
      BY <3>5, <3>6, <3>7, <3>8 DEF IInv
  <2>7. QED
    BY <2>5, <2>6
<1>4. QED
  BY <1>2, <1>3

LEMMA NextInv == IInv /\ [Next]_vars => IInv'
<1> SUFFICES ASSUME IInv, [Next]_vars PROVE IInv'
  OBVIOUS
<1>1. CASE UserTurn
  BY <1>1, UserTurnInv
<1>2. CASE Chunk
  BY <1>2, ChunkInv
<1>3. CASE Tick
  BY <1>3, TickInv
<1>4. CASE Stop
  BY <1>4, StopInv
<1>5. CASE AnyReplyEnds
  BY <1>5, RequestFinishedInv DEF AnyReplyEnds
<1>6. CASE AnyToolFinishes
  BY <1>6, ToolFinishedInv DEF AnyToolFinishes
<1>7. CASE UNCHANGED vars
  <2>1. UNCHANGED <<d, turn, req, log, workers, ticks>> /\ d' \in Dispatcher /\ ticks' \in Nat
    BY <1>7 DEF vars, IInv, Types
  <2>2. QED
    BY <2>1, DroppedInv
<1>8. QED
  BY <1>1, <1>2, <1>3, <1>4, <1>5, <1>6, <1>7 DEF Next

---------------------------------------------------------------------------
\* The results

\* The invariant of the dispatcher and its run, for every budget and bound.
THEOREM Inductive == Spec => []IInv
<1>1. QED
  BY InitInv, NextInv, PTL DEF Spec

\* The dispatcher's members keep their types, and the failure counter overruns
\* its limit by less than one batch.
THEOREM TypeCorrect == Spec => []TypeOK
<1>1. IInv => TypeOK
  <2> SUFFICES ASSUME IInv PROVE TypeOK
    OBVIOUS
  <2>1. /\ d.failures \in Nat /\ Len(d.pending) \in Nat
        /\ MaxFailures \in Nat \ {0} /\ MaxCalls \in Nat \ {0}
    BY LenProperties, CapsAssumption DEF IInv, Types, Dispatcher
  <2>2. CASE turn = "tools"
    <3>1. d.failures + Len(d.pending) + (IF Running THEN 1 ELSE 0)
            <= MaxFailures + MaxCalls - 1
      BY <2>2 DEF IInv, Batch
    <3>2. d.failures \in 0..(MaxFailures + MaxCalls - 1)
      BY <2>1, <3>1
    <3>3. QED
      BY <3>2 DEF IInv, Types, Dispatcher, TypeOK
  <2>3. CASE turn # "tools"
    BY <2>1, <2>3 DEF IInv, Types, Gathering, Dispatcher, TypeOK
  <2>4. QED
    BY <2>2, <2>3
<1>2. QED
  BY <1>1, Inductive, PTL

\* Every answer directly follows its call, in the order the model gave them,
\* whatever is stopped, abandoned or answered late.
THEOREM RowsPairUp == Spec => []ResultsPairUp
<1>1. IInv => ResultsPairUp
  BY DEF IInv
<1>2. QED
  BY <1>1, Inductive, PTL

\* No batch runs more calls than the budget of its turn, and failures in a row
\* pass their cap by no more than the calls of one batch.
THEOREM BudgetKept == Spec => []BudgetHolds
<1>1. ASSUME IInv
      PROVE  BudgetHolds
  <2>1. MaxFailures \in Nat /\ MaxCalls \in Nat
    BY CapsAssumption
  <2>2. d.pending \in Seq(1..MaxCalls) /\ d.failures \in Nat
    BY <1>1 DEF IInv, Types, Dispatcher
  <2>3. Len(d.pending) \in Nat
    BY <2>2, LenProperties
  <2>4. turn = "tools" => d.failures + Len(d.pending) < MaxFailures + MaxCalls
    BY <1>1, <2>1, <2>2, <2>3 DEF IInv, Batch
  <2>5. QED
    BY <1>1, <2>4 DEF IInv, IterationsHold, BudgetHolds
<1>2. QED
  BY <1>1, Inductive, PTL

\* A reply is asked for only after the last call of the batch has its row and
\* nothing is pending.
THEOREM NoEarlyReply == Spec => AllAnswered
<1> DEFINE A == turn = "tools" /\ turn' = "streaming"
                  => /\ d.pending = <<>>
                     /\ Len(log) % 2 = 1 /\ log[Len(log)].row = "call"
<1>1. IInv /\ [Next]_vars => [A]_vars
  <2> SUFFICES ASSUME IInv, Next, turn = "tools", turn' = "streaming"
               PROVE  /\ d.pending = <<>>
                      /\ Len(log) % 2 = 1 /\ log[Len(log)].row = "call"
    OBVIOUS
  <2>1. PICK w \in workers, ok \in BOOLEAN : ToolFinished(w, ok)
    BY DEF Next, UserTurn, Chunk, Tick, Stop, EndTurn, AnyReplyEnds, RequestFinished,
           AnyToolFinishes
  <2>2. ~stale(w) /\ drained(countResult(ok))
    BY <2>1 DEF ToolFinished
  <2>3. d.pending = <<>>
    BY <2>2 DEF drained, countResult, IInv, Types, Dispatcher
  <2>4. Running
    BY <2>2, LiveCall
  <2>5. Len(log) \in Nat /\ Len(log) \in 1..Len(log)
    BY <2>4, LenProperties DEF IInv, Types, Running
  <2>6. QED
    BY <2>3, <2>4, <2>5 DEF IInv, ResultsPairUp, Running
<1>2. QED
  BY <1>1, Inductive, PTL DEF Spec, AllAnswered

=============================================================================
