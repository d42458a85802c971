----------------------- MODULE ProviderSchedulerProofs ----------------------
(***************************************************************************)
(* The provider scheduler's safety for every set of providers, every finite *)
(* set of waiters and every set of limits.                                  *)
(***************************************************************************)
EXTENDS ProviderScheduler, FiniteSetTheorems, SequenceTheorems, TLAPS

\* The inductive invariant: the three safety invariants for one provider,
\* together with the types.
Accounted(p) == states[p].inFlight = Cardinality(Owners(p))

Matched(p) ==
  /\ \A i \in 1..Len(states[p].queue) :
       client[states[p].queue[i].waiterId] = Client("queued", p)
  /\ \A i, j \in 1..Len(states[p].queue) :
       states[p].queue[i].waiterId = states[p].queue[j].waiterId => i = j
  /\ \A w \in Waiters : client[w] = Client("queued", p) =>
       \E i \in 1..Len(states[p].queue) : states[p].queue[i].waiterId = w

Busy(p) == states[p].queue # <<>> => states[p].inFlight >= states[p].limit

IInv == TypeOK /\ \A p \in Providers : Accounted(p) /\ Matched(p) /\ Busy(p)

---------------------------------------------------------------------------
\* What the bucket operations do

\* recordPeak touches nothing but the high-water mark.
LEMMA RecordPeakEffect ==
  ASSUME NEW st \in Bucket
  PROVE  /\ recordPeak(st) \in Bucket
         /\ recordPeak(st).inFlight = st.inFlight
         /\ recordPeak(st).limit = st.limit
         /\ recordPeak(st).queue = st.queue
<1> DEFINE top == IF st.inFlight > st.peak THEN st.inFlight ELSE st.peak
<1>1. top \in Nat /\ recordPeak(st) = [st EXCEPT !.peak = top]
  BY DEF recordPeak, Bucket
<1> HIDE DEF top
<1>2. QED
  BY <1>1 DEF Bucket

\* acquire() takes a free slot, or appends the waiter, who was not queued.
LEMMA AcquireEffect ==
  ASSUME NEW st \in Bucket, NEW w \in Waiters,
         \A i \in 1..Len(st.queue) : st.queue[i].waiterId # w
  PROVE  LET a == acquire(st, w, "dispatch")
             e == [waiterId |-> w, onGranted |-> "dispatch"]
         IN  /\ a.st \in Bucket /\ a.st.limit = st.limit
             /\ st.inFlight < st.limit =>
                  a.granted /\ a.st.inFlight = st.inFlight + 1 /\ a.st.queue = st.queue
             /\ ~(st.inFlight < st.limit) =>
                  /\ ~a.granted /\ a.st.inFlight = st.inFlight
                  /\ a.st.queue = Append(st.queue, e)
<1> DEFINE e == [waiterId |-> w, onGranted |-> "dispatch"]
           a == acquire(st, w, "dispatch")
           taken == [st EXCEPT !.inFlight = @ + 1]
           longer == [st EXCEPT !.queue = Append(@, e)]
<1>1. st.queue \in Queues /\ e \in Waiter
  BY DEF Bucket, Waiter
<1>2. Append(st.queue, e) \in Queues
  BY <1>1, AppendProperties DEF Queues
<1>3. QueueIndex(st.queue, w) = 0
  BY <1>1, LenProperties DEF QueueIndex, Queues
<1>4. taken \in Bucket /\ taken.inFlight = st.inFlight + 1
      /\ taken.limit = st.limit /\ taken.queue = st.queue
  BY DEF Bucket
<1>5. longer \in Bucket /\ longer.inFlight = st.inFlight
      /\ longer.limit = st.limit /\ longer.queue = Append(st.queue, e)
  BY <1>2 DEF Bucket
<1>6. CASE st.inFlight < st.limit
  <2>1. a = [granted |-> TRUE, st |-> recordPeak(taken)]
    BY <1>6 DEF acquire
  <2>2. a.granted /\ a.st = recordPeak(taken)
    BY <2>1
  <2>3. QED
    BY <1>4, <1>6, <2>2, RecordPeakEffect
<1>7. CASE ~(st.inFlight < st.limit)
  <2>1. a = [granted |-> FALSE, st |-> longer]
    BY <1>3, <1>7 DEF acquire
  <2>2. ~a.granted /\ a.st = longer
    BY <2>1
  <2>3. QED
    BY <1>5, <1>7, <2>2
<1>8. QED
  BY <1>6, <1>7

\* release() hands the slot to the queue's head or lowers the counter.
LEMMA ReleaseEffect ==
  ASSUME NEW st \in Bucket, st.inFlight > 0
  PROVE  /\ release(st) \in Bucket /\ release(st).limit = st.limit
         /\ st.queue # <<>> => /\ release(st).inFlight = st.inFlight
                               /\ release(st).queue = Tail(st.queue)
         /\ st.queue = <<>> => /\ release(st).inFlight = st.inFlight - 1
                               /\ release(st).queue = <<>>
<1>0. st.inFlight \in Nat /\ ~(st.inFlight <= 0)
  BY DEF Bucket
<1>1. CASE st.queue = <<>>
  <2>1. release(st) = [st EXCEPT !.inFlight = @ - 1]
    BY <1>0, <1>1 DEF release, GrantsOnRelease
  <2>2. QED
    BY <1>0, <1>1, <2>1 DEF Bucket
<1>2. CASE st.queue # <<>>
  <2> DEFINE lower == [st EXCEPT !.inFlight = @ - 1]
             handed == [lower EXCEPT !.inFlight = @ + 1, !.queue = Tail(@)]
  <2>1. Tail(st.queue) \in Queues
    BY <1>2, HeadTailProperties DEF Bucket, Queues
  <2>2. release(st) = recordPeak(handed)
    BY <1>0, <1>2 DEF release, GrantsOnRelease, grantHead
  <2>3. lower \in Bucket /\ lower.inFlight = st.inFlight - 1
        /\ lower.limit = st.limit /\ lower.queue = st.queue
    BY <1>0 DEF Bucket
  <2> HIDE DEF lower
  <2>4. lower.inFlight + 1 = st.inFlight /\ Tail(lower.queue) \in Queues
    BY <1>0, <2>1, <2>3
  <2>5. handed \in Bucket /\ handed.inFlight = lower.inFlight + 1
        /\ handed.limit = lower.limit /\ handed.queue = Tail(lower.queue)
    BY <1>0, <2>3, <2>4 DEF Bucket
  <2> HIDE DEF handed
  <2>6. QED
    BY <1>2, <2>2, <2>3, <2>4, <2>5, RecordPeakEffect
<1>3. QED
  BY <1>1, <1>2

\* cancel() closes the gap the waiter leaves and moves nobody else.
LEMMA CancelEffect ==
  ASSUME NEW st \in Bucket, NEW w,
         NEW i \in 1..Len(st.queue), st.queue[i].waiterId = w,
         \A j \in 1..Len(st.queue) : st.queue[j].waiterId = w => j = i
  PROVE  /\ cancel(st, w) \in Bucket
         /\ cancel(st, w).inFlight = st.inFlight /\ cancel(st, w).limit = st.limit
         /\ Len(cancel(st, w).queue) = Len(st.queue) - 1
         /\ \A j \in 1..(Len(st.queue) - 1) :
              cancel(st, w).queue[j] = st.queue[IF j < i THEN j ELSE j + 1]
<1> DEFINE n == Len(st.queue) - 1
           q == [j \in 1..n |-> IF j < i THEN st.queue[j] ELSE st.queue[j + 1]]
<1>1. st.queue \in Queues /\ Len(st.queue) \in Nat /\ n \in Nat
      /\ DOMAIN st.queue = 1..Len(st.queue)
  BY LenProperties DEF Bucket, Queues
<1>2. QueueIndex(st.queue, w) = i
  BY <1>1 DEF QueueIndex
<1>3. \A j \in 1..n : q[j] \in Waiter
  BY <1>1, ElementOfSeq DEF Queues
<1>4. q \in Queues /\ Len(q) = n
  BY <1>1, <1>3 DEF Queues
<1>5. cancel(st, w) = [st EXCEPT !.queue = q]
  BY <1>2 DEF cancel
<1>6. QED
  BY <1>4, <1>5 DEF Bucket

\* cancel() leaves a bucket alone in which the waiter does not wait.
LEMMA CancelNoEffect ==
  ASSUME NEW st \in Bucket, NEW w,
         \A j \in 1..Len(st.queue) : st.queue[j].waiterId # w
  PROVE  cancel(st, w) = st
BY LenProperties DEF cancel, QueueIndex, Bucket, Queues

\* A new limit admits the first waiters up to the limit, or all of them.
LEMMA LimitEffect ==
  ASSUME NEW st \in Bucket, NEW limit \in Int
  PROVE  LET l == IF limit > 1 THEN limit ELSE 1
             n == Admitted(st, l)
             new == setProviderLimit(st, limit)
         IN  /\ new \in Bucket /\ new.limit = l
             /\ n \in 0..Len(st.queue) /\ new.inFlight = st.inFlight + n
             /\ Len(new.queue) = Len(st.queue) - n
             /\ \A j \in 1..(Len(st.queue) - n) : new.queue[j] = st.queue[n + j]
             /\ new.queue # <<>> => new.inFlight >= l
<1> DEFINE l == IF limit > 1 THEN limit ELSE 1
           n == Admitted(st, l)
           q == SubSeq(st.queue, n + 1, Len(st.queue))
<1>1. st.queue \in Queues /\ Len(st.queue) \in Nat /\ l \in Nat \ {0}
      /\ st.inFlight \in Nat
  BY LenProperties DEF Bucket, Queues
<1>2. /\ n \in 0..Len(st.queue)
      /\ n = Len(st.queue) \/ st.inFlight + n >= l
  BY <1>1 DEF Admitted
<1>3. \A j \in (n + 1)..Len(st.queue) : st.queue[j] \in Waiter
  BY <1>1, <1>2, ElementOfSeq DEF Queues
<1>4. /\ q \in Queues /\ Len(q) = Len(st.queue) - n
      /\ \A j \in 1..(Len(st.queue) - n) : q[j] = st.queue[n + j]
  <2>1. /\ q \in Seq(Waiter)
        /\ Len(q) = IF n + 1 <= Len(st.queue) THEN Len(st.queue) - (n + 1) + 1 ELSE 0
        /\ \A j \in 1..(Len(st.queue) - (n + 1) + 1) : q[j] = st.queue[(n + 1) + j - 1]
    <3>1. n + 1 \in Int /\ Len(st.queue) \in Int
      BY <1>1, <1>2
    <3> HIDE DEF n
    <3>2. QED
      BY <1>3, <3>1, SubSeqProperties
  <2> DEFINE m == Len(st.queue)
  <2>2. /\ m \in Nat /\ n \in 0..m /\ q \in Seq(Waiter)
        /\ Len(q) = IF n + 1 <= m THEN m - (n + 1) + 1 ELSE 0
        /\ \A j \in 1..(m - (n + 1) + 1) : q[j] = st.queue[(n + 1) + j - 1]
    BY <1>1, <1>2, <2>1
  <2> HIDE DEF n, q, m
  <2>3. Len(q) = m - n
    BY <2>2
  <2>4. ASSUME NEW j \in 1..(m - n)
        PROVE  q[j] = st.queue[n + j]
    <3>1. j \in 1..(m - (n + 1) + 1) /\ (n + 1) + j - 1 = n + j
      BY <2>2
    <3>2. QED
      BY <2>2, <3>1
  <2>5. QED
    BY <2>2, <2>3, <2>4 DEF Queues, m
<1> DEFINE moved == [st EXCEPT !.limit = l, !.inFlight = @ + n, !.queue = q]
<1>5. setProviderLimit(st, limit) = recordPeak(moved)
  BY DEF setProviderLimit
<1>6. q # <<>> => n # Len(st.queue)
  BY <1>1, <1>2, <1>4, EmptySeq DEF Queues
<1> HIDE DEF l, n, q
<1>7. moved \in Bucket /\ moved.limit = l /\ moved.inFlight = st.inFlight + n
      /\ moved.queue = q
  <2>1. l \in Nat \ {0} /\ st.inFlight + n \in Nat /\ q \in Queues
    BY <1>1, <1>2, <1>4
  <2>2. QED
    BY <2>1 DEF Bucket
<1> HIDE DEF moved
<1>8. /\ recordPeak(moved) \in Bucket /\ recordPeak(moved).limit = l
      /\ recordPeak(moved).inFlight = st.inFlight + n
      /\ recordPeak(moved).queue = q
  BY <1>7, RecordPeakEffect
<1>9. q # <<>> => st.inFlight + n >= l
  BY <1>2, <1>6
<1>10. QED
  BY <1>2, <1>4, <1>5, <1>8, <1>9 DEF l, n

---------------------------------------------------------------------------
\* Facts about the invariant

\* The inductive invariant is the conjunction of what the runs check.
LEMMA IInvImplies ==
  IInv <=> TypeOK /\ SlotAccounting /\ QueueMatchesClients /\ NoIdleSlotWithWaiters
BY DEF IInv, Accounted, Matched, Busy, SlotAccounting, QueueMatchesClients,
       NoIdleSlotWithWaiters

\* Slots can be counted.
LEMMA OwnersFinite ==
  ASSUME NEW p
  PROVE  IsFiniteSet(Owners(p)) /\ Cardinality(Owners(p)) \in Nat
<1>1. Owners(p) \in SUBSET Waiters
  BY DEF Owners
<1>2. IsFiniteSet(Owners(p))
  BY <1>1, WaitersAssumption, FS_Subset
<1>3. QED
  BY <1>2, FS_CardinalityType

\* A client that has nothing to do with a provider.
Elsewhere(c, p) ==
  c # Client("queued", p) /\ c # Client("posted", p) /\ c # Client("held", p)

\* A provider keeps its invariant in a step that leaves its bucket and the
\* clients it concerns alone.
LEMMA Frame ==
  ASSUME TypeOK, NEW q \in Providers, Accounted(q), Matched(q), Busy(q),
         states'[q] = states[q],
         \A v \in Waiters : \/ client'[v] = client[v]
                            \/ Elsewhere(client[v], q) /\ Elsewhere(client'[v], q)
  PROVE  Accounted(q)' /\ Matched(q)' /\ Busy(q)'
<1>1. Owners(q)' = Owners(q)
  BY DEF Owners, Elsewhere
<1>2. Accounted(q)'
  BY <1>1 DEF Accounted
<1>3. Busy(q)'
  BY DEF Busy
<1>4. states[q].queue \in Queues
  BY DEF TypeOK, Bucket
<1>5. \A i \in 1..Len(states[q].queue) : states[q].queue[i].waiterId \in Waiters
  <2> TAKE i \in 1..Len(states[q].queue)
  <2>1. states[q].queue[i] \in Waiter
    BY <1>4, ElementOfSeq DEF Queues
  <2>2. QED
    BY <2>1 DEF Waiter
<1>6. Matched(q)'
  BY <1>5 DEF Matched, Elsewhere
<1>7. QED
  BY <1>2, <1>3, <1>6

\* A fresh scheduler satisfies the invariant.
LEMMA InitInv == Init => IInv
<1> SUFFICES ASSUME Init PROVE IInv
  OBVIOUS
<1>1. <<>> \in Queues /\ Len(<<>>) = 0
  BY EmptySeq DEF Queues
<1>2. ProviderState \in Bucket /\ ProviderState.queue = <<>>
      /\ ProviderState.inFlight = 0
  BY <1>1 DEF ProviderState, Bucket
<1>3. TypeOK
  BY <1>2 DEF Init, TypeOK, ClientStates
<1>4. \A p \in Providers : Owners(p) = {} /\ states[p].inFlight = 0
                           /\ states[p].queue = <<>>
  BY <1>2 DEF Init, Owners, Client, Idle
<1>5. \A p \in Providers : Accounted(p)
  BY <1>4, FS_EmptySet DEF Accounted
<1>6. \A p \in Providers : Busy(p)
  BY <1>4 DEF Busy
<1>7. \A p \in Providers : Matched(p)
  BY <1>1, <1>4 DEF Matched, Init, Client, Idle
<1>8. QED
  BY <1>3, <1>5, <1>6, <1>7 DEF IInv

---------------------------------------------------------------------------
\* One lemma per action

\* The queue's entries name waiters.
LEMMA QueueNamesWaiters ==
  ASSUME TypeOK, NEW p \in Providers
  PROVE  /\ states[p] \in Bucket /\ states[p].queue \in Queues
         /\ Len(states[p].queue) \in Nat
         /\ \A i \in 1..Len(states[p].queue) :
              states[p].queue[i] \in Waiter /\ states[p].queue[i].waiterId \in Waiters
<1>1. states[p] \in Bucket /\ states[p].queue \in Queues
  BY DEF TypeOK, Bucket
<1>2. Len(states[p].queue) \in Nat
  BY <1>1, LenProperties DEF Queues
<1>3. ASSUME NEW i \in 1..Len(states[p].queue)
      PROVE  states[p].queue[i] \in Waiter
  BY <1>1, ElementOfSeq DEF Queues
<1>4. QED
  BY <1>1, <1>2, <1>3 DEF Waiter

\* The position a waiter is found at holds it.
LEMMA IndexFound ==
  ASSUME NEW q \in Queues, NEW w, QueueIndex(q, w) # 0
  PROVE  QueueIndex(q, w) \in 1..Len(q) /\ q[QueueIndex(q, w)].waiterId = w
<1>1. DOMAIN q = 1..Len(q)
  BY LenProperties DEF Queues
<1>2. PICK i \in DOMAIN q : q[i].waiterId = w
  BY DEF QueueIndex
<1>3. QueueIndex(q, w) = CHOOSE k \in DOMAIN q : q[k].waiterId = w
  BY <1>2 DEF QueueIndex
<1>4. QED
  BY <1>1, <1>2, <1>3

\* A waiter is found when it stands anywhere in the queue.
LEMMA IndexExists ==
  ASSUME NEW q \in Queues, NEW w, NEW i \in 1..Len(q), q[i].waiterId = w
  PROVE  QueueIndex(q, w) \in 1..Len(q) /\ QueueIndex(q, w) # 0
<1>1. DOMAIN q = 1..Len(q) /\ Len(q) \in Nat
  BY LenProperties DEF Queues
<1>2. QueueIndex(q, w) = CHOOSE k \in DOMAIN q : q[k].waiterId = w
  BY <1>1 DEF QueueIndex
<1>3. QED
  BY <1>1, <1>2

\* It is found where it stands, when nobody stands there twice.
LEMMA IndexIs ==
  ASSUME NEW q \in Queues, NEW w, NEW i \in 1..Len(q), q[i].waiterId = w,
         \A j, k \in 1..Len(q) : q[j].waiterId = q[k].waiterId => j = k
  PROVE  QueueIndex(q, w) = i
<1>1. QueueIndex(q, w) \in 1..Len(q) /\ QueueIndex(q, w) # 0
  BY IndexExists
<1>2. q[QueueIndex(q, w)].waiterId = w
  BY <1>1, IndexFound
<1>3. QED
  BY <1>1, <1>2

\* A bucket that loses the first n of its queue grants exactly those.
LEMMA GrantedAreFirst ==
  ASSUME NEW st \in Bucket, NEW new \in Bucket, NEW n \in 0..Len(st.queue),
         \A i \in 1..Len(st.queue) : st.queue[i].waiterId \in Waiters,
         \A i, j \in 1..Len(st.queue) :
           st.queue[i].waiterId = st.queue[j].waiterId => i = j,
         Len(new.queue) = Len(st.queue) - n,
         \A j \in 1..(Len(st.queue) - n) : new.queue[j] = st.queue[n + j]
  PROVE  Granted(st, new) = {st.queue[i].waiterId : i \in 1..n}
<1> DEFINE q == st.queue
           r == new.queue
<1>1. q \in Queues /\ r \in Queues /\ Len(q) \in Nat
  BY LenProperties DEF Bucket, Queues
<1>2. \A i \in 1..n : i \in 1..Len(q)
  BY <1>1
<1>2a. /\ \A w : w \in Granted(st, new)
               <=> w \in Waiters /\ QueueIndex(q, w) # 0 /\ QueueIndex(r, w) = 0
       /\ \A i \in 1..Len(q) : q[i].waiterId \in Waiters
       /\ \A i, j \in 1..Len(q) : q[i].waiterId = q[j].waiterId => i = j
       /\ \A j \in 1..(Len(q) - n) : r[j] = q[n + j]
  BY DEF Granted
<1>2b. Len(r) = Len(q) - n /\ n \in 0..Len(q)
  OBVIOUS
<1> HIDE DEF q, r
<1>3. ASSUME NEW w \in Granted(st, new)
      PROVE  \E i \in 1..n : q[i].waiterId = w
  <2>1. QueueIndex(q, w) # 0 /\ QueueIndex(r, w) = 0
    BY <1>3, <1>2a
  <2>2. PICK i \in 1..Len(q) : q[i].waiterId = w
    BY <1>1, <2>1, IndexFound
  <2>3. CASE i > n
    <3>1. i - n \in 1..Len(r) /\ i - n \in 1..(Len(q) - n) /\ n + (i - n) = i
      BY <1>1, <1>2b, <2>3
    <3>2. r[i - n].waiterId = w
      BY <1>2a, <2>2, <3>1
    <3>3. QED
      BY <1>1, <2>1, <3>1, <3>2, IndexExists
  <2>4. QED
    BY <1>1, <2>2, <2>3
<1>4. ASSUME NEW i \in 1..n
      PROVE  q[i].waiterId \in Granted(st, new)
  <2> DEFINE w == q[i].waiterId
  <2>0. i \in 1..Len(q) /\ w \in Waiters
    BY <1>2, <1>2a
  <2>1. QueueIndex(q, w) # 0
    BY <1>1, <2>0, IndexExists
  <2>2. ASSUME QueueIndex(r, w) # 0
        PROVE  FALSE
    <3> DEFINE j == QueueIndex(r, w)
    <3>1. j \in 1..Len(r) /\ r[j].waiterId = w
      BY <1>1, <2>2, IndexFound
    <3> HIDE DEF j
    <3>2. j \in 1..(Len(q) - n) /\ n + j \in 1..Len(q) /\ n + j # i
      <4>1. Len(r) = Len(q) - n /\ Len(q) \in Nat
        BY <1>1, <1>2b
      <4>2. QED
        BY <3>1, <4>1
    <3>3. q[n + j].waiterId = w
      BY <1>2a, <3>1, <3>2
    <3>4. QED
      BY <1>2a, <2>0, <3>2, <3>3
  <2>3. QED
    BY <1>2a, <2>0, <2>1, <2>2
<1>5. Granted(st, new) = {q[i].waiterId : i \in 1..n}
  <2> DEFINE G == Granted(st, new)
             F == {q[i].waiterId : i \in 1..n}
  <2>1. \A w \in G : w \in F
    BY <1>3
  <2>2. \A w \in F : w \in G
    BY <1>4
  <2> HIDE DEF G, F
  <2>3. G = F
    BY <2>1, <2>2
  <2>4. QED
    BY <2>3 DEF G, F
<1>7. QED
  BY <1>5 DEF q

\* A release serves the head of the queue and nobody else.
LEMMA ReleaseGrants ==
  ASSUME IInv, NEW w \in Waiters, NEW p \in Providers, Release(w, p)
  PROVE  client' = [Posting(p, IF states[p].queue # <<>>
                               THEN {Head(states[p].queue).waiterId} ELSE {})
                    EXCEPT ![w] = Idle]
<1> DEFINE st == states[p]
           G == Granted(st, release(st))
<1>1. TypeOK /\ Accounted(p) /\ Matched(p) /\ client[w] = Client("held", p)
      /\ client' = [Posting(p, G) EXCEPT ![w] = Idle]
  BY DEF IInv, Release
<1>2. /\ st \in Bucket /\ st.queue \in Queues /\ Len(st.queue) \in Nat
      /\ \A i \in 1..Len(st.queue) : st.queue[i].waiterId \in Waiters
  BY <1>1, QueueNamesWaiters
<1>3. st.inFlight > 0
  <2>1. w \in Owners(p) /\ IsFiniteSet(Owners(p)) /\ Cardinality(Owners(p)) \in Nat
    BY <1>1, OwnersFinite DEF Owners
  <2>2. Cardinality(Owners(p)) # 0
    BY <2>1, FS_EmptySet
  <2>3. QED
    BY <1>1, <2>1, <2>2 DEF Accounted
<1>4. /\ release(st) \in Bucket
      /\ st.queue # <<>> => release(st).queue = Tail(st.queue)
      /\ st.queue = <<>> => release(st).queue = <<>>
  BY <1>2, <1>3, ReleaseEffect
<1>5. \A i, j \in 1..Len(st.queue) :
        st.queue[i].waiterId = st.queue[j].waiterId => i = j
  BY <1>1 DEF Matched
<1> DEFINE new == release(st)
<1>6. CASE st.queue = <<>>
  <2>1. new.queue = st.queue
    BY <1>4, <1>6
  <2> HIDE DEF new, st
  <2>2. Granted(st, new) = {}
    BY <2>1 DEF Granted
  <2>3. QED
    BY <1>1, <1>6, <2>2 DEF new, st
<1>7. CASE st.queue # <<>>
  <2>1. /\ Len(new.queue) = Len(st.queue) - 1 /\ 1 \in 0..Len(st.queue)
        /\ \A j \in 1..(Len(st.queue) - 1) : new.queue[j] = st.queue[1 + j]
        /\ Head(st.queue) = st.queue[1]
    <3>1. new.queue = Tail(st.queue) /\ st.queue \in Seq(Waiter)
      BY <1>2, <1>4, <1>7 DEF Queues
    <3> HIDE DEF new, st
    <3>2. QED
      BY <1>2, <1>7, <3>1, EmptySeq, HeadTailProperties
  <2>2. new \in Bucket
    BY <1>4
  <2> HIDE DEF new, st
  <2>3. Granted(st, new) = {st.queue[i].waiterId : i \in 1..1}
    BY <1>2, <1>5, <2>1, <2>2, GrantedAreFirst
  <2>4. {st.queue[i].waiterId : i \in 1..1} = {Head(st.queue).waiterId}
    BY <2>1
  <2>5. QED
    BY <1>1, <1>7, <2>3, <2>4 DEF new, st
<1>8. QED
  BY <1>6, <1>7

\* A new limit serves the waiters it admits, from the front.
LEMMA LimitGrants ==
  ASSUME IInv, NEW p \in Providers, NEW limit \in Limits, SetProviderLimit(p, limit)
  PROVE  client' = Posting(p, {states[p].queue[i].waiterId :
           i \in 1..Admitted(states[p], IF limit > 1 THEN limit ELSE 1)})
<1> DEFINE st == states[p]
           l == IF limit > 1 THEN limit ELSE 1
           n == Admitted(st, l)
           new == setProviderLimit(st, limit)
<1>1. TypeOK /\ Matched(p) /\ limit \in Int /\ client' = Posting(p, Granted(st, new))
  BY LimitsAssumption DEF IInv, SetProviderLimit
<1>2. /\ st \in Bucket
      /\ \A i \in 1..Len(st.queue) : st.queue[i].waiterId \in Waiters
  BY <1>1, QueueNamesWaiters
<1>3. /\ new \in Bucket /\ n \in 0..Len(st.queue)
      /\ Len(new.queue) = Len(st.queue) - n
      /\ \A j \in 1..(Len(st.queue) - n) : new.queue[j] = st.queue[n + j]
  BY <1>1, <1>2, LimitEffect
<1>4. \A i, j \in 1..Len(st.queue) :
        st.queue[i].waiterId = st.queue[j].waiterId => i = j
  BY <1>1 DEF Matched
<1> HIDE DEF st, n, new
<1>5. Granted(st, new) = {st.queue[i].waiterId : i \in 1..n}
  BY <1>2, <1>3, <1>4, GrantedAreFirst
<1>6. QED
  BY <1>1, <1>5 DEF st, n, l, new

\* acquire() keeps the invariant, granted or queued.
LEMMA AcquireInv ==
  ASSUME IInv, NEW w \in Waiters, NEW p \in Providers, Acquire(w, p)
  PROVE  IInv'
<1> DEFINE st == states[p]
           a == acquire(st, w, "dispatch")
           e == [waiterId |-> w, onGranted |-> "dispatch"]
<1>1. TypeOK /\ Accounted(p) /\ Matched(p) /\ Busy(p)
      /\ client[w] \in ClientStates /\ client[w].at = "idle"
  BY DEF IInv, Acquire, TypeOK
<1>2. /\ st \in Bucket /\ st.queue \in Queues /\ Len(st.queue) \in Nat
      /\ \A i \in 1..Len(st.queue) : st.queue[i].waiterId \in Waiters
  BY <1>1, QueueNamesWaiters
<1>3. \A i \in 1..Len(st.queue) : st.queue[i].waiterId # w
  BY <1>1 DEF Matched, Client
<1>4. /\ a.st \in Bucket /\ a.st.limit = st.limit
      /\ st.inFlight < st.limit =>
           a.granted /\ a.st.inFlight = st.inFlight + 1 /\ a.st.queue = st.queue
      /\ ~(st.inFlight < st.limit) =>
           /\ ~a.granted /\ a.st.inFlight = st.inFlight
           /\ a.st.queue = Append(st.queue, e)
  BY <1>2, <1>3, AcquireEffect
<1>5. states' = [states EXCEPT ![p] = a.st]
  BY DEF Acquire
<1> HIDE DEF a
<1>6. states'[p] = a.st /\ \A q \in Providers \ {p} : states'[q] = states[q]
  BY <1>1, <1>5 DEF TypeOK
<1>7. st.inFlight \in Nat /\ st.limit \in Nat
  BY <1>2 DEF Bucket
<1>8. CASE st.inFlight < st.limit
  <2>1. client' = [client EXCEPT ![w] = Client("held", p)]
    BY <1>4, <1>8 DEF Acquire, a
  <2>2. client'[w] = Client("held", p) /\ \A v \in Waiters \ {w} : client'[v] = client[v]
    BY <1>1, <2>1 DEF TypeOK
  <2>3. TypeOK'
    BY <1>1, <1>4, <1>5, <2>1 DEF TypeOK, ClientStates, Client
  <2>4. Owners(p)' = Owners(p) \cup {w} /\ w \notin Owners(p)
    BY <1>1, <2>2 DEF Owners, Client
  <2>5. Accounted(p)'
    <3>1. Cardinality(Owners(p) \cup {w}) = Cardinality(Owners(p)) + 1
      BY <2>4, OwnersFinite, FS_AddElement
    <3>2. states'[p].inFlight = st.inFlight + 1
      BY <1>4, <1>6, <1>8
    <3>3. QED
      BY <1>1, <2>4, <3>1, <3>2 DEF Accounted
  <2>6. st.queue = <<>>
    BY <1>1, <1>7, <1>8 DEF Busy
  <2>7. Busy(p)' /\ states'[p].queue = <<>>
    BY <1>4, <1>6, <1>8, <2>6 DEF Busy
  <2>8. Matched(p)'
    <3>1. states'[p].queue = st.queue
      BY <1>4, <1>6, <1>8
    <3>2. client'[w] # Client("queued", p) /\ client[w] # Client("queued", p)
      BY <1>1, <2>2 DEF Client
    <3>3. Len(st.queue) = 0
      BY <2>6
    <3>4. ASSUME NEW v \in Waiters, client'[v] = Client("queued", p)
          PROVE  FALSE
      <4>1. client[v] = Client("queued", p)
        BY <2>2, <3>2, <3>4
      <4>2. QED
        BY <1>1, <3>3, <4>1 DEF Matched
    <3>5. QED
      BY <3>1, <3>3, <3>4 DEF Matched
  <2>9. ASSUME NEW q \in Providers \ {p}
        PROVE  Accounted(q)' /\ Matched(q)' /\ Busy(q)'
    <3>1. Elsewhere(client[w], q) /\ Elsewhere(client'[w], q)
      BY <1>1, <2>2 DEF Elsewhere, Client
    <3>2. QED
      BY <1>1, <1>6, <2>2, <3>1, Frame DEF IInv
  <2>10. QED
    BY <2>3, <2>5, <2>7, <2>8, <2>9 DEF IInv
<1>9. CASE ~(st.inFlight < st.limit)
  <2>1. client' = [client EXCEPT ![w] = Client("queued", p)]
    BY <1>4, <1>9 DEF Acquire, a
  <2>2. client'[w] = Client("queued", p) /\ \A v \in Waiters \ {w} : client'[v] = client[v]
    BY <1>1, <2>1 DEF TypeOK
  <2>3. TypeOK'
    BY <1>1, <1>4, <1>5, <2>1 DEF TypeOK, ClientStates, Client
  <2>4. Owners(p)' = Owners(p)
    BY <1>1, <2>2 DEF Owners, Client
  <2>5. Accounted(p)'
    BY <1>1, <1>4, <1>6, <1>9, <2>4 DEF Accounted
  <2>6. Busy(p)'
    BY <1>4, <1>6, <1>7, <1>9 DEF Busy
  <2>7. /\ Len(states'[p].queue) = Len(st.queue) + 1
        /\ \A i \in 1..Len(st.queue) : states'[p].queue[i] = st.queue[i]
        /\ states'[p].queue[Len(st.queue) + 1] = e
    <3>1. e \in Waiter
      BY DEF Waiter
    <3>2. QED
      BY <1>2, <1>4, <1>6, <1>9, <3>1, AppendProperties DEF Queues
  <2>8. Matched(p)'
    <3> DEFINE n == Len(st.queue)
               Q == states'[p].queue
    <3>1. \A i \in 1..(n + 1) : \/ i \in 1..n /\ Q[i] = st.queue[i]
                                \/ i = n + 1 /\ Q[i].waiterId = w
      <4>1. n \in Nat /\ Q[n + 1].waiterId = w
        BY <1>2, <2>7
      <4>2. \A i \in 1..n : Q[i] = st.queue[i]
        BY <2>7
      <4> HIDE DEF n, Q
      <4>3. QED
        BY <4>1, <4>2
    <3>2. \A i \in 1..(n + 1) : client'[Q[i].waiterId] = Client("queued", p)
      BY <1>1, <1>2, <1>3, <2>2, <3>1 DEF Matched
    <3>3. \A i, j \in 1..(n + 1) : Q[i].waiterId = Q[j].waiterId => i = j
      BY <1>1, <1>2, <1>3, <3>1 DEF Matched
    <3>4. ASSUME NEW v \in Waiters, client'[v] = Client("queued", p)
          PROVE  \E i \in 1..(n + 1) : Q[i].waiterId = v
      <4>1. CASE v = w
        BY <1>2, <2>7, <4>1
      <4>2. CASE v # w
        <5>1. PICK i \in 1..n : st.queue[i].waiterId = v
          BY <1>1, <2>2, <3>4, <4>2 DEF Matched
        <5>2. QED
          BY <1>2, <2>7, <5>1
      <4>3. QED
        BY <4>1, <4>2
    <3>5. QED
      BY <2>7, <3>2, <3>3, <3>4 DEF Matched
  <2>9. ASSUME NEW q \in Providers \ {p}
        PROVE  Accounted(q)' /\ Matched(q)' /\ Busy(q)'
    <3>1. Elsewhere(client[w], q) /\ Elsewhere(client'[w], q)
      BY <1>1, <2>2 DEF Elsewhere, Client
    <3>2. QED
      BY <1>1, <1>6, <2>2, <3>1, Frame DEF IInv
  <2>10. QED
    BY <2>3, <2>5, <2>6, <2>8, <2>9 DEF IInv
<1>10. QED
  BY <1>8, <1>9

\* A posted callback that runs turns a posted owner into a holder.
LEMMA RunGrantInv ==
  ASSUME IInv, NEW w \in Waiters, NEW p \in Providers, RunGrant(w, p)
  PROVE  IInv'
<1>1. TypeOK /\ client[w] = Client("posted", p)
      /\ client' = [client EXCEPT ![w] = Client("held", p)] /\ states' = states
  BY DEF IInv, RunGrant
<1>2. client'[w] = Client("held", p) /\ \A v \in Waiters \ {w} : client'[v] = client[v]
  BY <1>1 DEF TypeOK
<1>3. TypeOK'
  BY <1>1 DEF TypeOK, ClientStates, Client
<1>4. ASSUME NEW q \in Providers
      PROVE  Accounted(q)' /\ Matched(q)' /\ Busy(q)'
  <2>1. Owners(q)' = Owners(q)
    BY <1>1, <1>2 DEF Owners, Client
  <2>2. Accounted(q)' /\ Busy(q)'
    BY <1>1, <2>1 DEF IInv, Accounted, Busy
  <2>3. client[w] # Client("queued", q) /\ client'[w] # Client("queued", q)
    BY <1>1, <1>2 DEF Client
  <2>4. \A i \in 1..Len(states[q].queue) : states[q].queue[i].waiterId \in Waiters
    BY <1>1, QueueNamesWaiters
  <2>5. Matched(q)'
    BY <1>1, <1>2, <2>3, <2>4 DEF IInv, Matched
  <2>6. QED
    BY <2>2, <2>5
<1>5. QED
  BY <1>3, <1>4 DEF IInv

\* release() keeps the invariant: the slot is freed, or passes to the head.
LEMMA ReleaseInv ==
  ASSUME IInv, NEW w \in Waiters, NEW p \in Providers, Release(w, p)
  PROVE  IInv'
<1> DEFINE st == states[p]
           n == Len(st.queue)
           h == Head(st.queue).waiterId
<1>1. TypeOK /\ Accounted(p) /\ Matched(p) /\ Busy(p) /\ client[w] = Client("held", p)
      /\ states' = [states EXCEPT ![p] = release(st)]
  BY DEF IInv, Release
<1>2. /\ st \in Bucket /\ st.queue \in Queues /\ n \in Nat
      /\ \A i \in 1..n : st.queue[i].waiterId \in Waiters
  BY <1>1, QueueNamesWaiters
<1>3. st.inFlight \in Nat /\ st.limit \in Nat
  BY <1>2 DEF Bucket
<1>4. w \in Owners(p) /\ IsFiniteSet(Owners(p)) /\ Cardinality(Owners(p)) \in Nat
  BY <1>1, OwnersFinite DEF Owners
<1>5. st.inFlight > 0
  <2>1. Cardinality(Owners(p)) # 0
    BY <1>4, FS_EmptySet
  <2>2. QED
    BY <1>1, <1>3, <1>4, <2>1 DEF Accounted
<1>6. /\ release(st) \in Bucket /\ release(st).limit = st.limit
      /\ st.queue # <<>> => /\ release(st).inFlight = st.inFlight
                            /\ release(st).queue = Tail(st.queue)
      /\ st.queue = <<>> => /\ release(st).inFlight = st.inFlight - 1
                            /\ release(st).queue = <<>>
  BY <1>2, <1>5, ReleaseEffect
<1>7. states'[p] = release(st) /\ \A q \in Providers \ {p} : states'[q] = states[q]
  BY <1>1 DEF TypeOK
<1>8. CASE st.queue = <<>>
  <2>1. client' = [Posting(p, {}) EXCEPT ![w] = Idle]
    BY <1>8, ReleaseGrants
  <2>2. client' = [client EXCEPT ![w] = Idle]
    BY <1>1, <2>1 DEF Posting, TypeOK
  <2>3. client'[w] = Idle /\ \A v \in Waiters \ {w} : client'[v] = client[v]
    BY <1>1, <2>2 DEF TypeOK
  <2>4. TypeOK'
    BY <1>1, <1>6, <2>2 DEF TypeOK, ClientStates
  <2>5. Owners(p)' = Owners(p) \ {w}
    BY <2>3 DEF Owners, Client, Idle
  <2>6. Accounted(p)'
    <3>1. Cardinality(Owners(p) \ {w}) = Cardinality(Owners(p)) - 1
      BY <1>4, FS_RemoveElement
    <3>2. states'[p].inFlight = st.inFlight - 1
      BY <1>6, <1>7, <1>8
    <3>3. QED
      BY <1>1, <2>5, <3>1, <3>2 DEF Accounted
  <2>7. Busy(p)' /\ states'[p].queue = st.queue
    BY <1>6, <1>7, <1>8 DEF Busy
  <2>8. client'[w] # Client("queued", p) /\ client[w] # Client("queued", p)
    BY <1>1, <2>3 DEF Client, Idle
  <2>9. Matched(p)'
    <3>1. \A v \in Waiters : client'[v] # Client("queued", p)
      <4>1. Len(st.queue) = 0
        BY <1>8
      <4>2. \A v \in Waiters : client[v] # Client("queued", p)
        BY <1>1, <4>1 DEF Matched
      <4>3. QED
        BY <2>3, <2>8, <4>2
    <3>2. Len(states'[p].queue) = 0
      BY <1>8, <2>7
    <3>3. QED
      BY <3>1, <3>2 DEF Matched
  <2>10. ASSUME NEW q \in Providers \ {p}
         PROVE  Accounted(q)' /\ Matched(q)' /\ Busy(q)'
    <3>1. Elsewhere(client[w], q) /\ Elsewhere(client'[w], q)
      BY <1>1, <2>3 DEF Elsewhere, Client, Idle
    <3>2. QED
      BY <1>1, <1>7, <2>3, <3>1, Frame DEF IInv
  <2>11. QED
    BY <2>4, <2>6, <2>7, <2>9, <2>10 DEF IInv
<1>9. CASE st.queue # <<>>
  <2>1. /\ n > 0 /\ Head(st.queue) = st.queue[1] /\ h = st.queue[1].waiterId
        /\ Len(Tail(st.queue)) = n - 1
        /\ \A i \in 1..(n - 1) : Tail(st.queue)[i] = st.queue[i + 1]
    BY <1>2, <1>9, EmptySeq, HeadTailProperties DEF Queues
  <2>2. h \in Waiters /\ client[h] = Client("queued", p)
    BY <1>1, <1>2, <2>1 DEF Matched
  <2>3. h # w /\ h \notin Owners(p)
    BY <1>1, <2>2 DEF Client, Owners
  <2>4. client' = [Posting(p, {h}) EXCEPT ![w] = Idle]
    BY <1>9, ReleaseGrants
  <2> HIDE DEF h
  <2>5. /\ client'[w] = Idle /\ client'[h] = Client("posted", p)
        /\ \A v \in Waiters \ {w, h} : client'[v] = client[v]
        /\ DOMAIN client' = Waiters /\ client' = [v \in Waiters |-> client'[v]]
    BY <2>2, <2>3, <2>4 DEF Posting
  <2>6. TypeOK'
    <3>1. \A v \in Waiters : client'[v] \in ClientStates
      BY <1>1, <2>5 DEF TypeOK, ClientStates, Client
    <3>2. client' \in [Waiters -> ClientStates]
      BY <2>5, <3>1
    <3>3. states' \in [Providers -> Bucket]
      BY <1>1, <1>6 DEF TypeOK
    <3>4. QED
      BY <3>2, <3>3 DEF TypeOK
  <2>7. Owners(p)' = (Owners(p) \ {w}) \cup {h}
    BY <2>2, <2>5 DEF Owners, Client, Idle
  <2>8. Accounted(p)'
    <3>1. /\ IsFiniteSet(Owners(p) \ {w})
          /\ Cardinality(Owners(p) \ {w}) = Cardinality(Owners(p)) - 1
      BY <1>4, FS_RemoveElement
    <3>2. h \notin Owners(p) \ {w}
      BY <2>3
    <3>3. Cardinality((Owners(p) \ {w}) \cup {h}) = Cardinality(Owners(p) \ {w}) + 1
      BY <3>1, <3>2, FS_AddElement
    <3>4. states'[p].inFlight = st.inFlight
      BY <1>6, <1>7, <1>9
    <3>5. QED
      BY <1>1, <1>4, <2>7, <3>1, <3>3, <3>4 DEF Accounted
  <2>9. states'[p].queue = Tail(st.queue) /\ states'[p].inFlight = st.inFlight
        /\ states'[p].limit = st.limit
    BY <1>6, <1>7, <1>9
  <2>10. Busy(p)'
    BY <1>1, <1>9, <2>9 DEF Busy
  <2>11. Matched(p)'
    <3> DEFINE Q == states'[p].queue
    <3>1. Len(Q) = n - 1 /\ \A i \in 1..(n - 1) : Q[i] = st.queue[i + 1]
      BY <2>1, <2>9
    <3>2. \A i \in 1..(n - 1) : i + 1 \in 1..n /\ i + 1 # 1
      BY <1>2
    <3>3. \A i \in 1..(n - 1) : /\ Q[i].waiterId \in Waiters \ {h}
                                /\ client[Q[i].waiterId] = Client("queued", p)
      <4> TAKE i \in 1..(n - 1)
      <4>1. i + 1 \in 1..n /\ 1 \in 1..n /\ Q[i] = st.queue[i + 1]
        BY <1>2, <3>1
      <4>2. /\ st.queue[i + 1].waiterId \in Waiters
            /\ client[st.queue[i + 1].waiterId] = Client("queued", p)
        BY <1>1, <1>2, <4>1 DEF Matched
      <4>3. st.queue[i + 1].waiterId = st.queue[1].waiterId => i + 1 = 1
        BY <1>1, <4>1 DEF Matched
      <4>4. QED
        BY <2>1, <3>2, <4>1, <4>2, <4>3
    <3>4. \A i \in 1..(n - 1) : Q[i].waiterId # w
      BY <1>1, <3>3 DEF Client
    <3>5. \A i \in 1..(n - 1) : client'[Q[i].waiterId] = Client("queued", p)
      BY <2>5, <3>3, <3>4
    <3>6. \A i, j \in 1..(n - 1) : Q[i].waiterId = Q[j].waiterId => i = j
      <4> SUFFICES ASSUME NEW i \in 1..(n - 1), NEW j \in 1..(n - 1),
                          Q[i].waiterId = Q[j].waiterId
                   PROVE  i = j
        OBVIOUS
      <4>1. /\ i + 1 \in 1..n /\ Q[i] = st.queue[i + 1]
            /\ j + 1 \in 1..n /\ Q[j] = st.queue[j + 1]
        BY <3>1, <3>2
      <4>2. i + 1 = j + 1
        BY <1>1, <4>1 DEF Matched
      <4>3. QED
        BY <1>2, <4>2
    <3>7. ASSUME NEW v \in Waiters, client'[v] = Client("queued", p)
          PROVE  \E i \in 1..(n - 1) : Q[i].waiterId = v
      <4>1. v # h /\ client[v] = Client("queued", p)
        BY <2>5, <3>7 DEF Client, Idle
      <4>2. PICK i \in 1..n : st.queue[i].waiterId = v
        BY <1>1, <4>1 DEF Matched
      <4>3. i # 1 /\ i - 1 \in 1..(n - 1) /\ (i - 1) + 1 = i
        BY <1>2, <2>1, <4>1, <4>2
      <4>4. QED
        BY <3>1, <4>2, <4>3
    <3>8. QED
      BY <3>1, <3>5, <3>6, <3>7 DEF Matched
  <2>12. ASSUME NEW q \in Providers \ {p}
         PROVE  Accounted(q)' /\ Matched(q)' /\ Busy(q)'
    <3>1. /\ Elsewhere(client[w], q) /\ Elsewhere(client'[w], q)
          /\ Elsewhere(client[h], q) /\ Elsewhere(client'[h], q)
      BY <1>1, <2>2, <2>5 DEF Elsewhere, Client, Idle
    <3>2. QED
      BY <1>1, <1>7, <2>5, <3>1, Frame DEF IInv
  <2>13. QED
    BY <2>6, <2>8, <2>10, <2>11, <2>12 DEF IInv
<1>10. QED
  BY <1>8, <1>9

\* cancel() keeps the invariant: the waiter leaves the one queue it was in.
LEMMA CancelInv ==
  ASSUME IInv, NEW w \in Waiters, Cancel(w)
  PROVE  IInv'
<1>1. TypeOK /\ client[w] \in ClientStates /\ client[w].at = "queued"
      /\ states' = [p \in Providers |-> cancel(states[p], w)]
      /\ client' = [client EXCEPT ![w] = Idle]
  BY DEF IInv, Cancel, TypeOK
<1>2. PICK p \in Providers : client[w] = Client("queued", p)
  BY <1>1 DEF ClientStates, Client, Idle
<1>3. client'[w] = Idle /\ \A v \in Waiters \ {w} : client'[v] = client[v]
  BY <1>1 DEF TypeOK
<1> DEFINE st == states[p]
           n == Len(st.queue)
<1>4. Accounted(p) /\ Matched(p) /\ Busy(p)
  BY DEF IInv
<1>5. /\ st \in Bucket /\ st.queue \in Queues /\ n \in Nat
      /\ \A i \in 1..n : st.queue[i].waiterId \in Waiters
  BY <1>1, QueueNamesWaiters
<1>6. PICK k \in 1..n : st.queue[k].waiterId = w
  BY <1>2, <1>4 DEF Matched
<1>7. \A j \in 1..n : st.queue[j].waiterId = w => j = k
  BY <1>4, <1>6 DEF Matched
<1>8. /\ cancel(st, w) \in Bucket
      /\ cancel(st, w).inFlight = st.inFlight /\ cancel(st, w).limit = st.limit
      /\ Len(cancel(st, w).queue) = n - 1
      /\ \A j \in 1..(n - 1) :
           cancel(st, w).queue[j] = st.queue[IF j < k THEN j ELSE j + 1]
  BY <1>5, <1>6, <1>7, CancelEffect
<1>9. ASSUME NEW q \in Providers \ {p}
      PROVE  states'[q] = states[q]
  <2>1. states[q] \in Bucket
    BY <1>1, QueueNamesWaiters
  <2>2. client[w] # Client("queued", q)
    BY <1>2 DEF Client
  <2>3. \A i \in 1..Len(states[q].queue) : states[q].queue[i].waiterId # w
    BY <2>2 DEF IInv, Matched
  <2>4. QED
    BY <1>1, <2>1, <2>3, CancelNoEffect
<1>10. states'[p] = cancel(st, w)
  BY <1>1
<1>11. TypeOK'
  <2>1. \A q \in Providers : states'[q] \in Bucket
    BY <1>1, <1>8, <1>9, <1>10, QueueNamesWaiters
  <2>2. states' \in [Providers -> Bucket]
    BY <1>1, <2>1
  <2>3. QED
    BY <1>1, <2>2 DEF TypeOK, ClientStates
<1>12. Owners(p)' = Owners(p)
  BY <1>2, <1>3 DEF Owners, Client, Idle
<1>13. Accounted(p)'
  BY <1>4, <1>8, <1>10, <1>12 DEF Accounted
<1>14. Busy(p)'
  <2>1. st.queue # <<>>
    BY <1>5, <1>6, EmptySeq DEF Queues
  <2>2. QED
    BY <1>4, <1>8, <1>10, <2>1 DEF Busy
<1>15. Matched(p)'
  <2> DEFINE Q == states'[p].queue
             At(j) == IF j < k THEN j ELSE j + 1
  <2>1. Len(Q) = n - 1 /\ \A j \in 1..(n - 1) : Q[j] = st.queue[At(j)]
    BY <1>8, <1>10
  <2>2. \A j \in 1..(n - 1) : At(j) \in 1..n /\ At(j) # k
    BY <1>5
  <2>3. \A i, j \in 1..(n - 1) : At(i) = At(j) => i = j
    BY <1>5
  <2>4. \A m \in 1..n : m # k => \E j \in 1..(n - 1) : At(j) = m
    <3> SUFFICES ASSUME NEW m \in 1..n, m # k
                 PROVE  \E j \in 1..(n - 1) : At(j) = m
      OBVIOUS
    <3>1. CASE m < k
      <4>1. m \in 1..(n - 1) /\ At(m) = m
        BY <1>5, <3>1
      <4>2. QED
        BY <4>1
    <3>2. CASE m > k
      <4>1. m - 1 \in 1..(n - 1) /\ At(m - 1) = m
        BY <1>5, <3>2
      <4>2. QED
        BY <4>1
    <3>3. QED
      BY <1>5, <3>1, <3>2
  <2> HIDE DEF At
  <2>5. \A j \in 1..(n - 1) : client'[Q[j].waiterId] = Client("queued", p)
    <3> TAKE j \in 1..(n - 1)
    <3>1. /\ st.queue[At(j)].waiterId \in Waiters \ {w}
          /\ client[st.queue[At(j)].waiterId] = Client("queued", p)
      BY <1>4, <1>5, <1>7, <2>2 DEF Matched
    <3>2. QED
      BY <1>3, <2>1, <3>1
  <2>6. \A i, j \in 1..(n - 1) : Q[i].waiterId = Q[j].waiterId => i = j
    <3> SUFFICES ASSUME NEW i \in 1..(n - 1), NEW j \in 1..(n - 1),
                        Q[i].waiterId = Q[j].waiterId
                 PROVE  i = j
      OBVIOUS
    <3>1. /\ At(i) \in 1..n /\ Q[i] = st.queue[At(i)]
          /\ At(j) \in 1..n /\ Q[j] = st.queue[At(j)]
      BY <2>1, <2>2
    <3>2. At(i) = At(j)
      BY <1>4, <3>1 DEF Matched
    <3>3. QED
      BY <2>3, <3>2
  <2>7. ASSUME NEW v \in Waiters, client'[v] = Client("queued", p)
        PROVE  \E j \in 1..(n - 1) : Q[j].waiterId = v
    <3>1. v # w /\ client[v] = Client("queued", p)
      BY <1>3, <2>7 DEF Client, Idle
    <3>2. PICK m \in 1..n : st.queue[m].waiterId = v
      BY <1>4, <3>1 DEF Matched
    <3>3. PICK j \in 1..(n - 1) : At(j) = m
      BY <1>6, <2>4, <3>1, <3>2
    <3>4. QED
      BY <2>1, <3>2, <3>3
  <2>8. QED
    BY <2>1, <2>5, <2>6, <2>7 DEF Matched
<1>16. ASSUME NEW q \in Providers \ {p}
       PROVE  Accounted(q)' /\ Matched(q)' /\ Busy(q)'
  <2>1. Elsewhere(client[w], q) /\ Elsewhere(client'[w], q)
    BY <1>2, <1>3 DEF Elsewhere, Client, Idle
  <2>2. QED
    BY <1>1, <1>3, <1>9, <2>1, Frame DEF IInv
<1>17. QED
  BY <1>11, <1>13, <1>14, <1>15, <1>16 DEF IInv

\* Counting the distinct waiters at the front of a queue.
LEMMA FrontCardinality ==
  ASSUME NEW q \in Queues, NEW n \in 0..Len(q),
         \A i, j \in 1..Len(q) : q[i].waiterId = q[j].waiterId => i = j
  PROVE  LET A == {q[i].waiterId : i \in 1..n}
         IN  IsFiniteSet(A) /\ Cardinality(A) = n
<1> DEFINE A == {q[i].waiterId : i \in 1..n}
           f == [i \in 1..n |-> q[i].waiterId]
<1>1. Len(q) \in Nat /\ n \in Nat
  BY LenProperties DEF Queues
<1>2. f \in Surjection(1..n, A)
  BY DEF Surjection
<1>3. f \in Injection(1..n, A)
  <2>1. f \in [1..n -> A]
    OBVIOUS
  <2>2. \A i, j \in 1..n : i \in 1..Len(q) /\ j \in 1..Len(q)
                           /\ f[i] = q[i].waiterId /\ f[j] = q[j].waiterId
    BY <1>1
  <2>3. \A i, j \in 1..n : f[i] = f[j] => i = j
    BY <2>2
  <2>4. QED
    BY <2>1, <2>3 DEF Injection, IsInjective
<1>4. IsFiniteSet(1..n) /\ Cardinality(1..n) = n
  BY <1>1, FS_Interval
<1>5. QED
  BY <1>2, <1>3, <1>4, FS_Surjection

\* A new limit keeps the invariant: the first waiters in the queue get slots.
LEMMA LimitInv ==
  ASSUME IInv, NEW p \in Providers, NEW limit \in Limits, SetProviderLimit(p, limit)
  PROVE  IInv'
<1> DEFINE st == states[p]
           len == Len(st.queue)
           l == IF limit > 1 THEN limit ELSE 1
           n == Admitted(st, l)
           new == setProviderLimit(st, limit)
           A == {st.queue[i].waiterId : i \in 1..n}
<1>1. TypeOK /\ Accounted(p) /\ Matched(p) /\ Busy(p) /\ limit \in Int
  BY LimitsAssumption DEF IInv
<1>2. states' = [states EXCEPT ![p] = new] /\ client' = Posting(p, A)
  BY LimitGrants DEF SetProviderLimit
<1>3. /\ st \in Bucket /\ st.queue \in Queues /\ len \in Nat
      /\ \A i \in 1..len : st.queue[i].waiterId \in Waiters
  BY <1>1, QueueNamesWaiters
<1>4. /\ new \in Bucket /\ new.limit = l
      /\ n \in 0..len /\ new.inFlight = st.inFlight + n
      /\ Len(new.queue) = len - n
      /\ \A j \in 1..(len - n) : new.queue[j] = st.queue[n + j]
      /\ new.queue # <<>> => new.inFlight >= l
  BY <1>1, <1>3, LimitEffect
<1>5. IsFiniteSet(A) /\ Cardinality(A) = n
  <2>1. \A i, j \in 1..len : st.queue[i].waiterId = st.queue[j].waiterId => i = j
    BY <1>1 DEF Matched
  <2>2. QED
    BY <1>3, <1>4, <2>1, FrontCardinality
<1> HIDE DEF new, n, l
<1>6. states'[p] = new /\ \A q \in Providers \ {p} : states'[q] = states[q]
  BY <1>1, <1>2 DEF TypeOK
<1>7. \A i \in 1..n : i \in 1..len
  BY <1>3, <1>4
<1>8. A \subseteq Waiters /\ \A v \in A : client[v] = Client("queued", p)
  BY <1>1, <1>3, <1>7 DEF Matched
<1> HIDE DEF A
<1>9. /\ \A v \in A : client'[v] = Client("posted", p)
      /\ \A v \in Waiters \ A : client'[v] = client[v]
      /\ client' = [v \in Waiters |-> client'[v]]
  BY <1>2, <1>8 DEF Posting
<1>10. TypeOK'
  <2>1. \A v \in Waiters : client'[v] \in ClientStates
    BY <1>1, <1>9 DEF TypeOK, ClientStates, Client
  <2>2. client' \in [Waiters -> ClientStates]
    BY <1>9, <2>1
  <2>3. states' \in [Providers -> Bucket]
    BY <1>1, <1>2, <1>4 DEF TypeOK
  <2>4. QED
    BY <2>2, <2>3 DEF TypeOK
<1>11. Owners(p)' = Owners(p) \cup A /\ Owners(p) \cap A = {}
  BY <1>8, <1>9 DEF Owners, Client
<1>12. Accounted(p)'
  <2>1. Cardinality(Owners(p) \cup A) = Cardinality(Owners(p)) + n
    <3>1. Cardinality(Owners(p) \cup A)
            = Cardinality(Owners(p)) + Cardinality(A) - Cardinality(Owners(p) \cap A)
      BY <1>5, OwnersFinite, FS_Union
    <3>2. Cardinality(Owners(p) \cap A) = 0
      BY <1>11, FS_EmptySet
    <3>3. n \in Nat
      BY <1>3, <1>4
    <3>4. QED
      BY <1>5, <3>1, <3>2, <3>3, OwnersFinite
  <2>2. QED
    BY <1>1, <1>4, <1>6, <1>11, <2>1 DEF Accounted
<1>13. Busy(p)'
  BY <1>4, <1>6 DEF Busy
<1>14. Matched(p)'
  <2> DEFINE Q == states'[p].queue
  <2>1. Len(Q) = len - n /\ \A j \in 1..(len - n) : Q[j] = st.queue[n + j]
    BY <1>4, <1>6
  <2>2. \A j \in 1..(len - n) : n + j \in 1..len /\ n + j \notin 1..n
    BY <1>3, <1>4
  <2>3. \A j \in 1..(len - n) : st.queue[n + j].waiterId \notin A
    <3> SUFFICES ASSUME NEW j \in 1..(len - n), NEW i \in 1..n,
                        st.queue[n + j].waiterId = st.queue[i].waiterId
                 PROVE  FALSE
      BY DEF A
    <3>1. n + j = i
      BY <1>1, <1>7, <2>2 DEF Matched
    <3>2. QED
      BY <2>2, <3>1
  <2>4. \A j \in 1..(len - n) : client'[Q[j].waiterId] = Client("queued", p)
    <3> TAKE j \in 1..(len - n)
    <3>1. /\ st.queue[n + j].waiterId \in Waiters \ A
          /\ client[st.queue[n + j].waiterId] = Client("queued", p)
      BY <1>1, <1>3, <2>2, <2>3 DEF Matched
    <3>2. QED
      BY <1>9, <2>1, <3>1
  <2>5. \A i, j \in 1..(len - n) : Q[i].waiterId = Q[j].waiterId => i = j
    <3> SUFFICES ASSUME NEW i \in 1..(len - n), NEW j \in 1..(len - n),
                        Q[i].waiterId = Q[j].waiterId
                 PROVE  i = j
      OBVIOUS
    <3>1. /\ n + i \in 1..len /\ Q[i] = st.queue[n + i]
          /\ n + j \in 1..len /\ Q[j] = st.queue[n + j]
      BY <2>1, <2>2
    <3>2. n + i = n + j
      BY <1>1, <3>1 DEF Matched
    <3>3. QED
      BY <1>3, <1>4, <3>2
  <2>6. ASSUME NEW v \in Waiters, client'[v] = Client("queued", p)
        PROVE  \E j \in 1..(len - n) : Q[j].waiterId = v
    <3>1. v \notin A /\ client[v] = Client("queued", p)
      BY <1>9, <2>6 DEF Client
    <3>2. PICK m \in 1..len : st.queue[m].waiterId = v
      BY <1>1, <3>1 DEF Matched
    <3>3. m \notin 1..n
      BY <3>1, <3>2 DEF A
    <3>4. m - n \in 1..(len - n) /\ n + (m - n) = m
      BY <1>3, <1>4, <3>3
    <3>5. QED
      BY <2>1, <3>2, <3>4
  <2>7. QED
    BY <2>1, <2>4, <2>5, <2>6 DEF Matched
<1>15. ASSUME NEW q \in Providers \ {p}
       PROVE  Accounted(q)' /\ Matched(q)' /\ Busy(q)'
  <2>1. \A v \in A : Elsewhere(client[v], q) /\ Elsewhere(client'[v], q)
    BY <1>8, <1>9 DEF Elsewhere, Client
  <2>2. QED
    BY <1>1, <1>6, <1>9, <2>1, Frame DEF IInv
<1>16. QED
  BY <1>10, <1>12, <1>13, <1>14, <1>15 DEF IInv

---------------------------------------------------------------------------
\* The theorems

\* Every step of the scheduler and its clients keeps the inductive invariant.
LEMMA NextInv == IInv /\ [Next]_vars => IInv'
<1> SUFFICES ASSUME IInv, [Next]_vars PROVE IInv'
  OBVIOUS
<1>1. ASSUME NEW w \in Waiters, NEW p \in Providers,
             Acquire(w, p) \/ Release(w, p) \/ RunGrant(w, p)
      PROVE  IInv'
  BY <1>1, AcquireInv, ReleaseInv, RunGrantInv
<1>2. ASSUME NEW w \in Waiters, Cancel(w)
      PROVE  IInv'
  BY <1>2, CancelInv
<1>3. ASSUME NEW p \in Providers, NEW l \in Limits, SetProviderLimit(p, l)
      PROVE  IInv'
  BY <1>3, LimitInv
<1>4. CASE UNCHANGED vars
  <2>1. TypeOK' /\ states' = states /\ client' = client
    BY <1>4 DEF vars, IInv, TypeOK
  <2>2. \A q \in Providers : Accounted(q)' /\ Matched(q)' /\ Busy(q)'
    BY <2>1, Frame DEF IInv
  <2>3. QED
    BY <2>1, <2>2 DEF IInv
<1>5. QED
  BY <1>1, <1>2, <1>3, <1>4 DEF Next

\* The inductive invariant holds in every reachable state.
THEOREM Inductive == Spec => []IInv
<1>1. QED
  BY InitInv, NextInv, PTL DEF Spec

\* Buckets and clients keep the shapes the class declares; in particular no
\* release, cancel or limit change drives a provider's counter below zero.
THEOREM TypeCorrect == Spec => []TypeOK
<1>1. IInv => TypeOK
  BY DEF IInv
<1>2. QED
  BY <1>1, Inductive, PTL

\* provider-scheduler.h:33-45, for any number of providers, runs and limits:
\* every slot in flight belongs to exactly one run.
THEOREM SlotsAccounted == Spec => []SlotAccounting
<1>1. IInv => SlotAccounting
  BY IInvImplies
<1>2. QED
  BY <1>1, Inductive, PTL

\* A run waits in exactly the queue it believes it waits in, and only once.
THEOREM QueuesMatch == Spec => []QueueMatchesClients
<1>1. IInv => QueueMatchesClients
  BY IInvImplies
<1>2. QED
  BY <1>1, Inductive, PTL

\* provider-scheduler.h:57-60: nobody is stranded behind a free slot.
THEOREM NobodyStranded == Spec => []NoIdleSlotWithWaiters
<1>1. IInv => NoIdleSlotWithWaiters
  BY IInvImplies
<1>2. QED
  BY <1>1, Inductive, PTL

---------------------------------------------------------------------------
\* What a step does to queues, limits and clients

LEMMA AcquireStep ==
  ASSUME IInv, NEW w \in Waiters, NEW p \in Providers, Acquire(w, p)
  PROVE  LET st == states[p]
             e == [waiterId |-> w, onGranted |-> "dispatch"]
         IN  /\ client[w].at = "idle"
             /\ \A q \in Providers \ {p} : states'[q] = states[q]
             /\ states'[p].limit = st.limit
             /\ \A i \in 1..Len(st.queue) : st.queue[i].waiterId # w
             /\ \/ /\ st.inFlight < st.limit /\ states'[p].queue = st.queue
                   /\ client' = [client EXCEPT ![w] = Client("held", p)]
                \/ /\ ~(st.inFlight < st.limit) /\ states'[p].queue = Append(st.queue, e)
                   /\ client' = [client EXCEPT ![w] = Client("queued", p)]
<1> DEFINE st == states[p]
           a == acquire(st, w, "dispatch")
           e == [waiterId |-> w, onGranted |-> "dispatch"]
<1>1. TypeOK /\ Matched(p) /\ client[w].at = "idle"
  BY DEF IInv, Acquire
<1>2. st \in Bucket
  BY <1>1, QueueNamesWaiters
<1>3. \A i \in 1..Len(st.queue) : st.queue[i].waiterId # w
  BY <1>1 DEF Matched, Client
<1>4. /\ a.st.limit = st.limit
      /\ st.inFlight < st.limit => a.granted /\ a.st.queue = st.queue
      /\ ~(st.inFlight < st.limit) => ~a.granted /\ a.st.queue = Append(st.queue, e)
  BY <1>2, <1>3, AcquireEffect
<1>5. /\ states' = [states EXCEPT ![p] = a.st]
      /\ client' = [client EXCEPT ![w] = Client(IF a.granted THEN "held" ELSE "queued", p)]
  BY DEF Acquire
<1> HIDE DEF a
<1>6. states'[p] = a.st /\ \A q \in Providers \ {p} : states'[q] = states[q]
  BY <1>1, <1>5 DEF TypeOK
<1>7. QED
  BY <1>1, <1>3, <1>4, <1>5, <1>6

LEMMA ReleaseStep ==
  ASSUME IInv, NEW w \in Waiters, NEW p \in Providers, Release(w, p)
  PROVE  LET st == states[p]
             h == st.queue[1].waiterId
         IN  /\ client[w] = Client("held", p)
             /\ \A q \in Providers \ {p} : states'[q] = states[q]
             /\ states'[p].limit = st.limit
             /\ \/ /\ st.queue = <<>> /\ states'[p].queue = <<>>
                   /\ client' = [client EXCEPT ![w] = Idle]
                \/ /\ st.queue # <<>> /\ states'[p].queue = Tail(st.queue)
                   /\ h \in Waiters /\ h # w /\ client[h] = Client("queued", p)
                   /\ client' = [client EXCEPT ![h] = Client("posted", p), ![w] = Idle]
<1> DEFINE st == states[p]
           h == st.queue[1].waiterId
<1>1. TypeOK /\ Accounted(p) /\ Matched(p) /\ client[w] = Client("held", p)
      /\ states' = [states EXCEPT ![p] = release(st)]
  BY DEF IInv, Release
<1>2. /\ st \in Bucket /\ st.queue \in Queues /\ Len(st.queue) \in Nat
      /\ \A i \in 1..Len(st.queue) : st.queue[i].waiterId \in Waiters
  BY <1>1, QueueNamesWaiters
<1>3. st.inFlight > 0
  <2>1. w \in Owners(p) /\ IsFiniteSet(Owners(p)) /\ Cardinality(Owners(p)) \in Nat
    BY <1>1, OwnersFinite DEF Owners
  <2>2. Cardinality(Owners(p)) # 0
    BY <2>1, FS_EmptySet
  <2>3. QED
    BY <1>1, <2>1, <2>2 DEF Accounted
<1>4. /\ release(st).limit = st.limit
      /\ st.queue # <<>> => release(st).queue = Tail(st.queue)
      /\ st.queue = <<>> => release(st).queue = <<>>
  BY <1>2, <1>3, ReleaseEffect
<1>5. states'[p] = release(st) /\ \A q \in Providers \ {p} : states'[q] = states[q]
  BY <1>1 DEF TypeOK
<1>6. CASE st.queue = <<>>
  <2>1. client' = [Posting(p, {}) EXCEPT ![w] = Idle]
    BY <1>6, ReleaseGrants
  <2>2. client' = [client EXCEPT ![w] = Idle]
    BY <1>1, <2>1 DEF Posting, TypeOK
  <2>3. QED
    BY <1>1, <1>4, <1>5, <1>6, <2>2
<1>7. CASE st.queue # <<>>
  <2>1. 1 \in 1..Len(st.queue) /\ Head(st.queue) = st.queue[1]
    BY <1>2, <1>7, EmptySeq, HeadTailProperties DEF Queues
  <2>2. h \in Waiters /\ client[h] = Client("queued", p) /\ h # w
    BY <1>1, <1>2, <2>1 DEF Matched, Client
  <2>3. client' = [Posting(p, {h}) EXCEPT ![w] = Idle]
    BY <1>7, <2>1, ReleaseGrants
  <2> HIDE DEF h
  <2>4. client' = [client EXCEPT ![h] = Client("posted", p), ![w] = Idle]
    BY <1>1, <2>2, <2>3 DEF Posting, TypeOK
  <2>5. QED
    BY <1>1, <1>4, <1>5, <1>7, <2>2, <2>4 DEF h
<1>8. QED
  BY <1>6, <1>7

LEMMA CancelStep ==
  ASSUME IInv, NEW w \in Waiters, Cancel(w)
  PROVE  \E p \in Providers :
           /\ client[w] = Client("queued", p) /\ client' = [client EXCEPT ![w] = Idle]
           /\ \A q \in Providers \ {p} : states'[q] = states[q]
           /\ states'[p].limit = states[p].limit
           /\ \E k \in 1..Len(states[p].queue) :
                /\ Len(states'[p].queue) = Len(states[p].queue) - 1
                /\ \A j \in 1..(Len(states[p].queue) - 1) :
                     states'[p].queue[j] = states[p].queue[IF j < k THEN j ELSE j + 1]
<1>1. TypeOK /\ client[w] \in ClientStates /\ client[w].at = "queued"
      /\ states' = [p \in Providers |-> cancel(states[p], w)]
      /\ client' = [client EXCEPT ![w] = Idle]
  BY DEF IInv, Cancel, TypeOK
<1>2. PICK p \in Providers : client[w] = Client("queued", p)
  BY <1>1 DEF ClientStates, Client, Idle
<1> DEFINE st == states[p]
<1>3. Matched(p) /\ st \in Bucket
  BY <1>1, QueueNamesWaiters DEF IInv
<1>4. PICK k \in 1..Len(st.queue) : st.queue[k].waiterId = w
  BY <1>2, <1>3 DEF Matched
<1>5. \A j \in 1..Len(st.queue) : st.queue[j].waiterId = w => j = k
  BY <1>3, <1>4 DEF Matched
<1>6. /\ cancel(st, w).limit = st.limit
      /\ Len(cancel(st, w).queue) = Len(st.queue) - 1
      /\ \A j \in 1..(Len(st.queue) - 1) :
           cancel(st, w).queue[j] = st.queue[IF j < k THEN j ELSE j + 1]
  BY <1>3, <1>4, <1>5, CancelEffect
<1>7. ASSUME NEW q \in Providers \ {p}
      PROVE  states'[q] = states[q]
  <2>1. states[q] \in Bucket
    BY <1>1, QueueNamesWaiters
  <2>2. client[w] # Client("queued", q)
    BY <1>2 DEF Client
  <2>3. \A i \in 1..Len(states[q].queue) : states[q].queue[i].waiterId # w
    BY <2>2 DEF IInv, Matched
  <2>4. QED
    BY <1>1, <2>1, <2>3, CancelNoEffect
<1>8. states'[p] = cancel(st, w)
  BY <1>1
<1>9. QED
  BY <1>1, <1>2, <1>4, <1>6, <1>7, <1>8

LEMMA LimitStep ==
  ASSUME IInv, NEW p \in Providers, NEW limit \in Limits, SetProviderLimit(p, limit)
  PROVE  LET st == states[p]
             l == IF limit > 1 THEN limit ELSE 1
         IN  /\ \A q \in Providers \ {p} : states'[q] = states[q]
             /\ l \in Nat \ {0} /\ states'[p].limit = l
             /\ \E n \in 0..Len(st.queue) :
                  /\ Len(states'[p].queue) = Len(st.queue) - n
                  /\ \A j \in 1..(Len(st.queue) - n) : states'[p].queue[j] = st.queue[n + j]
                  /\ client' = Posting(p, {st.queue[i].waiterId : i \in 1..n})
                  /\ n # 0 => st.inFlight + n <= l
                  /\ n # Len(st.queue) => st.inFlight + n >= l
<1> DEFINE st == states[p]
           len == Len(st.queue)
           l == IF limit > 1 THEN limit ELSE 1
           n == Admitted(st, l)
           new == setProviderLimit(st, limit)
<1>1. TypeOK /\ limit \in Int
  BY LimitsAssumption DEF IInv
<1>2. /\ states' = [states EXCEPT ![p] = new]
      /\ client' = Posting(p, {st.queue[i].waiterId : i \in 1..n})
  BY LimitGrants DEF SetProviderLimit
<1>3. st \in Bucket /\ len \in Nat /\ st.inFlight \in Nat
  BY <1>1, QueueNamesWaiters DEF Bucket
<1>4. /\ new \in Bucket /\ new.limit = l
      /\ n \in 0..len /\ Len(new.queue) = len - n
      /\ \A j \in 1..(len - n) : new.queue[j] = st.queue[n + j]
  BY <1>1, <1>3, LimitEffect
<1>5. l \in Nat \ {0}
  BY <1>1
<1> HIDE DEF l, new
<1>6. (n # 0 => st.inFlight + n <= l) /\ (n # len => st.inFlight + n >= l)
  BY <1>3, <1>5 DEF Admitted
<1> HIDE DEF n
<1>7. states'[p] = new /\ \A q \in Providers \ {p} : states'[q] = states[q]
  BY <1>1, <1>2 DEF TypeOK
<1>8. QED
  BY <1>2, <1>4, <1>5, <1>6, <1>7 DEF l

---------------------------------------------------------------------------
\* Queues are first in, first out

\* A later queue keeps the order of those that were in it; who is new comes last.
KeepsOrder(q, r) ==
  \A a, b \in 1..Len(r) : a < b =>
    \/ \E i, j \in 1..Len(q) : i < j /\ q[i].waiterId = r[a].waiterId
                                    /\ q[j].waiterId = r[b].waiterId
    \/ \A i \in 1..Len(q) : q[i].waiterId # r[b].waiterId

LEMMA KeptAhead ==
  ASSUME NEW q \in Queues, NEW r \in Queues, NEW v, NEW w, v # w, KeepsOrder(q, r),
         \A i, j \in 1..Len(q) : q[i].waiterId = q[j].waiterId => i = j,
         QueueIndex(q, v) # 0, QueueIndex(r, v) # 0, QueueIndex(r, w) # 0,
         QueueIndex(q, w) = 0 \/ QueueIndex(q, v) < QueueIndex(q, w)
  PROVE  QueueIndex(r, v) < QueueIndex(r, w)
<1> DEFINE k == QueueIndex(q, v)
           l == QueueIndex(q, w)
           b == QueueIndex(r, v)
           a == QueueIndex(r, w)
<1>1. /\ k \in 1..Len(q) /\ q[k].waiterId = v
      /\ a \in 1..Len(r) /\ r[a].waiterId = w
      /\ b \in 1..Len(r) /\ r[b].waiterId = v
      /\ l # 0 => l \in 1..Len(q) /\ q[l].waiterId = w
  BY IndexFound
<1>2. Len(q) \in Nat /\ Len(r) \in Nat
  BY LenProperties DEF Queues
<1>3. \A i \in 1..Len(q) : q[i].waiterId = w => l # 0
  BY <1>2, IndexExists
<1>4. l = 0 \/ k < l
  OBVIOUS
<1> HIDE DEF k, l, a, b
<1>5. a # b
  BY <1>1
<1>6. ASSUME a < b
      PROVE  FALSE
  <2>1. PICK i, j \in 1..Len(q) : i < j /\ q[i].waiterId = w /\ q[j].waiterId = v
    BY <1>1, <1>6 DEF KeepsOrder
  <2>2. j = k /\ l # 0 /\ i = l
    BY <1>1, <1>3, <2>1
  <2>3. QED
    BY <1>1, <1>2, <1>4, <2>1, <2>2
<1>7. b < a
  BY <1>1, <1>2, <1>5, <1>6
<1>8. QED
  BY <1>7 DEF a, b

LEMMA SameOrder ==
  ASSUME NEW q \in Queues
  PROVE  KeepsOrder(q, q)
<1>1. Len(q) \in Nat
  BY LenProperties DEF Queues
<1>2. QED
  BY <1>1 DEF KeepsOrder

LEMMA StepKeepsOrder ==
  ASSUME IInv, [Next]_vars, NEW p \in Providers
  PROVE  KeepsOrder(states[p].queue, states'[p].queue)
<1>0. TypeOK
  BY DEF IInv
<1>1. states[p].queue \in Queues /\ Len(states[p].queue) \in Nat
  BY <1>0, QueueNamesWaiters
<1>2. states'[p] = states[p] => KeepsOrder(states[p].queue, states'[p].queue)
  BY <1>1, SameOrder
<1>3. CASE UNCHANGED vars
  BY <1>2, <1>3 DEF vars
<1>4. ASSUME NEW w \in Waiters, NEW o \in Providers, Acquire(w, o), o = p
      PROVE  KeepsOrder(states[p].queue, states'[p].queue)
  <2> DEFINE q == states[p].queue
             e == [waiterId |-> w, onGranted |-> "dispatch"]
  <2>1. /\ \A i \in 1..Len(q) : q[i].waiterId # w
        /\ states'[p].queue = q \/ states'[p].queue = Append(q, e)
    BY <1>4, AcquireStep
  <2> HIDE DEF q
  <2>2. q \in Queues /\ Len(q) \in Nat /\ e \in Waiter /\ e.waiterId = w
    BY <1>1 DEF q, Waiter
  <2> HIDE DEF e
  <2>3. /\ Len(Append(q, e)) = Len(q) + 1 /\ Append(q, e)[Len(q) + 1] = e
        /\ \A i \in 1..Len(q) : Append(q, e)[i] = q[i]
    BY <2>2, AppendProperties DEF Queues
  <2> DEFINE r == Append(q, e)
  <2> HIDE DEF r
  <2>4. KeepsOrder(q, r)
    <3> SUFFICES ASSUME NEW a \in 1..Len(r), NEW b \in 1..Len(r), a < b
                 PROVE  \/ \E i, j \in 1..Len(q) : /\ i < j /\ q[i].waiterId = r[a].waiterId
                                                   /\ q[j].waiterId = r[b].waiterId
                        \/ \A i \in 1..Len(q) : q[i].waiterId # r[b].waiterId
      BY DEF KeepsOrder
    <3>1. a \in 1..Len(q) /\ (b \in 1..Len(q) \/ b = Len(q) + 1)
      BY <2>2, <2>3 DEF r
    <3>2. \A k \in 1..Len(q) : r[k] = q[k]
      BY <2>3 DEF r
    <3>3. r[Len(q) + 1].waiterId = w
      BY <2>2, <2>3 DEF r
    <3>4. QED
      BY <2>1, <3>1, <3>2, <3>3
  <2>5. QED
    BY <2>1, <2>2, <2>4, SameOrder DEF q, r
<1>5. ASSUME NEW w \in Waiters, NEW o \in Providers, Release(w, o), o = p
      PROVE  KeepsOrder(states[p].queue, states'[p].queue)
  <2> DEFINE q == states[p].queue
  <2>1. states'[p].queue = q \/ (q # <<>> /\ states'[p].queue = Tail(q))
    BY <1>5, ReleaseStep
  <2> HIDE DEF q
  <2>2. q \in Queues /\ Len(q) \in Nat
    BY <1>1 DEF q
  <2>3. ASSUME q # <<>>
        PROVE  KeepsOrder(q, Tail(q))
    <3> SUFFICES ASSUME NEW a \in 1..Len(Tail(q)), NEW b \in 1..Len(Tail(q)), a < b
                 PROVE  \E i, j \in 1..Len(q) : /\ i < j
                          /\ q[i].waiterId = Tail(q)[a].waiterId
                          /\ q[j].waiterId = Tail(q)[b].waiterId
      BY DEF KeepsOrder
    <3>1. Len(Tail(q)) = Len(q) - 1 /\ \A i \in 1..(Len(q) - 1) : Tail(q)[i] = q[i + 1]
      BY <2>2, <2>3, EmptySeq, HeadTailProperties DEF Queues
    <3>2. a + 1 \in 1..Len(q) /\ b + 1 \in 1..Len(q) /\ a + 1 < b + 1
          /\ a \in 1..(Len(q) - 1) /\ b \in 1..(Len(q) - 1)
      BY <2>2, <3>1
    <3>3. QED
      BY <3>1, <3>2
  <2>4. QED
    BY <2>1, <2>2, <2>3, SameOrder DEF q
<1>6. ASSUME NEW w \in Waiters, Cancel(w)
      PROVE  KeepsOrder(states[p].queue, states'[p].queue)
  <2>1. PICK o \in Providers :
           /\ \A q \in Providers \ {o} : states'[q] = states[q]
           /\ \E k \in 1..Len(states[o].queue) :
                /\ Len(states'[o].queue) = Len(states[o].queue) - 1
                /\ \A j \in 1..(Len(states[o].queue) - 1) :
                     states'[o].queue[j] = states[o].queue[IF j < k THEN j ELSE j + 1]
    BY <1>6, CancelStep
  <2>2. CASE o = p
    <3> DEFINE q == states[p].queue
               r == states'[p].queue
    <3>1. PICK k \in 1..Len(q) :
             /\ Len(r) = Len(q) - 1
             /\ \A j \in 1..(Len(q) - 1) : r[j] = q[IF j < k THEN j ELSE j + 1]
      BY <2>1, <2>2
    <3>2. Len(q) \in Nat
      BY <1>1
    <3> HIDE DEF q, r
    <3> DEFINE from(j) == IF j < k THEN j ELSE j + 1
    <3>3. /\ \A j \in 1..(Len(q) - 1) : from(j) \in 1..Len(q)
          /\ \A a, b \in 1..(Len(q) - 1) : a < b => from(a) < from(b)
      BY <3>2
    <3>4. \A j \in 1..(Len(q) - 1) : r[j] = q[from(j)]
      BY <3>1
    <3> HIDE DEF from
    <3>5. KeepsOrder(q, r)
      <4> SUFFICES ASSUME NEW a \in 1..Len(r), NEW b \in 1..Len(r), a < b
                   PROVE  \E i, j \in 1..Len(q) : /\ i < j /\ q[i].waiterId = r[a].waiterId
                                                  /\ q[j].waiterId = r[b].waiterId
        BY DEF KeepsOrder
      <4>1. a \in 1..(Len(q) - 1) /\ b \in 1..(Len(q) - 1)
        BY <3>1
      <4>2. /\ from(a) \in 1..Len(q) /\ from(b) \in 1..Len(q) /\ from(a) < from(b)
            /\ r[a] = q[from(a)] /\ r[b] = q[from(b)]
        BY <3>3, <3>4, <4>1
      <4>3. QED
        BY <4>2
    <3>6. QED
      BY <3>5 DEF q, r
  <2>3. CASE o # p
    BY <1>2, <2>1, <2>3
  <2>4. QED
    BY <2>2, <2>3
<1>7. ASSUME NEW o \in Providers, NEW limit \in Limits, SetProviderLimit(o, limit), o = p
      PROVE  KeepsOrder(states[p].queue, states'[p].queue)
  <2> DEFINE q == states[p].queue
             r == states'[p].queue
  <2>1. PICK n \in 0..Len(q) : /\ Len(r) = Len(q) - n
                               /\ \A j \in 1..(Len(q) - n) : r[j] = q[n + j]
    BY <1>7, LimitStep
  <2>2. Len(q) \in Nat
    BY <1>1
  <2> HIDE DEF q, r
  <2>3. /\ \A j \in 1..(Len(q) - n) : n + j \in 1..Len(q)
        /\ \A a, b \in 1..(Len(q) - n) : a < b => n + a < n + b
    BY <2>2
  <2>4. KeepsOrder(q, r)
    <3> SUFFICES ASSUME NEW a \in 1..Len(r), NEW b \in 1..Len(r), a < b
                 PROVE  \E i, j \in 1..Len(q) : /\ i < j /\ q[i].waiterId = r[a].waiterId
                                                /\ q[j].waiterId = r[b].waiterId
      BY DEF KeepsOrder
    <3>1. a \in 1..(Len(q) - n) /\ b \in 1..(Len(q) - n)
      BY <2>1
    <3>2. /\ n + a \in 1..Len(q) /\ n + b \in 1..Len(q) /\ n + a < n + b
          /\ r[a] = q[n + a] /\ r[b] = q[n + b]
      BY <2>1, <2>3, <3>1
    <3>3. QED
      BY <3>2
  <2>5. QED
    BY <2>4 DEF q, r
<1>8. ASSUME NEW w \in Waiters, NEW o \in Providers, Acquire(w, o) \/ Release(w, o), o # p
      PROVE  states'[p] = states[p]
  <2>1. \A q \in Providers \ {o} : states'[q] = states[q]
    BY <1>8, AcquireStep, ReleaseStep
  <2>2. QED
    BY <1>8, <2>1
<1>9. ASSUME NEW w \in Waiters, NEW o \in Providers, RunGrant(w, o)
      PROVE  states'[p] = states[p]
  BY <1>9 DEF RunGrant
<1>10. ASSUME NEW o \in Providers, NEW limit \in Limits, SetProviderLimit(o, limit), o # p
       PROVE  states'[p] = states[p]
  <2>1. \A q \in Providers \ {o} : states'[q] = states[q]
    BY <1>10, LimitStep
  <2>2. QED
    BY <1>10, <2>1
<1>11. QED
  BY <1>2, <1>3, <1>4, <1>5, <1>6, <1>7, <1>8, <1>9, <1>10 DEF Next

\* Whoever stands behind a waiter that a step leaves without a slot of p gets
\* none either.
LEMMA StepServesInOrder ==
  ASSUME IInv, [Next]_vars, NEW p \in Providers, NEW v \in Waiters, NEW w \in Waiters,
         Ahead(p, v, w), w \notin Owners(p), w \in Owners(p)'
  PROVE  v \in Owners(p)'
<1> DEFINE q == states[p].queue
           a == QueueIndex(q, v)
           b == QueueIndex(q, w)
<1>1. TypeOK /\ Matched(p) /\ Busy(p)
  BY DEF IInv
<1>2. /\ q \in Queues /\ Len(q) \in Nat /\ states[p].inFlight \in Nat
      /\ states[p].limit \in Nat
      /\ \A i \in 1..Len(q) : q[i].waiterId \in Waiters
  BY <1>1, QueueNamesWaiters DEF Bucket
<1>3. a # 0 /\ (b = 0 \/ a < b)
  BY DEF Ahead
<1>4. a \in 1..Len(q) /\ q[a].waiterId = v /\ (b # 0 => b \in 1..Len(q) /\ q[b].waiterId = w)
  BY <1>2, <1>3, IndexFound
<1>5. client[w] # Client("held", p) /\ client[w] # Client("posted", p)
      /\ client'[w] \in {Client("held", p), Client("posted", p)}
  BY DEF Owners
<1> HIDE DEF a, b
<1>6. q # <<>>
  BY <1>2, <1>4, EmptySeq DEF Queues
<1>7. CASE UNCHANGED vars
  BY <1>5, <1>7 DEF vars
<1>8. ASSUME NEW x \in Waiters, NEW o \in Providers, Acquire(x, o)
      PROVE  v \in Owners(p)'
  <2>1. \/ states[o].inFlight < states[o].limit /\ client' = [client EXCEPT ![x] = Client("held", o)]
        \/ client' = [client EXCEPT ![x] = Client("queued", o)]
    BY <1>8, AcquireStep
  <2>2. x = w /\ o = p /\ states[p].inFlight < states[p].limit
    BY <1>1, <1>5, <2>1 DEF TypeOK, Client
  <2>3. QED
    BY <1>1, <1>2, <1>6, <2>2 DEF Busy
<1>9. ASSUME NEW x \in Waiters, NEW o \in Providers, Release(x, o)
      PROVE  v \in Owners(p)'
  <2> DEFINE h == states[o].queue[1].waiterId
  <2>1. \/ client' = [client EXCEPT ![x] = Idle]
        \/ h \in Waiters /\ h # x /\ client[h] = Client("queued", o)
           /\ client' = [client EXCEPT ![h] = Client("posted", o), ![x] = Idle]
    BY <1>9, ReleaseStep
  <2> HIDE DEF h
  <2>2. w = h /\ o = p
    BY <1>1, <1>5, <2>1 DEF TypeOK, Client, Idle
  <2>3. 1 \in 1..Len(q) /\ q[1].waiterId = w
    BY <1>2, <1>4, <2>2 DEF h
  <2>4. \A i, j \in 1..Len(q) : q[i].waiterId = q[j].waiterId => i = j
    BY <1>1 DEF Matched
  <2> HIDE DEF q
  <2>5. b = 1
    BY <1>2, <2>3, <2>4, IndexIs DEF b
  <2>6. QED
    BY <1>2, <1>3, <1>4, <2>5
<1>10. ASSUME NEW x \in Waiters, NEW o \in Providers, RunGrant(x, o)
       PROVE  v \in Owners(p)'
  BY <1>1, <1>5, <1>10 DEF RunGrant, TypeOK, Client
<1>11. ASSUME NEW x \in Waiters, Cancel(x)
       PROVE  v \in Owners(p)'
  BY <1>1, <1>5, <1>11 DEF Cancel, TypeOK, Client, Idle
<1>12. ASSUME NEW o \in Providers, NEW limit \in Limits, SetProviderLimit(o, limit)
       PROVE  v \in Owners(p)'
  <2>1. PICK n \in 0..Len(states[o].queue) :
          client' = Posting(o, {states[o].queue[i].waiterId : i \in 1..n})
    BY <1>12, LimitStep
  <2>2. o = p /\ \E i \in 1..n : states[o].queue[i].waiterId = w
    BY <1>5, <2>1 DEF Posting, Client
  <2>3. PICK i \in 1..n : q[i].waiterId = w
    BY <2>2
  <2>4. n \in 0..Len(q) /\ i \in 1..Len(q)
    BY <1>2, <2>2
  <2>4a. \A k, j \in 1..Len(q) : q[k].waiterId = q[j].waiterId => k = j
    BY <1>1 DEF Matched
  <2>5. b = i
    <3> HIDE DEF q
    <3>1. QED
      BY <1>2, <2>3, <2>4, <2>4a, IndexIs DEF b
  <2>6. a \in 1..n
    BY <1>2, <1>3, <1>4, <2>3, <2>4, <2>5
  <2>7. client'[v] = Client("posted", p)
    BY <1>4, <2>1, <2>2, <2>6 DEF Posting
  <2>8. QED
    BY <2>7 DEF Owners
<1>13. QED
  BY <1>7, <1>8, <1>9, <1>10, <1>11, <1>12 DEF Next

\* provider-scheduler.h:57-60: a step that gives a run a slot serves everybody
\* in front of it as well, and nobody is put in front of a waiter that stays,
\* whoever acquires, releases, cancels or changes a limit around it.
THEOREM FirstInFirstOut == Spec => NoOvertaking
<1> DEFINE Fifo == \A p \in Providers : \A v, w \in Waiters : Ahead(p, v, w) =>
             /\ w \notin Owners(p) /\ w \in Owners(p)' => v \in Owners(p)'
             /\ client'[v] = Client("queued", p) => Ahead(p, v, w)'
<1>1. IInv /\ IInv' /\ [Next]_vars => [Fifo]_vars
  <2> SUFFICES ASSUME IInv, IInv', [Next]_vars, NEW p \in Providers,
                      NEW v \in Waiters, NEW w \in Waiters, Ahead(p, v, w)
               PROVE  /\ w \notin Owners(p) /\ w \in Owners(p)' => v \in Owners(p)'
                      /\ client'[v] = Client("queued", p) => Ahead(p, v, w)'
    OBVIOUS
  <2>1. w \notin Owners(p) /\ w \in Owners(p)' => v \in Owners(p)'
    BY StepServesInOrder
  <2>2. ASSUME client'[v] = Client("queued", p)
        PROVE  Ahead(p, v, w)'
    <3> DEFINE q == states[p].queue
               r == states'[p].queue
    <3>1. q \in Queues /\ r \in Queues
      BY DEF IInv, TypeOK, Bucket
    <3>2. KeepsOrder(q, r)
      BY StepKeepsOrder
    <3>3. /\ \A i, j \in 1..Len(q) : q[i].waiterId = q[j].waiterId => i = j
          /\ QueueIndex(q, v) # 0
          /\ QueueIndex(q, w) = 0 \/ QueueIndex(q, v) < QueueIndex(q, w)
      BY DEF IInv, Matched, Ahead
    <3>4. QueueIndex(r, v) # 0
      <4>1. PICK i \in 1..Len(r) : r[i].waiterId = v
        BY <2>2 DEF IInv, Matched
      <4>2. QueueIndex(r, v) \in 1..Len(r)
        BY <3>1, <4>1, IndexExists
      <4>3. QED
        BY <4>2
    <3>5. v # w
      BY <3>1, <3>3, IndexFound DEF Queues
    <3> HIDE DEF q, r
    <3>6. QueueIndex(r, w) # 0 => QueueIndex(r, v) < QueueIndex(r, w)
      BY <3>1, <3>2, <3>3, <3>4, <3>5, KeptAhead
    <3>7. QED
      BY <3>4, <3>6 DEF Ahead, r
  <2>3. QED
    BY <2>1, <2>2
<1>2. QED
  BY <1>1, Inductive, PTL DEF Spec, NoOvertaking


---------------------------------------------------------------------------
\* The slot pool

\* The refinement mapping: what the pool sees of a run, and its two variables.
Seen(c) == CASE c.at = "idle" -> Idle
             [] c.at = "queued" -> [at |-> "waiting", p |-> c.p]
             [] OTHER -> [at |-> "owning", p |-> c.p]
poolTurn == [w \in Waiters |-> Seen(client[w])]
poolCapacity == [p \in Providers |-> states[p].limit]

\* A pool's clients are told apart as the scheduler's are.
LEMMA SeenFacts ==
  /\ Seen(Idle) = Pool!Idle
  /\ \A p : /\ Seen(Client("queued", p)) = Pool!Waiting(p)
            /\ Seen(Client("held", p)) = Pool!Owning(p)
            /\ Seen(Client("posted", p)) = Pool!Owning(p)
  /\ \A c \in ClientStates, p \in Providers :
       /\ Seen(c) = Pool!Idle <=> c = Idle
       /\ Seen(c) = Pool!Waiting(p) <=> c = Client("queued", p)
       /\ Seen(c) = Pool!Owning(p) <=> c \in {Client("held", p), Client("posted", p)}
       /\ Seen(c).at = "waiting" <=> c.at = "queued"
  BY DEF Seen, Idle, Client, ClientStates, Pool!Idle, Pool!Waiting, Pool!Owning

LEMMA PoolCardinality == \A S : Pool!Cardinality(S) = Cardinality(S)
  BY DEF Pool!Cardinality, Cardinality

LEMMA PoolView ==
  ASSUME TypeOK, NEW p \in Providers
  PROVE  /\ Pool!Owners(p) = Owners(p)
         /\ Pool!Queue(p) = {w \in Waiters : client[w] = Client("queued", p)}
         /\ Pool!Full(p) <=> Cardinality(Owners(p)) >= states[p].limit
<1>1. Pool!Owners(p) = {w \in Waiters : poolTurn[w] = Pool!Owning(p)}
  BY DEF Pool!Owners, poolTurn, Seen
<1>2. Pool!Queue(p) = {w \in Waiters : poolTurn[w] = Pool!Waiting(p)}
  BY DEF Pool!Queue, poolTurn, Seen
<1>3. \A w \in Waiters : poolTurn[w] = Seen(client[w]) /\ client[w] \in ClientStates
  BY DEF TypeOK, poolTurn
<1>4. Pool!Owners(p) = Owners(p)
  BY <1>1, <1>3, SeenFacts DEF Owners
<1>5. Pool!Queue(p) = {w \in Waiters : client[w] = Client("queued", p)}
  BY <1>2, <1>3, SeenFacts
<1>6. Pool!Full(p) <=> Cardinality(Pool!Owners(p)) >= states[p].limit
  BY PoolCardinality DEF Pool!Full
<1>7. QED
  BY <1>4, <1>5, <1>6


LEMMA RefineAcquire ==
  ASSUME IInv, IInv', NEW w \in Waiters, NEW p \in Providers, Acquire(w, p)
  PROVE  Pool!Take(w, p) \/ Pool!Wait(w, p)
<1> DEFINE st == states[p]
<1>1. TypeOK /\ TypeOK' /\ Accounted(p)
  BY DEF IInv
<1>2. /\ client[w].at = "idle" /\ \A q \in Providers \ {p} : states'[q] = states[q]
      /\ states'[p].limit = st.limit
      /\ \/ st.inFlight < st.limit /\ client' = [client EXCEPT ![w] = Client("held", p)]
         \/ ~(st.inFlight < st.limit) /\ client' = [client EXCEPT ![w] = Client("queued", p)]
  BY AcquireStep
<1>3. client[w] = Idle /\ \A v \in Waiters : client[v] \in ClientStates
  BY <1>1, <1>2 DEF TypeOK, ClientStates, Idle
<1>4. poolTurn[w] = Pool!Idle
  BY <1>3, SeenFacts DEF poolTurn
<1>5. poolCapacity' = poolCapacity
  BY <1>2 DEF poolCapacity
<1>6. Pool!Full(p) <=> ~(st.inFlight < st.limit)
  <2>1. Pool!Full(p) <=> st.inFlight >= st.limit
    BY <1>1, PoolView DEF Accounted
  <2>2. st.inFlight \in Nat /\ st.limit \in Nat
    BY <1>1 DEF TypeOK, Bucket
  <2>3. QED
    BY <2>1, <2>2
<1>7. CASE st.inFlight < st.limit /\ client' = [client EXCEPT ![w] = Client("held", p)]
  <2>1. poolTurn' = [poolTurn EXCEPT ![w] = Pool!Owning(p)]
    BY <1>1, <1>7, SeenFacts DEF poolTurn, TypeOK
  <2>2. QED
    BY <1>4, <1>5, <1>6, <1>7, <2>1 DEF Pool!Take, poolTurn, poolCapacity, Seen
<1>8. CASE ~(st.inFlight < st.limit) /\ client' = [client EXCEPT ![w] = Client("queued", p)]
  <2>1. poolTurn' = [poolTurn EXCEPT ![w] = Seen(Client("queued", p))]
    BY <1>1, <1>8 DEF poolTurn, TypeOK
  <2>2. QED
    BY <1>4, <1>5, <1>6, <1>8, <2>1, SeenFacts DEF Pool!Wait, poolTurn, poolCapacity, Seen
<1>9. QED
  BY <1>2, <1>7, <1>8

LEMMA RefineRelease ==
  ASSUME IInv, IInv', NEW w \in Waiters, NEW p \in Providers, Release(w, p)
  PROVE  Pool!GiveUp(w, p) \/ \E d \in Waiters : Pool!HandOver(w, d, p)
<1> DEFINE st == states[p]
           h == st.queue[1].waiterId
<1>1. TypeOK /\ TypeOK' /\ Matched(p)
  BY DEF IInv
<1>2. /\ client[w] = Client("held", p) /\ \A q \in Providers \ {p} : states'[q] = states[q]
      /\ states'[p].limit = st.limit
      /\ \/ st.queue = <<>> /\ client' = [client EXCEPT ![w] = Idle]
         \/ /\ h \in Waiters /\ h # w /\ client[h] = Client("queued", p)
            /\ client' = [client EXCEPT ![h] = Client("posted", p), ![w] = Idle]
  BY ReleaseStep
<1>3. poolTurn[w] = Pool!Owning(p)
  BY <1>2, SeenFacts DEF poolTurn
<1>4. poolCapacity' = poolCapacity
  BY <1>2 DEF poolCapacity
<1> HIDE DEF h
<1>5. CASE st.queue = <<>> /\ client' = [client EXCEPT ![w] = Idle]
  <2>1. poolTurn' = [poolTurn EXCEPT ![w] = Pool!Idle]
    <3>1. poolTurn' = [poolTurn EXCEPT ![w] = Seen(Idle)]
      BY <1>1, <1>5 DEF poolTurn, TypeOK
    <3>2. QED
      BY <3>1, SeenFacts
  <2>2. Pool!Queue(p) = {}
    <3>1. Len(st.queue) = 0
      BY <1>5, EmptySeq
    <3>2. \A v \in Waiters : client[v] # Client("queued", p)
      BY <1>1, <3>1 DEF Matched
    <3>3. QED
      BY <1>1, <3>2, PoolView
  <2>3. Pool!GiveUp(w, p)
    BY <1>3, <1>4, <2>1, <2>2 DEF Pool!GiveUp, poolTurn, poolCapacity, Seen
  <2>4. QED
    BY <2>3
<1>6. CASE /\ h \in Waiters /\ h # w /\ client[h] = Client("queued", p)
           /\ client' = [client EXCEPT ![h] = Client("posted", p), ![w] = Idle]
  <2>1. poolTurn' = [poolTurn EXCEPT ![w] = Pool!Idle, ![h] = Pool!Owning(p)]
    <3>1. poolTurn' = [poolTurn EXCEPT ![w] = Seen(Idle), ![h] = Seen(Client("posted", p))]
      BY <1>1, <1>6 DEF poolTurn, TypeOK
    <3>2. QED
      BY <3>1, SeenFacts
  <2>2. h \in Pool!Queue(p)
    BY <1>1, <1>6, PoolView
  <2>3. Pool!HandOver(w, h, p)
    BY <1>3, <1>4, <2>1, <2>2 DEF Pool!HandOver, poolTurn, poolCapacity, Seen
  <2>4. QED
    BY <1>6, <2>3
<1>7. QED
  BY <1>2, <1>5, <1>6

\* Running the posted callback is invisible: the slot was counted before.
LEMMA RefineRunGrant ==
  ASSUME IInv, NEW w \in Waiters, NEW p \in Providers, RunGrant(w, p)
  PROVE  UNCHANGED Pool!vars
<1>1. TypeOK /\ client[w] = Client("posted", p) /\ states' = states
      /\ client' = [client EXCEPT ![w] = Client("held", p)]
  BY DEF IInv, RunGrant
<1>2. poolTurn' = [v \in Waiters |-> Seen(client'[v])]
  BY DEF poolTurn
<1>3. \A v \in Waiters : Seen(client'[v]) = Seen(client[v])
  BY <1>1, SeenFacts DEF TypeOK
<1>4. poolTurn' = poolTurn
  BY <1>2, <1>3 DEF poolTurn
<1>5. poolCapacity' = poolCapacity
  BY <1>1 DEF poolCapacity
<1>6. QED
  BY <1>4, <1>5 DEF Pool!vars, poolTurn, poolCapacity, Seen

LEMMA RefineCancel ==
  ASSUME IInv, NEW w \in Waiters, Cancel(w)
  PROVE  Pool!Withdraw(w)
<1>1. PICK p \in Providers :
           /\ client[w] = Client("queued", p) /\ client' = [client EXCEPT ![w] = Idle]
           /\ \A q \in Providers \ {p} : states'[q] = states[q]
           /\ states'[p].limit = states[p].limit
  BY CancelStep
<1>2. TypeOK
  BY DEF IInv
<1>3. poolTurn[w].at = "waiting"
  BY <1>1, SeenFacts DEF poolTurn, Pool!Waiting
<1>4. poolCapacity' = poolCapacity
  BY <1>1 DEF poolCapacity
<1>5. poolTurn' = [poolTurn EXCEPT ![w] = Seen(Idle)]
  BY <1>1, <1>2 DEF poolTurn, TypeOK
<1>6. poolTurn' = [poolTurn EXCEPT ![w] = Pool!Idle]
  BY <1>5, SeenFacts
<1>7. QED
  BY <1>3, <1>4, <1>6 DEF Pool!Withdraw, poolTurn, poolCapacity, Seen

LEMMA RefineLimit ==
  ASSUME IInv, NEW p \in Providers, NEW limit \in Limits, SetProviderLimit(p, limit)
  PROVE  Pool!Resize(p, poolCapacity'[p])
<1> DEFINE st == states[p]
           len == Len(st.queue)
           l == IF limit > 1 THEN limit ELSE 1
<1>1. TypeOK /\ Accounted(p) /\ Matched(p)
  BY DEF IInv
<1>2. PICK n \in 0..len :
        /\ client' = Posting(p, {st.queue[i].waiterId : i \in 1..n})
        /\ n # 0 => st.inFlight + n <= l
        /\ n # len => st.inFlight + n >= l
  BY LimitStep
<1>3. /\ \A q \in Providers \ {p} : states'[q] = states[q]
      /\ l \in Nat \ {0} /\ states'[p].limit = l
  BY LimitStep
<1> HIDE DEF l
<1> DEFINE A == {st.queue[i].waiterId : i \in 1..n}
<1>4. /\ st.queue \in Queues /\ len \in Nat /\ st.inFlight \in Nat
      /\ \A i \in 1..len : st.queue[i].waiterId \in Waiters
  BY <1>1, QueueNamesWaiters DEF Bucket
<1>5. IsFiniteSet(A) /\ Cardinality(A) = n
  BY <1>1, <1>4, FrontCardinality DEF Matched
<1>6. \A i \in 1..n : i \in 1..len
  BY <1>4
<1>7. A \subseteq Waiters /\ \A v \in A : client[v] = Client("queued", p)
  BY <1>1, <1>4, <1>6 DEF Matched
<1>8. n = len => \A v \in Waiters : client[v] = Client("queued", p) => v \in A
  BY <1>1 DEF Matched
<1> HIDE DEF A
<1>9. Cardinality(Owners(p) \cup A) = st.inFlight + n
  <2>1. Owners(p) \cap A = {}
    BY <1>7 DEF Owners, Client
  <2>2. Cardinality(Owners(p) \cup A)
          = Cardinality(Owners(p)) + Cardinality(A) - Cardinality(Owners(p) \cap A)
    BY <1>5, OwnersFinite, FS_Union
  <2>3. Cardinality(Owners(p) \cap A) = 0
    BY <2>1, FS_EmptySet
  <2>4. QED
    BY <1>1, <1>4, <1>5, <2>2, <2>3 DEF Accounted
<1>10. poolCapacity' = [poolCapacity EXCEPT ![p] = l] /\ poolCapacity'[p] = l
  BY <1>3 DEF poolCapacity
<1>11. poolTurn' = [c \in Waiters |-> IF c \in A THEN Pool!Owning(p) ELSE poolTurn[c]]
  <2>1. \A v \in Waiters : client'[v] = IF v \in A THEN Client("posted", p) ELSE client[v]
    BY <1>2 DEF Posting, A
  <2>2. \A v \in Waiters : Seen(client'[v]) = IF v \in A THEN Pool!Owning(p) ELSE poolTurn[v]
    BY <2>1, SeenFacts DEF poolTurn
  <2>3. poolTurn' = [v \in Waiters |-> Seen(client'[v])]
    BY DEF poolTurn
  <2>4. QED
    BY <2>2, <2>3
<1>12. A \subseteq Pool!Queue(p) /\ (n = len => A = Pool!Queue(p))
  BY <1>1, <1>7, <1>8, PoolView
<1>13. A # {} => Cardinality(Owners(p) \cup A) <= l
  <2>1. A # {} => n # 0
    BY <1>5, FS_EmptySet
  <2>2. QED
    BY <1>2, <1>9, <2>1
<1>14. A = Pool!Queue(p) \/ Cardinality(Owners(p) \cup A) >= l
  BY <1>2, <1>9, <1>12
<1>15. Pool!Owners(p) = Owners(p)
  BY <1>1, PoolView
<1>16. \E admitted \in SUBSET Pool!Queue(p) :
         /\ poolTurn' = [c \in Waiters |-> IF c \in admitted THEN Pool!Owning(p) ELSE poolTurn[c]]
         /\ admitted # {} => Cardinality(Pool!Owners(p) \cup admitted) <= l
         /\ admitted = Pool!Queue(p) \/ Cardinality(Pool!Owners(p) \cup admitted) >= l
  BY <1>11, <1>12, <1>13, <1>14, <1>15
<1>17. QED
  BY <1>3, <1>10, <1>16, PoolCardinality DEF Pool!Resize, poolTurn, poolCapacity, Seen

\* provider-scheduler.h:33-60, for any number of providers, runs and limits: the
\* scheduler with its queues, counters and deferred callbacks is a slot pool.  A
\* slot given up while a run waits changes hands in that same step, and no run
\* waits for a provider with room.
THEOREM RefinesSlotPool == Spec => ImplementsSlotPool
<1>1. Init => Pool!Init
  <2> SUFFICES ASSUME Init PROVE Pool!Init
    OBVIOUS
  <2>1. poolCapacity = [p \in Providers |-> 1]
    BY DEF Init, ProviderState, poolCapacity
  <2>2. poolTurn = [w \in Waiters |-> Pool!Idle]
    BY SeenFacts DEF Init, poolTurn
  <2>3. QED
    BY <2>1, <2>2 DEF Pool!Init, poolTurn, poolCapacity, Seen
<1>2. IInv /\ IInv' /\ [Next]_vars => [Pool!Next]_(Pool!vars)
  <2> SUFFICES ASSUME IInv, IInv', [Next]_vars
               PROVE  Pool!Next \/ UNCHANGED Pool!vars
    OBVIOUS
  <2>1. CASE UNCHANGED vars
    BY <2>1 DEF vars, Pool!vars
  <2>2. ASSUME NEW w \in Waiters, NEW p \in Providers, Acquire(w, p)
        PROVE  Pool!Next
    BY <2>2, RefineAcquire DEF Pool!Next
  <2>3. ASSUME NEW w \in Waiters, NEW p \in Providers, Release(w, p)
        PROVE  Pool!Next
    BY <2>3, RefineRelease DEF Pool!Next
  <2>4. ASSUME NEW w \in Waiters, NEW p \in Providers, RunGrant(w, p)
        PROVE  UNCHANGED Pool!vars
    BY <2>4, RefineRunGrant
  <2>5. ASSUME NEW w \in Waiters, Cancel(w)
        PROVE  Pool!Next
    BY <2>5, RefineCancel DEF Pool!Next
  <2>6. ASSUME NEW p \in Providers, NEW limit \in Limits, SetProviderLimit(p, limit)
        PROVE  Pool!Next
    <3>1. Pool!Resize(p, poolCapacity'[p])
      BY <2>6, RefineLimit
    <3>2. QED
      BY <3>1 DEF Pool!Next, poolCapacity
  <2>7. QED
    BY <2>1, <2>2, <2>3, <2>4, <2>5, <2>6 DEF Next
<1>3. QED
  BY <1>1, <1>2, Inductive, PTL DEF Spec, ImplementsSlotPool, Pool!Spec
=============================================================================
