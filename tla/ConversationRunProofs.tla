------------------------ MODULE ConversationRunProofs ------------------------
(***************************************************************************)
(* Three results about turns, for every set of runs, providers and kinds   *)
(* of event.  A provider's slot has one owner, whatever users, sessions    *)
(* and providers do and when.  As long as nobody stops a turn, ends a      *)
(* session or deletes a conversation, every counted slot has an owner and  *)
(* every turn that generates has something under way that will end it:     *)
(* each run is in one of the Modes, which fixes its members, its place in  *)
(* a queue and its timer, and each handler takes it from one to another.   *)
(***************************************************************************)
EXTENDS ConversationRun, FiniteSetTheorems, SequenceTheorems, WellFoundedInduction, TLAPS

\* g is f but for v at x.
Put(f, g, x, v) ==
  DOMAIN g = DOMAIN f /\ g[x] = v /\ \A y \in DOMAIN f \ {x} : g[y] = f[y]

IsSeq(q) == q \in Seq({q[i] : i \in DOMAIN q})

\* A bucket of the scheduler: its capacity is one, its waiters are runs.
Bucket(st) ==
  /\ DOMAIN st = DOMAIN ProviderState
  /\ st.inFlight \in {0, 1} /\ st.limit = 1
  /\ IsSeq(st.queue) /\ \A i \in DOMAIN st.queue : st.queue[i].waiterId \in Runs

Members(r) ==
  /\ DOMAIN r = DOMAIN NewRun
  /\ {r.held, r.relay} \subseteq Providers \cup {None}
  /\ "memory" \notin Features => r.query = "none"

IsGrant(e, p) == e.k = "grant" /\ e.p = p

Timers(q) ==
  /\ IsSeq(q)
  /\ \A i \in DOMAIN q : q[i].c \in Runs /\ (q[i].k = "grant" => q[i].p \in Providers)

FrameKinds == {"slot", "drain", "tail", "finished", "errored", "dtor"}

Frames(q) ==
  IsSeq(q) /\ \A i \in DOMAIN q : q[i].c \in Runs /\ q[i].k \in FrameKinds

\* What the parts of a state are.
Shape(S) ==
  /\ DOMAIN S = {"run", "states", "wire", "anchor", "posted", "calls"}
  /\ DOMAIN S.run = Runs /\ \A c \in Runs : Members(S.run[c])
  /\ DOMAIN S.states = Providers /\ \A p \in Providers : Bucket(S.states[p])
  /\ Timers(S.posted) /\ Frames(S.calls)

\* A run owns p's slot when it holds it, or is wired to what p answers; of the
\* runs in E only the first counts.
Owns(S, E, c, p) == S.run[c].held = p \/ (c \notin E /\ S.run[c].relay = p)

\* The slot of p is owned by one run, or by one posted grant, or by nobody.
Apart(S, E, p) ==
  /\ \A c, d \in Runs : Owns(S, E, c, p) /\ Owns(S, E, d, p) => c = d
  /\ \A i, j \in DOMAIN S.posted :
       IsGrant(S.posted[i], p) /\ IsGrant(S.posted[j], p) => i = j
  /\ \A c \in Runs, i \in DOMAIN S.posted :
       ~(Owns(S, E, c, p) /\ IsGrant(S.posted[i], p))
  /\ \A c \in Runs : Owns(S, E, c, p) => S.states[p].inFlight = 1
  /\ \A i \in DOMAIN S.posted : IsGrant(S.posted[i], p) => S.states[p].inFlight = 1

Core(S, E) == Shape(S) /\ \A p \in Providers : Apart(S, E, p)

\* The slot of p is counted and nobody owns it yet.
Vacant(S, E, p) ==
  /\ S.states[p].inFlight = 1
  /\ \A c \in Runs : ~Owns(S, E, c, p)
  /\ \A i \in DOMAIN S.posted : ~IsGrant(S.posted[i], p)

\* A late recall may dispatch a run again that is already wired.
Exempt == IF "memory" \in Features THEN Runs ELSE {}

IInv == Core(Sys, Exempt)


---------------------------------------------------------------------------
\* Parts of a state

LEMMA Domains ==
  /\ DOMAIN Sys = {"run", "states", "wire", "anchor", "posted", "calls"}
  /\ DOMAIN ProviderState = {"inFlight", "limit", "queue", "peak"}
  /\ {"alive", "gen", "inflight", "req", "relay", "held", "waiting", "stream",
      "queued", "usingAgent", "exec", "cancelled", "query", "batch", "confirm",
      "verdict", "stopped", "summary", "reactions", "left"} = DOMAIN NewRun
  BY DEF Sys, ProviderState, NewRun

LEMMA MemberFacts ==
  ASSUME NEW r, Members(r)
  PROVE  DOMAIN r = {"alive", "gen", "inflight", "req", "relay", "held", "waiting", "stream",
                     "queued", "usingAgent", "exec", "cancelled", "query", "batch", "confirm",
                     "verdict", "stopped", "summary", "reactions", "left"}
  BY Domains DEF Members

LEMMA ShapeFacts ==
  ASSUME NEW S, Shape(S)
  PROVE  /\ DOMAIN S = {"run", "states", "wire", "anchor", "posted", "calls"}
         /\ DOMAIN S.run = Runs /\ \A c \in Runs : Members(S.run[c])
         /\ \A c \in Runs : {S.run[c].held, S.run[c].relay} \subseteq Providers \cup {None}
         /\ DOMAIN S.states = Providers /\ \A p \in Providers : Bucket(S.states[p])
         /\ Timers(S.posted) /\ IsSeq(S.posted) /\ Frames(S.calls) /\ IsSeq(S.calls)
  BY Domains DEF Shape, Members, Timers, Frames

---------------------------------------------------------------------------
\* Sequences whose elements have no common type

LEMMA FunctionIsSeq ==
  ASSUME NEW n \in Nat, NEW f, f = [i \in 1..n |-> f[i]]
  PROVE  IsSeq(f) /\ Len(f) = n /\ DOMAIN f = 1..n
<1> DEFINE V == {f[i] : i \in DOMAIN f}
<1>1. DOMAIN f = 1..n
  OBVIOUS
<1>2. f \in [1..n -> V]
  BY <1>1
<1> HIDE DEF V
<1>3. f \in Seq(V)
  BY <1>2, SeqDef
<1>4. QED
  BY <1>1, <1>3, LenProperties DEF V, IsSeq

LEMMA SeqIsSeq ==
  ASSUME NEW V, NEW q \in Seq(V)
  PROVE  IsSeq(q)
<1>1. Len(q) \in Nat /\ q \in [1..Len(q) -> V]
  BY LenProperties
<1>2. q = [i \in 1..Len(q) |-> q[i]]
  BY <1>1
<1>3. QED
  BY <1>1, <1>2, FunctionIsSeq

LEMMA SeqFacts ==
  ASSUME NEW q, IsSeq(q)
  PROVE  /\ Len(q) \in Nat /\ DOMAIN q = 1..Len(q)
         /\ q # <<>> => /\ IsSeq(Tail(q)) /\ Len(Tail(q)) = Len(q) - 1 /\ Len(q) \in Nat \ {0}
                        /\ 1 \in DOMAIN q /\ Head(q) = q[1]
                        /\ \A i \in DOMAIN Tail(q) : i + 1 \in DOMAIN q /\ Tail(q)[i] = q[i + 1]
<1> DEFINE V == {q[i] : i \in DOMAIN q}
<1>1. q \in Seq(V)
  BY DEF IsSeq
<1>2. V = {q[i] : i \in DOMAIN q}
  OBVIOUS
<1> HIDE DEF V
<1>3. Len(q) \in Nat /\ DOMAIN q = 1..Len(q)
  BY <1>1, LenProperties
<1>4. ASSUME q # <<>>
      PROVE  /\ IsSeq(Tail(q)) /\ Len(Tail(q)) = Len(q) - 1 /\ Len(q) \in Nat \ {0}
             /\ 1 \in DOMAIN q /\ Head(q) = q[1]
             /\ \A i \in DOMAIN Tail(q) : i + 1 \in DOMAIN q /\ Tail(q)[i] = q[i + 1]
  <2>1. /\ Tail(q) \in Seq(V) /\ Len(Tail(q)) = Len(q) - 1 /\ Head(q) = q[1]
        /\ \A i \in 1..Len(Tail(q)) : Tail(q)[i] = q[i + 1]
    BY <1>1, <1>4, HeadTailProperties
  <2>2. Len(q) # 0
    BY <1>1, <1>4, EmptySeq
  <2>3. DOMAIN Tail(q) = 1..Len(Tail(q))
    BY <2>1, LenProperties
  <2>4. IsSeq(Tail(q))
    BY <2>1, SeqIsSeq
  <2>5. QED
    BY <1>3, <2>1, <2>2, <2>3, <2>4
<1>5. QED
  BY <1>3, <1>4

LEMMA AppendFacts ==
  ASSUME NEW q, IsSeq(q), NEW e
  PROVE  LET r == Append(q, e)
         IN  /\ IsSeq(r) /\ DOMAIN r = 1..(Len(q) + 1) /\ r[Len(q) + 1] = e
             /\ \A i \in DOMAIN q : r[i] = q[i] /\ i \in DOMAIN r
<1> DEFINE V == {q[i] : i \in DOMAIN q} \cup {e}
           r == Append(q, e)
<1>1. q \in Seq(V)
  <2> DEFINE U == {q[i] : i \in DOMAIN q}
  <2>1. q \in Seq(U) /\ U \subseteq V
    BY DEF IsSeq
  <2> HIDE DEF U, V
  <2>2. QED
    BY <2>1, SeqDef
<1>2. e \in V
  OBVIOUS
<1> HIDE DEF V
<1>3. /\ r \in Seq(V) /\ Len(r) = Len(q) + 1 /\ r[Len(q) + 1] = e
      /\ \A i \in 1..Len(q) : r[i] = q[i]
  BY <1>1, <1>2, AppendProperties
<1>4. DOMAIN q = 1..Len(q) /\ DOMAIN r = 1..Len(r) /\ Len(q) \in Nat
  BY <1>1, <1>3, LenProperties
<1> HIDE DEF r
<1>5. IsSeq(r)
  BY <1>3, SeqIsSeq
<1>6. QED
  BY <1>3, <1>4, <1>5 DEF r

LEMMA ConcatFacts ==
  ASSUME NEW q, IsSeq(q), NEW r, IsSeq(r)
  PROVE  /\ IsSeq(q \o r)
         /\ \A i \in DOMAIN (q \o r) : \/ i \in DOMAIN q /\ (q \o r)[i] = q[i]
                                       \/ i - Len(q) \in DOMAIN r /\ (q \o r)[i] = r[i - Len(q)]
<1> DEFINE U == {q[i] : i \in DOMAIN q}
           W == {r[i] : i \in DOMAIN r}
           V == U \cup W
<1>1. q \in Seq(U) /\ r \in Seq(W)
  BY DEF IsSeq
<1>2. U \subseteq V /\ W \subseteq V
  OBVIOUS
<1> HIDE DEF U, V, W
<1>3. q \in Seq(V) /\ r \in Seq(V)
  BY <1>1, <1>2, SeqDef
<1>4. IsSeq(q \o r)
  BY <1>3, ConcatProperties, SeqIsSeq
<1>5. /\ DOMAIN q = 1..Len(q) /\ DOMAIN r = 1..Len(r) /\ Len(q) \in Nat /\ Len(r) \in Nat
      /\ DOMAIN (q \o r) = 1..(Len(q) + Len(r))
      /\ \A i \in 1..(Len(q) + Len(r)) :
           (q \o r)[i] = IF i <= Len(q) THEN q[i] ELSE r[i - Len(q)]
  BY <1>3, LenProperties, ConcatProperties
<1>6. QED
  BY <1>4, <1>5

---------------------------------------------------------------------------
\* The scheduler's operators on a bucket

LEMMA BucketFacts ==
  ASSUME NEW st, Bucket(st)
  PROVE  /\ DOMAIN st = {"inFlight", "limit", "queue", "peak"}
         /\ st.inFlight \in {0, 1} /\ st.limit = 1 /\ IsSeq(st.queue)
         /\ Len(st.queue) \in Nat /\ DOMAIN st.queue = 1..Len(st.queue)
  BY Domains, SeqFacts DEF Bucket

LEMMA PeakFacts ==
  ASSUME NEW st, Bucket(st)
  PROVE  Bucket(recordPeak(st)) /\ recordPeak(st).inFlight = st.inFlight
<1>1. recordPeak(st).inFlight = st.inFlight /\ recordPeak(st).limit = st.limit
      /\ recordPeak(st).queue = st.queue /\ DOMAIN recordPeak(st) = DOMAIN st
  BY BucketFacts DEF recordPeak
<1>2. QED
  BY <1>1 DEF Bucket

\* A queue without its head.
LEMMA TailOfWaiters ==
  ASSUME NEW st, Bucket(st), st.queue # <<>>
  PROVE  /\ IsSeq(Tail(st.queue))
         /\ \A i \in DOMAIN Tail(st.queue) : Tail(st.queue)[i].waiterId \in Runs
         /\ Head(st.queue).waiterId \in Runs
<1>1. IsSeq(st.queue) /\ \A i \in DOMAIN st.queue : st.queue[i].waiterId \in Runs
  BY DEF Bucket
<1>2. QED
  BY <1>1, SeqFacts

LEMMA ReleaseFacts ==
  ASSUME NEW st, Bucket(st), st.inFlight = 1
  PROVE  /\ Bucket(release(st))
         /\ GrantsOnRelease(st) <=> st.queue # <<>>
         /\ st.queue # <<>> => release(st).inFlight = 1
         /\ st.queue = <<>> => release(st).inFlight = 0
<1>1. GrantsOnRelease(st) <=> st.queue # <<>>
  BY DEF GrantsOnRelease
<1>2. CASE st.queue # <<>>
  <2> DEFINE d == [st EXCEPT !.inFlight = @ - 1]
             u == [d EXCEPT !.inFlight = @ + 1, !.queue = Tail(@)]
  <2>1. release(st) = recordPeak(u)
    BY <1>1, <1>2 DEF release, grantHead
  <2>2. DOMAIN d = DOMAIN st /\ d.inFlight = 0 /\ d.queue = st.queue /\ d.limit = st.limit
    BY BucketFacts
  <2> HIDE DEF d
  <2>3. DOMAIN u = DOMAIN st /\ u.inFlight = 1 /\ u.queue = Tail(st.queue) /\ u.limit = st.limit
    BY <2>2, BucketFacts
  <2> HIDE DEF u
  <2>4. Bucket(u)
    BY <1>2, <2>3, TailOfWaiters DEF Bucket
  <2>5. QED
    BY <1>1, <1>2, <2>1, <2>3, <2>4, PeakFacts
<1>3. CASE st.queue = <<>>
  <2> DEFINE u == [st EXCEPT !.inFlight = @ - 1]
  <2>1. release(st) = u
    BY <1>1, <1>3 DEF release
  <2>2. DOMAIN u = DOMAIN st /\ u.inFlight = 0 /\ u.queue = st.queue /\ u.limit = st.limit
    BY BucketFacts
  <2> HIDE DEF u
  <2>3. Bucket(u)
    BY <2>2 DEF Bucket
  <2>4. QED
    BY <1>1, <1>3, <2>1, <2>2, <2>3
<1>4. QED
  BY <1>2, <1>3

\* A slot is granted exactly when none is in flight.
LEMMA AcquireFacts ==
  ASSUME NEW st, Bucket(st), NEW w \in Runs, NEW cb
  PROVE  LET a == acquire(st, w, cb)
         IN  /\ Bucket(a.st) /\ a.st.inFlight = 1
             /\ a.granted => st.inFlight = 0
<1> DEFINE a == acquire(st, w, cb)
<1>0. st.inFlight \in {0, 1} /\ st.limit = 1
      /\ IsSeq(st.queue) /\ \A i \in DOMAIN st.queue : st.queue[i].waiterId \in Runs
  BY DEF Bucket
<1>1. CASE st.inFlight = 0
  <2> DEFINE u == [st EXCEPT !.inFlight = @ + 1]
  <2>1. a.st = recordPeak(u)
    BY <1>0, <1>1 DEF acquire
  <2>2. DOMAIN u = DOMAIN st /\ u.inFlight = 1 /\ u.queue = st.queue /\ u.limit = st.limit
    BY <1>1, BucketFacts
  <2> HIDE DEF a, u
  <2>3. Bucket(u)
    BY <2>2 DEF Bucket
  <2>4. QED
    BY <1>1, <2>1, <2>2, <2>3, PeakFacts DEF a
<1>2. CASE st.inFlight = 1
  <2> DEFINE e == [waiterId |-> w, onGranted |-> cb]
             q == Append(st.queue, e)
             u == [st EXCEPT !.queue = Append(@, e)]
  <2>1. ~a.granted /\ (a.st = st \/ a.st = u)
    BY <1>0, <1>2 DEF acquire
  <2>2. DOMAIN u = DOMAIN st /\ u.inFlight = st.inFlight /\ u.queue = q /\ u.limit = st.limit
    BY BucketFacts
  <2> HIDE DEF u
  <2>3. IsSeq(q) /\ \A i \in DOMAIN q : q[i].waiterId \in Runs
    <3>1. e.waiterId \in Runs
      OBVIOUS
    <3> HIDE DEF e
    <3>2. IsSeq(q) /\ DOMAIN q = 1..(Len(st.queue) + 1) /\ q[Len(st.queue) + 1] = e
          /\ \A i \in DOMAIN st.queue : q[i] = st.queue[i]
      BY <1>0, AppendFacts
    <3>3. \A i \in DOMAIN q : i \in DOMAIN st.queue \/ i = Len(st.queue) + 1
      BY <1>0, <3>2, SeqFacts
    <3>4. QED
      BY <1>0, <3>1, <3>2, <3>3
  <2> HIDE DEF a, q
  <2>4. Bucket(u)
    BY <2>2, <2>3 DEF Bucket
  <2>5. QED
    BY <1>2, <2>1, <2>2, <2>4 DEF a
<1>3. QED
  BY <1>0, <1>1, <1>2

\* A cancelled waiter leaves the count alone.
LEMMA CancelFacts ==
  ASSUME NEW st, Bucket(st), NEW w
  PROVE  Bucket(cancel(st, w)) /\ cancel(st, w).inFlight = st.inFlight
<1> DEFINE i == QueueIndex(st.queue, w)
           n == Len(st.queue)
           q == [j \in 1..(n - 1) |-> IF j < i THEN st.queue[j] ELSE st.queue[j + 1]]
           u == [st EXCEPT !.queue = q]
<1>0. IsSeq(st.queue) /\ \A j \in DOMAIN st.queue : st.queue[j].waiterId \in Runs
      /\ st.inFlight \in {0, 1}
  BY DEF Bucket
<1>1. CASE i = 0
  BY <1>1 DEF cancel
<1>2. CASE i # 0
  <2>1. i \in DOMAIN st.queue /\ n \in Nat /\ DOMAIN st.queue = 1..n
    BY <1>0, <1>2, SeqFacts DEF QueueIndex
  <2> HIDE DEF i
  <2>2. n - 1 \in Nat
    BY <2>1
  <2>3. \A j \in 1..(n - 1) : q[j] = st.queue[j] \/ q[j] = st.queue[j + 1]
    OBVIOUS
  <2>4. IsSeq(q) /\ DOMAIN q = 1..(n - 1)
    BY <2>2, FunctionIsSeq
  <2>5. cancel(st, w) = u
    BY <1>2 DEF cancel, i
  <2>6. DOMAIN u = DOMAIN st /\ u.inFlight = st.inFlight /\ u.queue = q /\ u.limit = st.limit
    BY BucketFacts
  <2> HIDE DEF q, u
  <2>7. \A j \in DOMAIN q : q[j].waiterId \in Runs
    <3> SUFFICES ASSUME NEW j \in 1..(n - 1) PROVE q[j].waiterId \in Runs
      BY <2>4
    <3>1. j \in DOMAIN st.queue /\ j + 1 \in DOMAIN st.queue
      BY <2>1
    <3>2. QED
      BY <1>0, <2>3, <3>1
  <2>8. QED
    BY <2>4, <2>5, <2>6, <2>7 DEF Bucket
<1>3. QED
  BY <1>1, <1>2


---------------------------------------------------------------------------
\* Owners of a slot

\* Fewer runs own it.
LEMMA ApartFewer ==
  ASSUME NEW S, NEW E, NEW p, Apart(S, E, p), NEW T, NEW F,
         T.posted = S.posted, T.states[p].inFlight = S.states[p].inFlight,
         \A c \in Runs : Owns(T, F, c, p) => Owns(S, E, c, p)
  PROVE  Apart(T, F, p)
  BY DEF Apart

\* A run takes a slot nobody owns.
LEMMA ApartTaken ==
  ASSUME NEW S, NEW E, NEW p, Vacant(S, E, p), NEW T, NEW c,
         T.posted = S.posted, T.states[p].inFlight = S.states[p].inFlight,
         \A d \in Runs : Owns(T, E, d, p) => d = c \/ Owns(S, E, d, p)
  PROVE  Apart(T, E, p)
  BY DEF Apart, Vacant

\* The members of one run change; it may let its slot go.
LEMMA PutRun ==
  ASSUME NEW S, Shape(S), NEW c \in Runs, NEW r, Members(r), NEW T,
         DOMAIN T = DOMAIN S, Put(S.run, T.run, c, r),
         T.states = S.states, T.posted = S.posted, T.calls = S.calls
  PROVE  Shape(T) /\ T.run[c] = r /\ \A d \in Runs \ {c} : T.run[d] = S.run[d]
<1>1. DOMAIN T.run = Runs /\ T.run[c] = r /\ \A d \in Runs \ {c} : T.run[d] = S.run[d]
  BY ShapeFacts DEF Put
<1>2. \A d \in Runs : Members(T.run[d])
  BY <1>1 DEF Shape
<1>3. QED
  BY <1>1, <1>2 DEF Shape

LEMMA PutRunCore ==
  ASSUME NEW E, NEW S, Core(S, E), NEW c \in Runs, NEW r, Members(r),
         r.held \in {S.run[c].held, None}, r.relay \in {S.run[c].relay, r.held, None}, NEW T,
         DOMAIN T = DOMAIN S, Put(S.run, T.run, c, r),
         T.states = S.states, T.posted = S.posted, T.calls = S.calls
  PROVE  /\ Core(T, E) /\ T.run[c] = r
         /\ \A p \in Providers : Vacant(S, E, p) => Vacant(T, E, p)
<1>0. Shape(S)
  BY DEF Core
<1>1. Shape(T) /\ T.run[c] = r /\ \A d \in Runs \ {c} : T.run[d] = S.run[d]
  BY <1>0, PutRun
<1>2. \A p \in Providers, d \in Runs : Owns(T, E, d, p) => Owns(S, E, d, p)
  BY <1>1, RunsAssumption DEF Owns
<1>3. \A p \in Providers : Apart(T, E, p)
  BY <1>2, ApartFewer DEF Core
<1>4. \A p \in Providers : Vacant(S, E, p) => Vacant(T, E, p)
  BY <1>2 DEF Vacant
<1>5. QED
  BY <1>1, <1>3, <1>4 DEF Core

\* The relay of a run no longer has to be disregarded.
LEMMA RestoreCore ==
  ASSUME NEW E, NEW S, NEW c \in Runs, Core(S, E \cup {c}), NEW r, Members(r),
         r.held \in {S.run[c].held, None}, r.relay \in {r.held, None}, NEW T,
         DOMAIN T = DOMAIN S, Put(S.run, T.run, c, r),
         T.states = S.states, T.posted = S.posted, T.calls = S.calls
  PROVE  Core(T, E) /\ T.run[c] = r
<1>0. Shape(S)
  BY DEF Core
<1>1. Shape(T) /\ T.run[c] = r /\ \A d \in Runs \ {c} : T.run[d] = S.run[d]
  BY <1>0, PutRun
<1>2. \A p \in Providers, d \in Runs : Owns(T, E, d, p) => Owns(S, E \cup {c}, d, p)
  BY <1>1, RunsAssumption DEF Owns
<1>3. \A p \in Providers : Apart(T, E, p)
  BY <1>2, ApartFewer DEF Core
<1>4. QED
  BY <1>1, <1>3 DEF Core

LEMMA DisregardCore ==
  ASSUME NEW E, NEW S, Core(S, E), NEW c
  PROVE  Core(S, E \cup {c})
<1>1. \A p \in Providers, d \in Runs : Owns(S, E \cup {c}, d, p) => Owns(S, E, d, p)
  BY DEF Owns
<1>2. QED
  BY <1>1, ApartFewer DEF Core

\* A run takes a vacant slot.
LEMMA TakeCore ==
  ASSUME NEW E, NEW S, Core(S, E), NEW c \in Runs, NEW p \in Providers, Vacant(S, E, p),
         NEW r, Members(r), r.held = p, r.relay \in {S.run[c].relay, p, None}, NEW T,
         DOMAIN T = DOMAIN S, Put(S.run, T.run, c, r),
         T.states = S.states, T.posted = S.posted, T.calls = S.calls
  PROVE  Core(T, E) /\ T.run[c] = r
<1>0. Shape(S)
  BY DEF Core
<1>1. Shape(T) /\ T.run[c] = r /\ \A d \in Runs \ {c} : T.run[d] = S.run[d]
  BY <1>0, PutRun
<1>2. \A q \in Providers \ {p}, d \in Runs : Owns(T, E, d, q) => Owns(S, E, d, q)
  BY <1>1, RunsAssumption DEF Owns
<1>3. \A q \in Providers \ {p} : Apart(T, E, q)
  BY <1>2, ApartFewer DEF Core
<1>4. \A d \in Runs : Owns(T, E, d, p) => d = c \/ Owns(S, E, d, p)
  BY <1>1 DEF Owns
<1>5. Apart(T, E, p)
  BY <1>4, ApartTaken
<1>6. QED
  BY <1>1, <1>3, <1>5 DEF Core

\* Neither runs, buckets, timers nor calls change.
LEMMA SameCore ==
  ASSUME NEW E, NEW S, Core(S, E), NEW T, DOMAIN T = DOMAIN S, T.run = S.run,
         T.states = S.states, T.posted = S.posted, T.calls = S.calls
  PROVE  /\ Core(T, E)
         /\ \A p \in Providers : Vacant(S, E, p) => Vacant(T, E, p)
  BY DEF Core, Shape, Apart, Vacant, Owns

LEMMA CallsCore ==
  ASSUME NEW E, NEW S, Core(S, E), NEW T, DOMAIN T = DOMAIN S, T.run = S.run,
         T.states = S.states, T.posted = S.posted, Frames(T.calls)
  PROVE  Core(T, E)
  BY DEF Core, Shape, Apart, Owns

\* q with one more element.
Longer(q, r, e) == r = Append(q, e)

LEMMA PostFacts ==
  ASSUME NEW q, Timers(q), NEW e, e.c \in Runs, e.k = "grant" => e.p \in Providers,
         NEW r, Longer(q, r, e)
  PROVE  /\ Timers(r)
         /\ \A i \in DOMAIN r :
              \/ i \in DOMAIN q /\ r[i] = q[i]
              \/ i = Len(q) + 1 /\ r[i] = e
<1>1. IsSeq(q) /\ DOMAIN q = 1..Len(q) /\ Len(q) \in Nat
  BY SeqFacts DEF Timers
<1>2. /\ IsSeq(r) /\ DOMAIN r = 1..(Len(q) + 1) /\ r[Len(q) + 1] = e
      /\ \A i \in DOMAIN q : r[i] = q[i] /\ i \in DOMAIN r
  BY <1>1, AppendFacts DEF Longer
<1>3. \A i \in DOMAIN r : i \in DOMAIN q \/ i = Len(q) + 1
  BY <1>1, <1>2
<1>4. Timers(r)
  BY <1>2, <1>3 DEF Timers
<1>5. QED
  BY <1>2, <1>3, <1>4

\* A timer is posted.
LEMMA PostCore ==
  ASSUME NEW E, NEW S, Core(S, E), NEW e, e.c \in Runs, e.k # "grant", NEW T,
         DOMAIN T = DOMAIN S, T.run = S.run, T.states = S.states, T.calls = S.calls,
         T.posted = Append(S.posted, e)
  PROVE  Core(T, E)
<1>1. IsSeq(S.posted) /\ Timers(S.posted) /\ DOMAIN S.posted = 1..Len(S.posted)
      /\ Len(S.posted) \in Nat
  BY ShapeFacts, SeqFacts DEF Core
<1>2. /\ IsSeq(T.posted) /\ DOMAIN T.posted = 1..(Len(S.posted) + 1)
      /\ T.posted[Len(S.posted) + 1] = e
      /\ \A i \in DOMAIN S.posted : T.posted[i] = S.posted[i] /\ i \in DOMAIN T.posted
  BY <1>1, AppendFacts
<1>3. \A i \in DOMAIN T.posted : T.posted[i].k = "grant" =>
        i \in DOMAIN S.posted /\ T.posted[i] = S.posted[i]
  BY <1>1, <1>2
<1>4. \A i \in DOMAIN T.posted : i \in DOMAIN S.posted \/ i = Len(S.posted) + 1
  BY <1>1, <1>2
<1>5. Timers(T.posted)
  BY <1>1, <1>2, <1>3, <1>4 DEF Timers
<1>6. Shape(T)
  BY <1>5 DEF Core, Shape
<1>7. ASSUME NEW p \in Providers PROVE Apart(T, E, p)
  <2>1. Apart(S, E, p)
    BY DEF Core
  <2>2. \A c \in Runs : Owns(T, E, c, p) <=> Owns(S, E, c, p)
    BY DEF Owns
  <2>3. \A i \in DOMAIN T.posted : IsGrant(T.posted[i], p) =>
          i \in DOMAIN S.posted /\ IsGrant(S.posted[i], p)
    BY <1>3 DEF IsGrant
  <2>4. QED
    BY <2>1, <2>2, <2>3 DEF Apart
<1>8. QED
  BY <1>6, <1>7 DEF Core


\* A bucket changes and its slot's owners stay.
LEMMA PutBucket ==
  ASSUME NEW S, Shape(S), NEW p \in Providers, NEW st, Bucket(st), NEW T,
         DOMAIN T = DOMAIN S, Put(S.states, T.states, p, st),
         T.run = S.run, T.posted = S.posted, T.calls = S.calls
  PROVE  Shape(T) /\ T.states[p] = st /\ \A q \in Providers \ {p} : T.states[q] = S.states[q]
<1>1. DOMAIN T.states = Providers /\ T.states[p] = st
      /\ \A q \in Providers \ {p} : T.states[q] = S.states[q]
  BY ShapeFacts DEF Put
<1>2. \A q \in Providers : Bucket(T.states[q])
  BY <1>1 DEF Shape
<1>3. QED
  BY <1>1, <1>2 DEF Shape

\* A run acquires: a slot it is granted is nobody's yet.
LEMMA AcquireCore ==
  ASSUME NEW E, NEW S, Core(S, E), NEW c \in Runs, NEW p \in Providers, NEW cb, NEW T,
         DOMAIN T = DOMAIN S, T.run = S.run, T.posted = S.posted, T.calls = S.calls,
         Put(S.states, T.states, p, acquire(S.states[p], c, cb).st)
  PROVE  /\ Core(T, E)
         /\ acquire(S.states[p], c, cb).granted => Vacant(T, E, p)
<1> DEFINE a == acquire(S.states[p], c, cb)
<1>0. Shape(S) /\ Bucket(S.states[p])
  BY DEF Core, Shape
<1>1. Bucket(a.st) /\ a.st.inFlight = 1 /\ (a.granted => S.states[p].inFlight = 0)
  BY <1>0, AcquireFacts
<1>2. Put(S.states, T.states, p, a.st)
  OBVIOUS
<1> HIDE DEF a
<1>3. Shape(T) /\ T.states[p] = a.st /\ \A q \in Providers \ {p} : T.states[q] = S.states[q]
  BY <1>0, <1>1, <1>2, PutBucket
<1>4. \A q \in Providers, d \in Runs : Owns(T, E, d, q) <=> Owns(S, E, d, q)
  BY DEF Owns
<1>5. \A q \in Providers \ {p} : Apart(T, E, q)
  BY <1>3, <1>4, ApartFewer DEF Core
<1>6. Apart(S, E, p)
  BY DEF Core
<1>7. Apart(T, E, p)
  BY <1>1, <1>3, <1>4, <1>6 DEF Apart
<1>8. ASSUME a.granted PROVE Vacant(T, E, p)
  <2>1. S.states[p].inFlight = 0 /\ T.states[p].inFlight = 1
    BY <1>1, <1>3, <1>8
  <2>2. QED
    BY <1>4, <1>6, <2>1 DEF Apart, Vacant
<1>9. QED
  BY <1>3, <1>5, <1>7, <1>8 DEF Core, a

\* The slot a run holds is given back: to the queue's head, as a posted grant,
\* or to nobody.
LEMMA GiveBack ==
  ASSUME NEW E, NEW S, Core(S, E), NEW c \in Runs, NEW p \in Providers, S.run[c].held = p,
         c \in E \/ S.run[c].relay # p, NEW T, DOMAIN T = DOMAIN S,
         NEW r, Members(r), r.held = None, r.relay = S.run[c].relay,
         Put(S.run, T.run, c, r), Put(S.states, T.states, p, release(S.states[p])),
         T.posted = IF GrantsOnRelease(S.states[p])
                    THEN Append(S.posted, Grant(p, Head(S.states[p].queue)))
                    ELSE S.posted,
         T.calls = S.calls
  PROVE  Core(T, E) /\ T.run[c] = r
<1> DEFINE st == S.states[p]
           g == Grant(p, Head(st.queue))
           U == [S EXCEPT !.run = T.run]
           V == [U EXCEPT !.states = T.states]
<1>0. Shape(S) /\ Apart(S, E, p) /\ Bucket(st) /\ Members(S.run[c])
  BY DEF Core, Shape
<1>1. st.inFlight = 1
  BY <1>0 DEF Apart, Owns
<1>2. /\ Bucket(release(st)) /\ (GrantsOnRelease(st) <=> st.queue # <<>>)
      /\ st.queue # <<>> => release(st).inFlight = 1
      /\ st.queue = <<>> => release(st).inFlight = 0
  BY <1>0, <1>1, ReleaseFacts
<1>4. /\ Put(S.states, T.states, p, release(st))
      /\ T.posted = IF GrantsOnRelease(st) THEN Append(S.posted, g) ELSE S.posted
  OBVIOUS
<1>5. g.k = "grant" /\ g.p = p /\ g.c = Head(st.queue).waiterId
  BY DEF Grant
<1>6. st.queue # <<>> => g.c \in Runs
  BY <1>0, <1>5, TailOfWaiters
<1>7. p \in Providers /\ (c \in E \/ S.run[c].relay # p)
  OBVIOUS
<1> HIDE DEF st, g
<1>8. /\ DOMAIN U = DOMAIN S /\ U.run = T.run /\ U.states = S.states
      /\ U.posted = S.posted /\ U.calls = S.calls
      /\ DOMAIN V = DOMAIN S /\ V.run = U.run /\ V.states = T.states
      /\ V.posted = S.posted /\ V.calls = S.calls
  BY <1>0, ShapeFacts
<1> HIDE DEF U, V
<1>9. Shape(U) /\ U.run[c] = r /\ \A d \in Runs \ {c} : U.run[d] = S.run[d]
  BY <1>0, <1>8, PutRun
<1>10. /\ Shape(V) /\ V.states[p] = release(st)
       /\ \A q \in Providers \ {p} : V.states[q] = S.states[q]
  BY <1>2, <1>4, <1>7, <1>8, <1>9, PutBucket
<1>11. T.run = V.run /\ T.states = V.states /\ T.calls = V.calls
  BY <1>4, <1>8
<1>12. IsSeq(S.posted) /\ Timers(S.posted) /\ DOMAIN S.posted = 1..Len(S.posted)
       /\ Len(S.posted) \in Nat
  BY <1>0, ShapeFacts, SeqFacts
<1>13. /\ Timers(T.posted)
       /\ \A i \in DOMAIN T.posted :
            \/ i \in DOMAIN S.posted /\ T.posted[i] = S.posted[i]
            \/ st.queue # <<>> /\ i = Len(S.posted) + 1 /\ T.posted[i] = g
  <2>1. CASE GrantsOnRelease(st)
    <3>1. T.posted = Append(S.posted, g) /\ st.queue # <<>>
      BY <1>2, <1>4, <2>1
    <3>2. Timers(S.posted) /\ g.c \in Runs /\ g.p \in Providers
      BY <1>5, <1>6, <1>7, <1>12, <3>1
    <3> DEFINE q == S.posted
               t == T.posted
    <3>3. Longer(q, t, g) /\ Timers(q)
      BY <3>1, <3>2 DEF Longer
    <3> HIDE DEF q, t
    <3>4. /\ Timers(t)
          /\ \A i \in DOMAIN t :
               \/ i \in DOMAIN q /\ t[i] = q[i]
               \/ i = Len(q) + 1 /\ t[i] = g
      BY ONLY <3>2, <3>3, PostFacts
    <3>5. QED
      BY <3>1, <3>4 DEF q, t
  <2>2. CASE ~GrantsOnRelease(st)
    BY <1>4, <1>12, <2>2
  <2>3. QED
    BY <2>1, <2>2
<1>14. Shape(T)
  BY <1>10, <1>11, <1>13, <1>8 DEF Shape
<1>15. T.run[c] = r /\ \A d \in Runs \ {c} : T.run[d] = S.run[d]
  BY <1>8, <1>9, <1>11
<1>16. \A q \in Providers, d \in Runs :
         Owns(T, E, d, q) => Owns(S, E, d, q) /\ (d = c => q # p)
  BY <1>7, <1>15, RunsAssumption DEF Owns
<1>17. ASSUME NEW q \in Providers \ {p} PROVE Apart(T, E, q)
  <2>1. T.states[q] = S.states[q]
    BY <1>10, <1>11
  <2>2. \A i \in DOMAIN T.posted : IsGrant(T.posted[i], q) =>
          i \in DOMAIN S.posted /\ IsGrant(S.posted[i], q)
    BY <1>5, <1>13 DEF IsGrant
  <2>3. Apart(S, E, q)
    BY DEF Core
  <2>4. QED
    BY <1>16, <2>1, <2>2, <2>3 DEF Apart
<1>18. Apart(T, E, p)
  <2>1. \A d \in Runs : ~Owns(T, E, d, p)
    <3>1. Owns(S, E, c, p)
      BY DEF Owns
    <3>2. QED
      BY <1>0, <1>7, <1>16, <3>1 DEF Apart
  <2>2. \A i \in DOMAIN S.posted : ~IsGrant(S.posted[i], p)
    <3>1. Owns(S, E, c, p)
      BY DEF Owns
    <3>2. QED
      BY <1>0, <3>1 DEF Apart
  <2>3. \A i \in DOMAIN T.posted : IsGrant(T.posted[i], p) =>
          i = Len(S.posted) + 1 /\ st.queue # <<>>
    BY <1>13, <2>2
  <2>4. st.queue # <<>> => T.states[p].inFlight = 1
    BY <1>2, <1>10, <1>11
  <2>5. QED
    BY <2>1, <2>3, <2>4 DEF Apart
<1>19. QED
  BY <1>14, <1>15, <1>17, <1>18 DEF Core


---------------------------------------------------------------------------
\* What the handlers keep

Edit(S, c, r) == [S EXCEPT !.run[c] = r]

LEMMA EditFacts ==
  ASSUME NEW S, Shape(S), NEW c \in Runs, NEW r
  PROVE  LET T == Edit(S, c, r)
         IN  /\ DOMAIN T = DOMAIN S /\ Put(S.run, T.run, c, r) /\ T.run[c] = r
             /\ T.states = S.states /\ T.posted = S.posted /\ T.calls = S.calls
  BY ShapeFacts DEF Edit, Put

\* The members of one run are set, its slot kept or let go.
LEMMA EditCore ==
  ASSUME NEW E, NEW S, Core(S, E), NEW c \in Runs, NEW r, Members(r),
         r.held \in {S.run[c].held, None}, r.relay \in {S.run[c].relay, r.held, None}
  PROVE  /\ Core(Edit(S, c, r), E)
         /\ \A p \in Providers : Vacant(S, E, p) => Vacant(Edit(S, c, r), E, p)
<1>1. Shape(S)
  BY DEF Core
<1>2. QED
  BY <1>1, EditFacts, PutRunCore

LEMMA ReleaseCore ==
  ASSUME NEW E, NEW S, Core(S, E), NEW c \in Runs,
         c \in E \/ S.run[c].relay = None \/ S.run[c].relay # S.run[c].held
  PROVE  LET T == releaseProviderSlotIfHeld(S, c)
         IN  /\ Core(T, E) /\ T.run[c].held = None /\ T.run[c].relay = S.run[c].relay
             /\ T.run[c].usingAgent = S.run[c].usingAgent
             /\ T.calls = S.calls
<1> DEFINE p == S.run[c].held
           T == releaseProviderSlotIfHeld(S, c)
           r == [S.run[c] EXCEPT !.held = None]
<1>0. Shape(S) /\ Members(S.run[c]) /\ p \in Providers \cup {None}
  BY ShapeFacts DEF Core
<1>1. CASE p = None
  BY <1>1 DEF releaseProviderSlotIfHeld
<1>2. CASE p # None
  <2>1. Members(r) /\ r.held = None /\ r.relay = S.run[c].relay
        /\ r.usingAgent = S.run[c].usingAgent
    BY <1>0, MemberFacts DEF Members
  <2>2. /\ DOMAIN T = DOMAIN S /\ T.calls = S.calls
        /\ Put(S.run, T.run, c, r) /\ Put(S.states, T.states, p, release(S.states[p]))
        /\ T.posted = IF GrantsOnRelease(S.states[p])
                      THEN Append(S.posted, Grant(p, Head(S.states[p].queue)))
                      ELSE S.posted
    BY <1>0, <1>2, ShapeFacts DEF releaseProviderSlotIfHeld, Put
  <2> HIDE DEF r, T
  <2>3. p \in Providers /\ (c \in E \/ S.run[c].relay # p) /\ S.run[c].held = p
    BY <1>0, <1>2
  <2> HIDE DEF p
  <2>4. Core(T, E) /\ T.run[c] = r
    BY <2>1, <2>2, <2>3, GiveBack
  <2>5. QED
    BY <2>1, <2>2, <2>4 DEF T, p
<1>3. QED
  BY <1>1, <1>2

LEMMA CancelWaiterCore ==
  ASSUME NEW E, NEW S, Core(S, E), NEW c \in Runs
  PROVE  LET T == cancelQueuedSchedulerWaiter(S, c)
         IN  /\ Core(T, E) /\ T.run[c].relay = S.run[c].relay /\ T.calls = S.calls
             /\ T.run[c].usingAgent = S.run[c].usingAgent
<1> DEFINE T == cancelQueuedSchedulerWaiter(S, c)
           r == [S.run[c] EXCEPT !.waiting = None]
           U == Edit(S, c, r)
<1>0. Shape(S) /\ Members(S.run[c])
  BY ShapeFacts DEF Core
<1>1. CASE S.run[c].waiting = None
  BY <1>1 DEF cancelQueuedSchedulerWaiter
<1>2. CASE S.run[c].waiting # None
  <2>1. Members(r) /\ r.held = S.run[c].held /\ r.relay = S.run[c].relay
        /\ r.usingAgent = S.run[c].usingAgent
    BY <1>0, MemberFacts DEF Members
  <2>2. DOMAIN T = DOMAIN U /\ T.run = U.run /\ T.posted = U.posted /\ T.calls = U.calls
        /\ T.states = [p \in Providers |-> cancel(S.states[p], c)]
    BY <1>0, <1>2, ShapeFacts DEF cancelQueuedSchedulerWaiter, Edit
  <2> HIDE DEF r, T
  <2>3. Core(U, E)
    BY <2>1, EditCore
  <2>4. U.run[c] = r /\ U.states = S.states /\ U.calls = S.calls
    BY <1>0, EditFacts
  <2> HIDE DEF U
  <2>5. \A p \in Providers : Bucket(T.states[p]) /\ T.states[p].inFlight = U.states[p].inFlight
    BY <1>0, <2>2, <2>4, CancelFacts, ShapeFacts
  <2>6. Shape(T)
    BY <2>2, <2>3, <2>5 DEF Core, Shape
  <2>7. \A p \in Providers, d \in Runs : Owns(T, E, d, p) <=> Owns(U, E, d, p)
    BY <2>2 DEF Owns
  <2>8. \A p \in Providers : Apart(T, E, p)
    BY <2>2, <2>3, <2>5, <2>7, ApartFewer DEF Core
  <2>9. QED
    BY <2>1, <2>2, <2>4, <2>6, <2>8 DEF Core, T
<1>3. QED
  BY <1>1, <1>2

LEMMA PushCore ==
  ASSUME NEW E, NEW S, Core(S, E), NEW frames, Frames(frames)
  PROVE  LET T == Push(S, frames)
         IN  /\ Core(T, E) /\ T.run = S.run /\ T.states = S.states /\ T.posted = S.posted
             /\ T.calls = frames \o S.calls /\ DOMAIN T = DOMAIN S
<1> DEFINE T == Push(S, frames)
<1>1. Shape(S) /\ Frames(S.calls)
  BY DEF Core, Shape
<1>2. /\ DOMAIN T = DOMAIN S /\ T.run = S.run /\ T.states = S.states /\ T.posted = S.posted
      /\ T.calls = frames \o S.calls
  BY <1>1, ShapeFacts DEF Push
<1>3. Frames(frames \o S.calls)
  <2>1. IsSeq(frames) /\ IsSeq(S.calls)
    BY <1>1 DEF Frames
  <2> DEFINE q == frames \o S.calls
  <2>2. /\ IsSeq(q)
        /\ \A i \in DOMAIN q : \/ i \in DOMAIN frames /\ q[i] = frames[i]
                               \/ i - Len(frames) \in DOMAIN S.calls
                                  /\ q[i] = S.calls[i - Len(frames)]
    BY <2>1, ConcatFacts
  <2> HIDE DEF q
  <2>3. Frames(q)
    BY <1>1, <2>2 DEF Frames
  <2>4. QED
    BY <2>3 DEF q
<1> HIDE DEF T
<1>4. Core(T, E)
  BY <1>2, <1>3, CallsCore
<1>5. QED
  BY <1>2, <1>4 DEF T


\* The enumeration SetToSeq chooses exists.
LEMMA EnumFacts ==
  ASSUME NEW S, IsFiniteSet(S)
  PROVE  SetToSeq(S) \in [1..Cardinality(S) -> S] /\ Cardinality(S) \in Nat
<1>1. Cardinality(S) \in Nat /\ ExistsBijection(1..Cardinality(S), S)
  BY FS_CardinalityType
<1>2. \E f \in [1..Cardinality(S) -> S] : IsInjective(f)
  BY <1>1 DEF ExistsBijection, Bijection, Injection
<1>3. QED
  BY <1>1, <1>2 DEF SetToSeq

LEMMA FramesOf ==
  ASSUME NEW n \in Nat, NEW f, f = [i \in 1..n |-> f[i]],
         \A i \in 1..n : f[i].c \in Runs /\ f[i].k \in FrameKinds
  PROVE  Frames(f)
<1>1. IsSeq(f) /\ DOMAIN f = 1..n
  BY FunctionIsSeq
<1>2. QED
  BY <1>1 DEF Frames

LEMMA SlotAvailableFrames == Frames(slotAvailable)
<1> DEFINE n == Cardinality(Runs)
<1>1. n \in Nat /\ SetToSeq(Runs) \in [1..n -> Runs]
  BY EnumFacts, RunsAssumption
<1>2. slotAvailable = [i \in 1..n |-> Call("slot", SetToSeq(Runs)[i], 0)]
  BY DEF slotAvailable
<1> HIDE DEF n
<1>3. \A i \in 1..n : slotAvailable[i].c \in Runs /\ slotAvailable[i].k \in FrameKinds
  BY <1>1, <1>2 DEF Call, FrameKinds
<1>4. slotAvailable = [i \in 1..n |-> slotAvailable[i]]
  BY <1>2
<1>5. QED
  BY <1>1, <1>3, <1>4, FramesOf

LEMMA OneFrame ==
  ASSUME NEW k \in FrameKinds, NEW c \in Runs, NEW req
  PROVE  Frames(<<Call(k, c, req)>>)
<1> DEFINE q == <<Call(k, c, req)>>
<1>1. q \in Seq({Call(k, c, req)})
  OBVIOUS
<1>2. \A i \in DOMAIN q : q[i] = Call(k, c, req)
  OBVIOUS
<1> HIDE DEF q
<1>3. Frames(q)
  BY <1>1, <1>2, SeqIsSeq DEF Frames, Call
<1>4. QED
  BY <1>3 DEF q

LEMMA BecomeIdleCore ==
  ASSUME NEW E, NEW S, Core(S, E), NEW c \in Runs
  PROVE  Core(becomeIdle(S, c), E)
<1> DEFINE r == [S.run[c] EXCEPT !.gen = FALSE]
           T == Edit(S, c, r)
<1>1. Members(S.run[c]) /\ Shape(S)
  BY DEF Core, Shape
<1>2. Members(r) /\ r.held = S.run[c].held /\ r.relay = S.run[c].relay
  BY <1>1, MemberFacts DEF Members
<1>3. becomeIdle(S, c) \in {T, Push(T, slotAvailable)}
  BY DEF becomeIdle, Edit
<1> HIDE DEF r
<1>4. Core(T, E)
  BY <1>2, EditCore
<1> HIDE DEF T
<1>5. QED
  BY <1>3, <1>4, PushCore, SlotAvailableFrames

LEMMA ReactionsCore ==
  ASSUME NEW E, NEW S, Core(S, E), NEW c \in Runs
  PROVE  Core(drainPendingSubagentReactions(S, c), E)
<1> DEFINE T == drainPendingSubagentReactions(S, c)
           r == [S.run[c] EXCEPT !.reactions = @ - 1]
           U == Edit(S, c, r)
           e == [k |-> "react", c |-> c]
<1>1. Members(S.run[c]) /\ Shape(S)
  BY DEF Core, Shape
<1>2. CASE S.run[c].reactions = 0 \/ S.run[c].gen
  BY <1>2 DEF drainPendingSubagentReactions
<1>3. CASE ~(S.run[c].reactions = 0 \/ S.run[c].gen)
  <2>1. Members(r) /\ r.held = S.run[c].held /\ r.relay = S.run[c].relay
    BY <1>1, MemberFacts DEF Members
  <2>2. /\ DOMAIN T = DOMAIN U /\ T.run = U.run /\ T.states = U.states /\ T.calls = U.calls
        /\ T.posted = Append(U.posted, e)
    BY <1>1, <1>3, ShapeFacts DEF drainPendingSubagentReactions, Edit
  <2> HIDE DEF r, T
  <2>3. Core(U, E)
    BY <2>1, EditCore
  <2>4. e.c \in Runs /\ e.k # "grant"
    OBVIOUS
  <2> HIDE DEF U, e
  <2>5. Core(T, E)
    BY <2>2, <2>3, <2>4, PostCore
  <2>6. QED
    BY <2>5 DEF T
<1>4. QED
  BY <1>2, <1>3

LEMMA RequestErrorCore ==
  ASSUME NEW E, NEW S, Core(S, E), NEW c \in Runs
  PROVE  Core(onRequestError(S, c), E)
<1> DEFINE R == releaseProviderSlotIfHeld(S, c)
           r == [R.run[c] EXCEPT !.stream = FALSE, !.inflight = FALSE, !.req = 0,
                                 !.relay = None, !.batch = FALSE]
           T == Edit(R, c, r)
<1>1. CASE S.run[c].usingAgent
  BY <1>1 DEF onRequestError
<1>2. CASE ~S.run[c].usingAgent
  <2>1. Core(R, E \cup {c}) /\ R.run[c].held = None
    <3>1. Core(S, E \cup {c})
      BY DisregardCore
    <3>2. QED
      BY <3>1, ReleaseCore
  <2>2. onRequestError(S, c) = becomeIdle(T, c)
    BY <1>2 DEF onRequestError, Edit
  <2> HIDE DEF R
  <2>3. Shape(R) /\ Members(R.run[c])
    BY <2>1 DEF Core, Shape
  <2>4. Members(r) /\ r.held = None /\ r.relay = None
    BY <2>1, <2>3, MemberFacts DEF Members
  <2> HIDE DEF r
  <2>5. /\ DOMAIN T = DOMAIN R /\ Put(R.run, T.run, c, r)
        /\ T.states = R.states /\ T.posted = R.posted /\ T.calls = R.calls
    BY <2>3, EditFacts
  <2> HIDE DEF T
  <2>6. Core(T, E)
    BY <2>1, <2>4, <2>5, RestoreCore
  <2>7. QED
    BY <2>2, <2>6, BecomeIdleCore
<1>3. QED
  BY <1>1, <1>2

LEMMA AgentTerminalCore ==
  ASSUME NEW E, NEW S, NEW c \in Runs,
         Core(S, E) \/ (Core(S, E \cup {c}) /\ S.run[c].usingAgent)
  PROVE  Core(onAgentTerminal(S, c), E)
<1> DEFINE r == [S.run[c] EXCEPT !.stream = FALSE, !.usingAgent = FALSE, !.inflight = FALSE,
                                 !.req = 0, !.relay = None]
           T == Edit(S, c, r)
<1>1. CASE ~S.run[c].usingAgent
  BY <1>1 DEF onAgentTerminal
<1>2. CASE S.run[c].usingAgent
  <2>0. Core(S, E \cup {c})
    BY DisregardCore
  <2>1. Shape(S) /\ Members(S.run[c])
    BY <2>0 DEF Core, Shape
  <2>2. Members(r) /\ r.held = S.run[c].held /\ r.relay = None
    BY <2>1, MemberFacts DEF Members
  <2>3. onAgentTerminal(S, c) = becomeIdle(releaseProviderSlotIfHeld(T, c), c)
    BY <1>2 DEF onAgentTerminal, Edit
  <2> HIDE DEF r
  <2>4. /\ DOMAIN T = DOMAIN S /\ Put(S.run, T.run, c, r)
        /\ T.states = S.states /\ T.posted = S.posted /\ T.calls = S.calls
    BY <2>1, EditFacts
  <2> HIDE DEF T
  <2>5. Core(T, E) /\ T.run[c].relay = None
    BY <2>0, <2>2, <2>4, RestoreCore
  <2>6. Core(releaseProviderSlotIfHeld(T, c), E)
    BY <2>5, ReleaseCore
  <2>7. QED
    BY <2>3, <2>6, BecomeIdleCore
<1>3. QED
  BY <1>1, <1>2


LEMMA InputFacts ==
  ASSUME NEW x \in Inputs
  PROVE  x.p \in Providers /\ (x.memory => "memory" \in Features)
  BY DEF Inputs, Opt

LEMMA DoRouteCore ==
  ASSUME NEW E, NEW S, Core(S, E), NEW c \in Runs, NEW p \in Providers, Vacant(S, E, p), NEW x
  PROVE  Core(doRoute(S, c, p, x), E)
<1> DEFINE T == [S EXCEPT !.run[c].held = p, !.run[c].waiting = None]
           r == [S.run[c] EXCEPT !.held = p, !.waiting = None]
           U == [T EXCEPT !.run[c].relay = p, !.wire[p] = c]
           s == [T.run[c] EXCEPT !.relay = p]
<1>1. Shape(S) /\ Members(S.run[c])
  BY DEF Core, Shape
<1>2. Members(r) /\ r.held = p /\ r.relay = S.run[c].relay
  BY <1>1, MemberFacts DEF Members
<1>3. /\ DOMAIN T = DOMAIN S /\ Put(S.run, T.run, c, r)
      /\ T.states = S.states /\ T.posted = S.posted /\ T.calls = S.calls
  BY <1>1, ShapeFacts DEF Put
<1>4. doRoute(S, c, p, x) \in {onRequestError(T, c), U}
  BY DEF doRoute
<1> HIDE DEF r, T
<1>5. Core(T, E) /\ T.run[c] = r
  BY <1>2, <1>3, TakeCore
<1>6. Shape(T) /\ Members(T.run[c]) /\ T.run[c].held = p
  BY <1>2, <1>5 DEF Core
<1>7. Members(s) /\ s.held = p /\ s.relay = p
  BY <1>6, MemberFacts DEF Members
<1>8. /\ DOMAIN U = DOMAIN T /\ Put(T.run, U.run, c, s)
      /\ U.states = T.states /\ U.posted = T.posted /\ U.calls = T.calls
  BY <1>6, ShapeFacts DEF Put
<1> HIDE DEF s, U
<1>9. Core(U, E)
  BY <1>5, <1>6, <1>7, <1>8, PutRunCore
<1>10. QED
  BY <1>4, <1>5, <1>9, RequestErrorCore

LEMMA DispatchCore ==
  ASSUME NEW E, NEW S, Core(S, E), NEW c \in Runs, NEW x \in Inputs,
         c \in E \/ S.run[c].relay = None
  PROVE  Core(dispatchThroughScheduler(S, c, x), E)
<1> DEFINE T == releaseProviderSlotIfHeld(S, c)
           cb == [req |-> T.run[c].req, agent |-> FALSE]
           a == acquire(T.states[x.p], c, cb)
           U == [T EXCEPT !.states[x.p] = a.st]
           r == [U.run[c] EXCEPT !.waiting = x.p]
           V == Edit(U, c, r)
<1>1. Core(T, E)
  BY ReleaseCore
<1>2. dispatchThroughScheduler(S, c, x) = IF a.granted THEN doRoute(U, c, x.p, x) ELSE V
  BY DEF dispatchThroughScheduler, Edit
<1> HIDE DEF T, cb
<1>3. Shape(T)
  BY <1>1 DEF Core
<1>4. /\ DOMAIN U = DOMAIN T /\ U.run = T.run /\ U.posted = T.posted /\ U.calls = T.calls
      /\ Put(T.states, U.states, x.p, acquire(T.states[x.p], c, cb).st)
  BY <1>3, InputFacts, ShapeFacts DEF Put
<1> HIDE DEF U
<1>5. x.p \in Providers
  BY InputFacts
<1>6. Core(U, E) /\ (a.granted => Vacant(U, E, x.p))
  BY <1>1, <1>4, <1>5, AcquireCore
<1> HIDE DEF a
<1>7. a.granted => Core(doRoute(U, c, x.p, x), E)
  BY <1>5, <1>6, DoRouteCore
<1>8. Members(U.run[c])
  BY <1>6 DEF Core, Shape
<1>9. Members(r) /\ r.held = U.run[c].held /\ r.relay = U.run[c].relay
  BY <1>8, MemberFacts DEF Members
<1> HIDE DEF r
<1>10. Core(V, E)
  BY <1>6, <1>9, EditCore
<1>11. QED
  BY <1>2, <1>7, <1>10

LEMMA NoteSummaryCore ==
  ASSUME NEW E, NEW S, Core(S, E), NEW c \in Runs, NEW x
  PROVE  LET T == noteSummaryDecision(S, c, x)
         IN  Core(T, E) /\ T.run[c].relay = S.run[c].relay
<1> DEFINE T == noteSummaryDecision(S, c, x)
           b == CASE x.failed \/ x.summarize = "no" -> S.run[c].summary
                  [] OTHER -> x.summarize = "later"
           r == [S.run[c] EXCEPT !.summary = b]
<1>1. Shape(S) /\ Members(S.run[c])
  BY DEF Core, Shape
<1>2. T = [S EXCEPT !.anchor = @ /\ ~x.planGone, !.run[c].summary = b]
  BY <1>1, ShapeFacts, MemberFacts DEF noteSummaryDecision
<1> HIDE DEF b, T
<1>3. Members(r) /\ r.held = S.run[c].held /\ r.relay = S.run[c].relay
  BY <1>1, MemberFacts DEF Members
<1>4. /\ DOMAIN T = DOMAIN S /\ Put(S.run, T.run, c, r)
      /\ T.states = S.states /\ T.posted = S.posted /\ T.calls = S.calls
  BY <1>1, <1>2, ShapeFacts DEF Put
<1> HIDE DEF r
<1>5. Core(T, E) /\ T.run[c] = r
  BY <1>3, <1>4, PutRunCore
<1>6. QED
  BY <1>3, <1>5 DEF T

LEMMA BuildDirectCore ==
  ASSUME NEW E, NEW S, Core(S, E), NEW c \in Runs, NEW x \in Inputs,
         c \in E \/ S.run[c].relay = None
  PROVE  Core(buildAndDispatchDirect(S, c, x), E)
<1> DEFINE T == noteSummaryDecision(S, c, x)
<1>1. Core(T, E) /\ T.run[c].relay = S.run[c].relay
  BY NoteSummaryCore
<1>2. buildAndDispatchDirect(S, c, x)
        \in {onRequestError(T, c), dispatchThroughScheduler(T, c, x)}
  BY DEF buildAndDispatchDirect
<1> HIDE DEF T
<1>3. QED
  BY <1>1, <1>2, RequestErrorCore, DispatchCore

LEMMA BuildAndSendCore ==
  ASSUME NEW E, NEW S, Core(S, E), NEW c \in Runs, NEW x \in Inputs
  PROVE  Core(buildAndSendRequest(S, c, x), E)
<1> DEFINE n == nextGlobalRequestId(S, c)
           r == [S.run[c] EXCEPT !.inflight = TRUE, !.relay = None, !.req = n]
           T == Edit(S, c, r)
           q == [T.run[c] EXCEPT !.query = "direct"]
<1>1. Shape(S) /\ Members(S.run[c])
  BY DEF Core, Shape
<1>2. buildAndSendRequest(S, c, x) = IF x.memory THEN Edit(T, c, q)
                                     ELSE buildAndDispatchDirect(T, c, x)
  BY DEF buildAndSendRequest, Edit
<1> HIDE DEF n
<1>3. Members(r) /\ r.held = S.run[c].held /\ r.relay = None
  BY <1>1, MemberFacts DEF Members
<1> HIDE DEF r
<1>4. Core(T, E) /\ T.run[c] = r
  BY <1>1, <1>3, EditCore, EditFacts
<1> HIDE DEF T
<1>5. ASSUME x.memory PROVE Core(Edit(T, c, q), E)
  <2>1. "memory" \in Features
    BY <1>5, InputFacts
  <2>2. Members(q) /\ q.held = T.run[c].held /\ q.relay = T.run[c].relay
    BY <1>3, <1>4, <2>1, MemberFacts DEF Members
  <2> HIDE DEF q
  <2>3. QED
    BY <1>4, <2>2, EditCore
<1>6. Core(buildAndDispatchDirect(T, c, x), E)
  BY <1>3, <1>4, BuildDirectCore
<1>7. QED
  BY <1>2, <1>5, <1>6

LEMMA ExecuteCore ==
  ASSUME NEW E, NEW S, Core(S, E), NEW c \in Runs, NEW p \in Providers, Vacant(S, E, p), NEW x
  PROVE  Core(execute(S, c, p, x), E)
<1> DEFINE r == [S.run[c] EXCEPT !.held = p]
           T == Edit(S, c, r)
           U == [T EXCEPT !.run[c].exec = p, !.wire[p] = c]
           s == [T.run[c] EXCEPT !.exec = p]
<1>1. Shape(S) /\ Members(S.run[c])
  BY DEF Core, Shape
<1>2. Members(r) /\ r.held = p /\ r.relay = S.run[c].relay
  BY <1>1, MemberFacts DEF Members
<1>3. execute(S, c, p, x) \in {T, onAgentTerminal(T, c), U}
  BY DEF execute, Edit
<1> HIDE DEF r
<1>4. /\ DOMAIN T = DOMAIN S /\ Put(S.run, T.run, c, r)
      /\ T.states = S.states /\ T.posted = S.posted /\ T.calls = S.calls
  BY <1>1, EditFacts
<1> HIDE DEF T
<1>5. Core(T, E) /\ T.run[c] = r
  BY <1>2, <1>4, TakeCore
<1>6. Shape(T) /\ Members(T.run[c])
  BY <1>5 DEF Core, Shape
<1>7. Members(s) /\ s.held = T.run[c].held /\ s.relay = T.run[c].relay
  BY <1>6, MemberFacts DEF Members
<1>8. /\ DOMAIN U = DOMAIN T /\ Put(T.run, U.run, c, s)
      /\ U.states = T.states /\ U.posted = T.posted /\ U.calls = T.calls
  BY <1>6, ShapeFacts DEF Put
<1> HIDE DEF s, U
<1>9. Core(U, E)
  BY <1>5, <1>7, <1>8, PutRunCore
<1>10. QED
  BY <1>3, <1>5, <1>9, AgentTerminalCore

LEMMA DispatchAgentCore ==
  ASSUME NEW E, NEW S, Core(S, E), NEW c \in Runs, NEW x \in Inputs
  PROVE  Core(dispatchAgentTurn(S, c, x), E)
<1> DEFINE T == noteSummaryDecision(S, c, x)
           cb == [req |-> T.run[c].req, agent |-> TRUE]
           a == acquire(T.states[x.p], c, cb)
           U == [T EXCEPT !.states[x.p] = a.st]
           r == [U.run[c] EXCEPT !.waiting = x.p]
           V == Edit(U, c, r)
           s == [T.run[c] EXCEPT !.usingAgent = FALSE]
           W == Edit(T, c, s)
<1>1. Core(T, E)
  BY NoteSummaryCore
<1>2. dispatchAgentTurn(S, c, x) = IF x.failed THEN onRequestError(W, c)
                                   ELSE IF a.granted THEN execute(U, c, x.p, x) ELSE V
  BY DEF dispatchAgentTurn, Edit
<1> HIDE DEF T, cb
<1>3. Shape(T) /\ Members(T.run[c])
  BY <1>1 DEF Core, Shape
<1>4. /\ DOMAIN U = DOMAIN T /\ U.run = T.run /\ U.posted = T.posted /\ U.calls = T.calls
      /\ Put(T.states, U.states, x.p, acquire(T.states[x.p], c, cb).st)
  BY <1>3, InputFacts, ShapeFacts DEF Put
<1> HIDE DEF U
<1>5. x.p \in Providers
  BY InputFacts
<1>6. Core(U, E) /\ (a.granted => Vacant(U, E, x.p))
  BY <1>1, <1>4, <1>5, AcquireCore
<1> HIDE DEF a
<1>7. a.granted => Core(execute(U, c, x.p, x), E)
  BY <1>5, <1>6, ExecuteCore
<1>8. Members(U.run[c])
  BY <1>6 DEF Core, Shape
<1>9. Members(r) /\ r.held = U.run[c].held /\ r.relay = U.run[c].relay
  BY <1>8, MemberFacts DEF Members
<1>10. Members(s) /\ s.held = T.run[c].held /\ s.relay = T.run[c].relay
  BY <1>3, MemberFacts DEF Members
<1> HIDE DEF r, s
<1>11. Core(V, E) /\ Core(W, E)
  BY <1>1, <1>6, <1>9, <1>10, EditCore
<1> HIDE DEF V, W
<1>12. QED
  BY <1>2, <1>7, <1>11, RequestErrorCore

LEMMA SendMessageCore ==
  ASSUME NEW E, NEW S, Core(S, E), NEW c \in Runs, NEW x \in Inputs
  PROVE  Core(sendMessage(S, c, x), E)
<1> DEFINE u == [S.run[c] EXCEPT !.queued = TRUE]
           t == [S.run[c] EXCEPT !.batch = FALSE, !.stream = TRUE, !.inflight = TRUE,
                                 !.gen = TRUE, !.stopped = FALSE, !.left = MaxContinuations]
           T == Edit(S, c, t)
           n == nextGlobalRequestId(T, c)
           a == [T.run[c] EXCEPT !.usingAgent = TRUE, !.relay = None, !.req = n]
           A == Edit(T, c, a)
           q == [A.run[c] EXCEPT !.query = "agent"]
<1>1. Shape(S) /\ Members(S.run[c])
  BY DEF Core, Shape
<1>2. /\ Members(u) /\ u.held = S.run[c].held /\ u.relay = S.run[c].relay
      /\ Members(t) /\ t.held = S.run[c].held /\ t.relay = S.run[c].relay
  BY <1>1, MemberFacts DEF Members
<1>3. sendMessage(S, c, x) =
        IF S.run[c].gen THEN Edit(S, c, u)
        ELSE IF ~x.agent THEN buildAndSendRequest(T, c, x)
        ELSE IF x.memory THEN Edit(A, c, q)
        ELSE dispatchAgentTurn(A, c, x)
  BY DEF sendMessage, Edit
<1> HIDE DEF u, t, n
<1>4. Core(T, E) /\ Core(Edit(S, c, u), E)
  BY <1>2, EditCore
<1> HIDE DEF T
<1>5. Members(T.run[c]) /\ Shape(T)
  BY <1>4 DEF Core, Shape
<1>6. Members(a) /\ a.held = T.run[c].held /\ a.relay = None
  BY <1>5, MemberFacts DEF Members
<1> HIDE DEF a
<1>7. Core(A, E) /\ A.run[c] = a
  BY <1>4, <1>5, <1>6, EditCore, EditFacts
<1> HIDE DEF A
<1>8. ASSUME x.memory PROVE Core(Edit(A, c, q), E)
  <2>1. "memory" \in Features
    BY <1>8, InputFacts
  <2>2. Members(q) /\ q.held = A.run[c].held /\ q.relay = A.run[c].relay
    BY <1>6, <1>7, <2>1, MemberFacts DEF Members
  <2> HIDE DEF q
  <2>3. QED
    BY <1>7, <2>2, EditCore
<1>9. Core(buildAndSendRequest(T, c, x), E) /\ Core(dispatchAgentTurn(A, c, x), E)
  BY <1>4, <1>7, BuildAndSendCore, DispatchAgentCore
<1>10. QED
  BY <1>3, <1>4, <1>8, <1>9


\* A turn's next request is built from a timer.
LEMMA PostBuildCore ==
  ASSUME NEW E, NEW S, Core(S, E), NEW c \in Runs
  PROVE  Core(postBuild(S, c), E)
<1> DEFINE T == postBuild(S, c)
           r == [S.run[c] EXCEPT !.stream = TRUE, !.left = @ - 1]
           U == Edit(S, c, r)
           e == [k |-> "build", c |-> c]
<1>1. Shape(S) /\ Members(S.run[c])
  BY DEF Core, Shape
<1>2. Members(r) /\ r.held = S.run[c].held /\ r.relay = S.run[c].relay
  BY <1>1, MemberFacts DEF Members
<1>3. DOMAIN T = DOMAIN S /\ T.states = S.states /\ T.calls = S.calls
      /\ T.posted = Append(S.posted, e) /\ Put(S.run, T.run, c, r)
  BY <1>1, ShapeFacts, MemberFacts DEF postBuild, Put
<1> HIDE DEF T
<1>4. DOMAIN T = DOMAIN U /\ T.states = U.states /\ T.calls = U.calls
      /\ T.posted = Append(U.posted, e) /\ Put(S.run, U.run, c, r)
  BY <1>1, <1>3, EditFacts
<1>5. T.run = U.run
  BY <1>1, <1>3, ShapeFacts DEF postBuild, T, Edit
<1> HIDE DEF r
<1>6. Core(U, E)
  BY <1>2, EditCore
<1>7. e.c \in Runs /\ e.k # "grant"
  OBVIOUS
<1> HIDE DEF U, e
<1>8. Core(T, E)
  BY <1>4, <1>5, <1>6, <1>7, PostCore
<1>9. QED
  BY <1>8 DEF T

LEMMA MemberTurnCore ==
  ASSUME NEW E, NEW S, Core(S, E), NEW c \in Runs
  PROVE  /\ Core(onCascadeMemberTurnStarted(S, c), E)
         /\ Core(onCascadeEchoDetectedRequestRetry(S, c), E)
<1> DEFINE r == [S.run[c] EXCEPT !.batch = FALSE]
           T == Edit(S, c, r)
<1>1. Members(S.run[c])
  BY DEF Core, Shape
<1>2. Members(r) /\ r.held = S.run[c].held /\ r.relay = S.run[c].relay
  BY <1>1, MemberFacts DEF Members
<1>3. /\ onCascadeMemberTurnStarted(S, c) \in {S, postBuild(T, c)}
      /\ onCascadeEchoDetectedRequestRetry(S, c) = postBuild(T, c)
  BY DEF onCascadeMemberTurnStarted, onCascadeEchoDetectedRequestRetry, Edit
<1> HIDE DEF r
<1>4. Core(T, E)
  BY <1>2, EditCore
<1> HIDE DEF T
<1>5. QED
  BY <1>3, <1>4, PostBuildCore

LEMMA CascadeCompleteCore ==
  ASSUME NEW E, NEW S, Core(S, E), NEW c \in Runs, NEW x
  PROVE  Core(onCascadeComplete(S, c, x), E)
<1> DEFINE P == Push(S, <<Call("tail", c, 0)>>)
           r == [P.run[c] EXCEPT !.stream = FALSE, !.batch = FALSE, !.inflight = FALSE,
                                 !.req = 0, !.relay = None]
           T == [P EXCEPT !.run[c] = r, !.anchor = @ /\ ~x.planGone]
<1>1. Core(P, E)
  BY PushCore, OneFrame DEF FrameKinds
<1>2. onCascadeComplete(S, c, x) = becomeIdle(T, c)
  BY DEF onCascadeComplete
<1> HIDE DEF P
<1>3. Shape(P) /\ Members(P.run[c])
  BY <1>1 DEF Core, Shape
<1>4. Members(r) /\ r.held = P.run[c].held /\ r.relay = None
  BY <1>3, MemberFacts DEF Members
<1> HIDE DEF r
<1>5. DOMAIN T = DOMAIN P /\ T.states = P.states /\ T.calls = P.calls
      /\ T.posted = P.posted /\ Put(P.run, T.run, c, r)
  BY <1>3, ShapeFacts DEF Put
<1> HIDE DEF T
<1>6. Core(T, E)
  BY <1>1, <1>4, <1>5, PutRunCore
<1>7. QED
  BY <1>2, <1>6, BecomeIdleCore

AnswerKinds == {"done", "member", "retry", "continue", "verdict"}

LEMMA AnswerFacts == \A c \in Runs : Answers(c) \subseteq AnswerKinds
  BY DEF Answers, AnswerKinds

LEMMA OutcomeFacts ==
  \A c \in Runs : Outcomes(c) \subseteq {"reply", "cap", "tools", "confirm"}
  BY DEF Outcomes

LEMMA RoutingCore ==
  ASSUME NEW E, NEW S, Core(S, E), NEW c \in Runs, NEW k \in AnswerKinds, NEW x
  PROVE  /\ Core(routeOrFinalize(S, c, k, x), E)
         /\ Core(forceCascadeComplete(S, c, k, x), E)
         /\ Core(finishTurnRouting(S, c, k, x), E)
<1> DEFINE r == [S.run[c] EXCEPT !.verdict = S.run[c].req, !.left = @ - 1]
           V == Edit(S, c, r)
           W == [S EXCEPT !.run[c].verdict = S.run[c].req, !.run[c].left = @ - 1]
<1>1. Shape(S) /\ Members(S.run[c])
  BY DEF Core, Shape
<1>2. Members(r) /\ r.held = S.run[c].held /\ r.relay = S.run[c].relay
  BY <1>1, MemberFacts DEF Members
<1>3. Core(W, E)
  <2>1. DOMAIN W = DOMAIN S /\ W.states = S.states /\ W.calls = S.calls
        /\ W.posted = S.posted /\ Put(S.run, W.run, c, r)
    BY <1>1, ShapeFacts, MemberFacts DEF Put
  <2> HIDE DEF r, W
  <2>2. QED
    BY <1>2, <2>1, PutRunCore
<1> HIDE DEF r, V
<1>4. \A j : Core(forceCascadeComplete(S, c, j, x), E)
  BY MemberTurnCore, CascadeCompleteCore DEF forceCascadeComplete
<1>5. Core(onCascadeDeferredContinuationRequested(S, c, x), E)
  BY <1>4, PostBuildCore DEF onCascadeDeferredContinuationRequested
<1>6. routeOrFinalize(S, c, k, x) \in
        {onCascadeMemberTurnStarted(S, c), onCascadeEchoDetectedRequestRetry(S, c),
         onCascadeDeferredContinuationRequested(S, c, x), W, onCascadeComplete(S, c, x)}
  BY DEF routeOrFinalize, AnswerKinds
<1> HIDE DEF W
<1>7. Core(routeOrFinalize(S, c, k, x), E)
  BY <1>3, <1>5, <1>6, MemberTurnCore, CascadeCompleteCore
<1>8. QED
  BY <1>4, <1>7 DEF finishTurnRouting

LEMMA RequestFinishedCore ==
  ASSUME NEW E, NEW S, Core(S, E), NEW c \in Runs, NEW k \in AnswerKinds,
         NEW o \in {"reply", "cap", "tools", "confirm"}, NEW x
  PROVE  Core(onRequestFinished(S, c, o, k, x), E)
<1> DEFINE r == [S.run[c] EXCEPT !.relay = None]
           R == Edit(S, c, r)
           T == releaseProviderSlotIfHeld(R, c)
           u == [T.run[c] EXCEPT !.cancelled = FALSE]
           U == Edit(T, c, u)
           v == [U.run[c] EXCEPT !.stream = FALSE, !.batch = FALSE]
           V == [U EXCEPT !.run[c] = v, !.anchor = FALSE]
           W == [U EXCEPT !.run[c].stream = FALSE, !.run[c].batch = TRUE, !.run[c].left = @ - 1]
           w == W.run[c]
           y == [U.run[c] EXCEPT !.batch = FALSE]
           z == [U.run[c] EXCEPT !.confirm = U.run[c].req]
<1>1. Shape(S) /\ Members(S.run[c])
  BY DEF Core, Shape
<1>2. Members(r) /\ r.held = S.run[c].held /\ r.relay = None
  BY <1>1, MemberFacts DEF Members
<1>3. onRequestFinished(S, c, o, k, x) \in
        {R, T, becomeIdle(V, c), W, forceCascadeComplete(Edit(U, c, y), c, k, x),
         Edit(U, c, z), finishTurnRouting(U, c, k, x)}
  <2>1. CASE S.run[c].usingAgent
    BY <2>1 DEF onRequestFinished, Edit
  <2>2. CASE ~S.run[c].usingAgent /\ ~S.run[c].stream
    BY <2>2 DEF onRequestFinished, Edit
  <2>3. CASE ~S.run[c].usingAgent /\ S.run[c].stream /\ S.run[c].cancelled /\ S.anchor
    BY <2>3 DEF onRequestFinished, Edit
  <2>4. CASE ~S.run[c].usingAgent /\ S.run[c].stream /\ ~(S.run[c].cancelled /\ S.anchor)
    <3>1. CASE o = "tools"
      BY <2>4, <3>1 DEF onRequestFinished, Edit
    <3>2. CASE o = "cap"
      BY <2>4, <3>2 DEF onRequestFinished, Edit
    <3>3. CASE o = "confirm"
      BY <2>4, <3>3 DEF onRequestFinished, Edit
    <3>4. CASE o = "reply"
      BY <2>4, <3>4 DEF onRequestFinished, Edit
    <3>5. QED
      BY <3>1, <3>2, <3>3, <3>4
  <2>5. QED
    BY <2>1, <2>2, <2>3, <2>4
<1> HIDE DEF r
<1>4. Core(R, E) /\ R.run[c] = r
  BY <1>1, <1>2, EditCore, EditFacts
<1> HIDE DEF R
<1>5. Core(T, E)
  BY <1>2, <1>4, ReleaseCore
<1> HIDE DEF T
<1>6. Members(T.run[c])
  BY <1>5 DEF Core, Shape
<1>7. Members(u) /\ u.held = T.run[c].held /\ u.relay = T.run[c].relay
  BY <1>6, MemberFacts DEF Members
<1> HIDE DEF u
<1>8. Core(U, E)
  BY <1>5, <1>7, EditCore
<1> HIDE DEF U
<1>9. Shape(U) /\ Members(U.run[c])
  BY <1>8 DEF Core, Shape
<1>10. /\ Members(v) /\ v.held = U.run[c].held /\ v.relay = U.run[c].relay
       /\ Members(w) /\ w.held = U.run[c].held /\ w.relay = U.run[c].relay
       /\ Members(y) /\ y.held = U.run[c].held /\ y.relay = U.run[c].relay
       /\ Members(z) /\ z.held = U.run[c].held /\ z.relay = U.run[c].relay
  BY <1>9, ShapeFacts, MemberFacts DEF Members
<1> HIDE DEF v, y, z
<1>11. /\ DOMAIN V = DOMAIN U /\ V.states = U.states /\ V.calls = U.calls
       /\ V.posted = U.posted /\ Put(U.run, V.run, c, v)
       /\ DOMAIN W = DOMAIN U /\ W.states = U.states /\ W.calls = U.calls
       /\ W.posted = U.posted /\ Put(U.run, W.run, c, w)
  BY <1>9, ShapeFacts DEF Put
<1> HIDE DEF V, W, w
<1>12. Core(V, E) /\ Core(W, E)
  BY <1>8, <1>10, <1>11, PutRunCore
<1>13. Core(Edit(U, c, y), E) /\ Core(Edit(U, c, z), E)
  BY <1>8, <1>10, EditCore
<1>14. /\ Core(forceCascadeComplete(Edit(U, c, y), c, k, x), E)
       /\ Core(finishTurnRouting(U, c, k, x), E) /\ Core(becomeIdle(V, c), E)
  BY <1>8, <1>12, <1>13, RoutingCore, BecomeIdleCore
<1>15. QED
  BY <1>3, <1>4, <1>5, <1>12, <1>13, <1>14


---------------------------------------------------------------------------
\* Stops, teardown and what follows an idle run

LEMMA CancelAgentCore ==
  ASSUME NEW E, NEW S, NEW c \in Runs, Core(S, E \cup {c}), S.run[c].usingAgent
  PROVE  Core(cancelAgent(S, c), E)
<1> DEFINE r == [S.run[c] EXCEPT !.exec = None]
           T == [S EXCEPT !.wire[S.run[c].exec] = None, !.run[c].exec = None]
<1>1. Shape(S) /\ Members(S.run[c])
  BY DEF Core, Shape
<1>2. Members(r) /\ r.held = S.run[c].held /\ r.relay = S.run[c].relay
      /\ r.usingAgent = S.run[c].usingAgent
  BY <1>1, MemberFacts DEF Members
<1>3. cancelAgent(S, c) = onAgentTerminal(T, c)
  BY DEF cancelAgent
<1>4. DOMAIN T = DOMAIN S /\ T.states = S.states /\ T.calls = S.calls
      /\ T.posted = S.posted /\ Put(S.run, T.run, c, r)
  BY <1>1, ShapeFacts DEF Put
<1> HIDE DEF r, T
<1>5. Core(T, E \cup {c}) /\ T.run[c] = r
  BY <1>2, <1>4, PutRunCore
<1>6. T.run[c].usingAgent
  BY <1>2, <1>5
<1>7. QED
  BY <1>3, <1>5, <1>6, AgentTerminalCore

LEMMA StopCore ==
  ASSUME NEW E, NEW S, Core(S, E), NEW c \in Runs
  PROVE  Core(stopGeneration(S, c), E)
<1> DEFINE t == [S.run[c] EXCEPT !.query = "none", !.queued = FALSE]
           T == Edit(S, c, t)
           w == [T.run[c] EXCEPT !.cancelled = TRUE, !.stopped = TRUE]
           W == [T EXCEPT !.run[c].cancelled = TRUE, !.run[c].stopped = TRUE]
           U == releaseProviderSlotIfHeld(cancelQueuedSchedulerWaiter(W, c), c)
           p == S.run[c].relay
           V == IF p = None THEN U ELSE [U EXCEPT !.wire[p] = None]
           r == [V.run[c] EXCEPT !.stream = FALSE, !.inflight = FALSE, !.req = 0,
                                 !.relay = None, !.batch = FALSE]
           X == Edit(V, c, r)
<1>1. Shape(S) /\ Members(S.run[c])
  BY DEF Core, Shape
<1>2. Members(t) /\ t.held = S.run[c].held /\ t.relay = S.run[c].relay
      /\ t.usingAgent = S.run[c].usingAgent
  BY <1>1, MemberFacts DEF Members
<1>3. stopGeneration(S, c) = CASE ~S.run[c].gen -> T
                               [] S.run[c].gen /\ S.run[c].usingAgent /\ S.run[c].exec # None ->
                                    cancelAgent(U, c)
                               [] OTHER -> becomeIdle(X, c)
  BY DEF stopGeneration, Edit
<1> HIDE DEF t
<1>4. Core(T, E) /\ T.run[c] = t
  BY <1>1, <1>2, EditCore, EditFacts
<1> HIDE DEF T
<1>5. Shape(T) /\ Members(T.run[c])
  BY <1>4 DEF Core, Shape
<1>6. Members(w) /\ w.held = T.run[c].held /\ w.relay = T.run[c].relay
      /\ w.usingAgent = T.run[c].usingAgent
  BY <1>5, MemberFacts DEF Members
<1>7. DOMAIN W = DOMAIN T /\ W.states = T.states /\ W.calls = T.calls
      /\ W.posted = T.posted /\ Put(T.run, W.run, c, w)
  BY <1>5, ShapeFacts, MemberFacts DEF Put
<1> HIDE DEF w, W
<1>8. Core(W, E) /\ W.run[c] = w
  BY <1>4, <1>6, <1>7, PutRunCore
<1>9. Core(U, E \cup {c}) /\ U.run[c].usingAgent = S.run[c].usingAgent
  <2> DEFINE C == cancelQueuedSchedulerWaiter(W, c)
  <2>1. Core(W, E \cup {c})
    BY <1>8, DisregardCore
  <2>2. Core(C, E \cup {c}) /\ C.run[c].usingAgent = W.run[c].usingAgent
    BY <2>1, CancelWaiterCore
  <2> HIDE DEF C
  <2>3. Core(releaseProviderSlotIfHeld(C, c), E \cup {c})
        /\ releaseProviderSlotIfHeld(C, c).run[c].usingAgent = C.run[c].usingAgent
    BY <2>2, ReleaseCore
  <2>4. QED
    BY <1>2, <1>4, <1>6, <1>8, <2>2, <2>3 DEF C
<1> HIDE DEF U
<1>10. Core(V, E \cup {c})
  <2>1. Shape(U)
    BY <1>9 DEF Core
  <2>2. DOMAIN V = DOMAIN U /\ V.run = U.run /\ V.states = U.states
        /\ V.posted = U.posted /\ V.calls = U.calls
    BY <2>1, ShapeFacts
  <2> HIDE DEF V
  <2>3. QED
    BY <1>9, <2>2, SameCore
<1> HIDE DEF V
<1>11. Shape(V) /\ Members(V.run[c])
  BY <1>10 DEF Core, Shape
<1>12. Members(r) /\ r.held = V.run[c].held /\ r.relay = None
  BY <1>11, MemberFacts DEF Members
<1> HIDE DEF r
<1>13. DOMAIN X = DOMAIN V /\ X.states = V.states /\ X.calls = V.calls
       /\ X.posted = V.posted /\ Put(V.run, X.run, c, r)
  BY <1>11, EditFacts
<1> HIDE DEF X
<1>14. Core(X, E)
  BY <1>10, <1>12, <1>13, RestoreCore
<1>15. Core(becomeIdle(X, c), E)
  BY <1>14, BecomeIdleCore
<1>16. S.run[c].usingAgent => Core(cancelAgent(U, c), E)
  BY <1>9, CancelAgentCore
<1>17. QED
  BY <1>3, <1>4, <1>15, <1>16

LEMMA DestroyCore ==
  ASSUME NEW E, NEW S, Core(S, E), NEW c \in Runs
  PROVE  Core(destroyRun(S, c), E)
<1> DEFINE R == releaseProviderSlotIfHeld(S, c)
           T == cancelQueuedSchedulerWaiter(R, c)
           r == [NewRun EXCEPT !.alive = FALSE]
           X == Edit(T, c, r)
<1>1. Core(R, E \cup {c})
  <2>1. Core(S, E \cup {c})
    BY DisregardCore
  <2>2. QED
    BY <2>1, ReleaseCore
<1>2. destroyRun(S, c) = X
  BY DEF destroyRun, Edit
<1> HIDE DEF R
<1>3. Core(T, E \cup {c})
  BY <1>1, CancelWaiterCore
<1> HIDE DEF T
<1>4. Members(r) /\ r.held = None /\ r.relay = None
  BY DEF Members, NewRun
<1> HIDE DEF r
<1>5. Shape(T)
  BY <1>3 DEF Core
<1>6. DOMAIN X = DOMAIN T /\ X.states = T.states /\ X.calls = T.calls
      /\ X.posted = T.posted /\ Put(T.run, X.run, c, r)
  BY <1>5, EditFacts
<1> HIDE DEF X
<1>7. Core(X, E)
  BY <1>3, <1>4, <1>6, RestoreCore
<1>8. QED
  BY <1>2, <1>7

LEMMA TailCore ==
  ASSUME NEW E, NEW S, Core(S, E), NEW c \in Runs, NEW x \in Inputs
  PROVE  Core(cascadeTail(S, c, x), E) /\ Core(onSlotAvailable(S, c, x), E)
<1> DEFINE r == [S.run[c] EXCEPT !.queued = FALSE]
           T == Edit(S, c, r)
           s == [S.run[c] EXCEPT !.summary = FALSE]
           U == Edit(S, c, s)
           D == <<Call("drain", c, 0)>>
<1>1. Members(S.run[c])
  BY DEF Core, Shape
<1>2. /\ Members(r) /\ r.held = S.run[c].held /\ r.relay = S.run[c].relay
      /\ Members(s) /\ s.held = S.run[c].held /\ s.relay = S.run[c].relay
  BY <1>1, MemberFacts DEF Members
<1>3. /\ cascadeTail(S, c, x) \in {sendMessage(T, c, x), drainPendingSubagentReactions(U, c)}
      /\ onSlotAvailable(S, c, x)
           \in {sendMessage(Push(T, D), c, x), drainPendingSubagentReactions(S, c)}
  BY DEF cascadeTail, onSlotAvailable, Edit
<1>4. Frames(D)
  BY OneFrame DEF FrameKinds
<1> HIDE DEF r, s, D
<1>5. Core(T, E) /\ Core(U, E)
  BY <1>2, EditCore
<1> HIDE DEF T, U
<1>6. Core(Push(T, D), E)
  BY <1>4, <1>5, PushCore
<1>7. QED
  BY <1>3, <1>5, <1>6, SendMessageCore, ReactionsCore

LEMMA GrantedCore ==
  ASSUME NEW E, NEW S, Core(S, E), NEW e, e.c \in Runs, e.p \in Providers,
         Vacant(S, E, e.p), NEW x
  PROVE  Core(onGranted(S, e, x), E)
<1> DEFINE c == e.c
           p == e.p
           r == [S.run[c] EXCEPT !.held = p]
           H == Edit(S, c, r)
           t == [S.run[c] EXCEPT !.waiting = None]
           T == Edit(S, c, t)
<1>1. Shape(S) /\ Members(S.run[c])
  BY DEF Core, Shape
<1>2. onGranted(S, e, x) \in {S, releaseProviderSlotIfHeld(H, c), execute(T, c, p, x),
                              doRoute(T, c, p, x)}
  BY DEF onGranted, Edit
<1>3. c \in Runs /\ p \in Providers /\ Vacant(S, E, p)
  OBVIOUS
<1> HIDE DEF c, p
<1>4. /\ Members(r) /\ r.held = p /\ r.relay = S.run[c].relay
      /\ Members(t) /\ t.held = S.run[c].held /\ t.relay = S.run[c].relay
  BY <1>1, <1>3, MemberFacts DEF Members
<1> HIDE DEF r, t
<1>5. /\ DOMAIN H = DOMAIN S /\ Put(S.run, H.run, c, r)
      /\ H.states = S.states /\ H.posted = S.posted /\ H.calls = S.calls
  BY <1>1, <1>3, EditFacts
<1>6. Core(T, E) /\ Vacant(T, E, p)
  BY <1>3, <1>4, EditCore
<1> HIDE DEF H, T
<1>7. Core(H, E) /\ H.run[c] = r
  BY <1>3, <1>4, <1>5, TakeCore
<1>8. c \in E \/ H.run[c].relay # H.run[c].held
  <2>1. ~Owns(S, E, c, p)
    BY <1>3 DEF Vacant
  <2>2. QED
    BY <1>4, <1>7, <2>1 DEF Owns
<1>9. Core(releaseProviderSlotIfHeld(H, c), E)
  BY <1>3, <1>7, <1>8, ReleaseCore
<1>10. QED
  BY <1>2, <1>3, <1>6, <1>9, ExecuteCore, DoRouteCore

LEMMA ReactionCore ==
  ASSUME NEW E, NEW S, Core(S, E), NEW c \in Runs
  PROVE  Core(dispatchSubagentReaction(S, c), E)
<1> DEFINE T == dispatchSubagentReaction(S, c)
           n == nextGlobalRequestId(S, c)
           u == [S.run[c] EXCEPT !.reactions = 1]
           r == [S.run[c] EXCEPT !.inflight = TRUE, !.req = n, !.relay = None, !.batch = FALSE,
                                 !.stream = TRUE, !.gen = TRUE, !.stopped = FALSE,
                                 !.left = MaxContinuations]
           U == Edit(S, c, r)
           e == [k |-> "build", c |-> c]
<1>1. Shape(S) /\ Members(S.run[c])
  BY DEF Core, Shape
<1>2. CASE S.run[c].gen
  <2>1. Members(u) /\ u.held = S.run[c].held /\ u.relay = S.run[c].relay
    BY <1>1, MemberFacts DEF Members
  <2>2. T = Edit(S, c, u)
    BY <1>2 DEF dispatchSubagentReaction, Edit
  <2> HIDE DEF u, T
  <2>3. QED
    BY <2>1, <2>2, EditCore DEF T
<1>3. CASE ~S.run[c].gen
  <2>1. /\ DOMAIN T = DOMAIN U /\ T.run = U.run /\ T.states = U.states /\ T.calls = U.calls
        /\ T.posted = Append(U.posted, e)
    BY <1>1, <1>3, ShapeFacts DEF dispatchSubagentReaction, Edit
  <2> HIDE DEF n, T
  <2>2. Members(r) /\ r.held = S.run[c].held /\ r.relay = None
    BY <1>1, MemberFacts DEF Members
  <2> HIDE DEF r
  <2>3. Core(U, E)
    BY <2>2, EditCore
  <2>4. e.c \in Runs /\ e.k # "grant"
    OBVIOUS
  <2> HIDE DEF U, e
  <2>5. Core(T, E)
    BY <2>1, <2>3, <2>4, PostCore
  <2>6. QED
    BY <2>5 DEF T
<1>4. QED
  BY <1>2, <1>3


---------------------------------------------------------------------------
\* Steps

LEMMA BecomeInv ==
  ASSUME NEW S, Core(S, Exempt), Become(S)
  PROVE  IInv'
<1>1. /\ DOMAIN Sys' = DOMAIN S /\ Sys'.run = S.run /\ Sys'.states = S.states
      /\ Sys'.posted = S.posted /\ Sys'.calls = S.calls
  <2>1. run' = S.run /\ states' = S.states /\ posted' = S.posted /\ calls' = S.calls
    BY DEF Become
  <2>2. DOMAIN S = {"run", "states", "wire", "anchor", "posted", "calls"}
    BY ShapeFacts DEF Core
  <2>3. QED
    BY <2>1, <2>2 DEF Sys
<1>2. Core(Sys', Exempt)
  BY <1>1, SameCore
<1>3. QED
  BY <1>2 DEF IInv

LEMMA SysFacts ==
  /\ Sys.run = run /\ Sys.states = states /\ Sys.wire = wire /\ Sys.anchor = anchor
  /\ Sys.posted = posted /\ Sys.calls = calls
  BY DEF Sys

\* The oldest timer leaves the event loop; a grant leaves its slot vacant.
LEMMA PopTimer ==
  ASSUME NEW E, Core(Sys, E), posted # <<>>
  PROVE  LET e == Head(posted)
             S == [Sys EXCEPT !.posted = Tail(@)]
         IN  /\ Core(S, E) /\ e.c \in Runs
             /\ e.k = "grant" => e.p \in Providers /\ Vacant(S, E, e.p)
<1> DEFINE e == Head(posted)
           S == [Sys EXCEPT !.posted = Tail(@)]
<1>1. /\ DOMAIN S = DOMAIN Sys /\ S.run = run /\ S.states = states /\ S.calls = calls
      /\ S.posted = Tail(posted)
  BY DEF Sys
<1> HIDE DEF S
<1>2. Shape(Sys) /\ Timers(posted) /\ IsSeq(posted)
  BY SysFacts, ShapeFacts DEF Core
<1>3. /\ IsSeq(S.posted) /\ 1 \in DOMAIN posted /\ e = posted[1]
      /\ \A i \in DOMAIN S.posted : i + 1 \in DOMAIN posted /\ S.posted[i] = posted[i + 1]
                                    /\ i \in Nat /\ i + 1 # 1
  <2>1. /\ IsSeq(Tail(posted)) /\ 1 \in DOMAIN posted /\ e = posted[1]
        /\ \A i \in DOMAIN Tail(posted) : i + 1 \in DOMAIN posted
                                          /\ Tail(posted)[i] = posted[i + 1]
    BY <1>2, SeqFacts
  <2>2. DOMAIN Tail(posted) = 1..Len(Tail(posted))
    BY <2>1, SeqFacts
  <2>3. \A i \in 1..Len(Tail(posted)) : i \in Nat /\ i + 1 # 1
    OBVIOUS
  <2>4. QED
    BY <1>1, <2>1, <2>2, <2>3
<1> HIDE DEF e
<1>4. Timers(S.posted)
  BY <1>2, <1>3 DEF Timers
<1>5. Shape(S)
  BY <1>1, <1>2, <1>4, SysFacts DEF Shape
<1>6. \A p \in Providers, c \in Runs : Owns(S, E, c, p) <=> Owns(Sys, E, c, p)
  BY <1>1, SysFacts DEF Owns
<1>7. \A p \in Providers : Apart(Sys, E, p)
  BY DEF Core
<1>8. ASSUME NEW p \in Providers PROVE Apart(S, E, p)
  <2>1. \A i \in DOMAIN S.posted : IsGrant(S.posted[i], p) =>
          i + 1 \in DOMAIN Sys.posted /\ IsGrant(Sys.posted[i + 1], p)
    BY <1>3, SysFacts
  <2>2. \A i, j \in DOMAIN S.posted : i + 1 = j + 1 => i = j
    BY <1>3
  <2>3. S.states[p] = Sys.states[p] /\ Apart(Sys, E, p)
    BY <1>1, <1>7, SysFacts
  <2>4. \A i, j \in DOMAIN S.posted :
          IsGrant(S.posted[i], p) /\ IsGrant(S.posted[j], p) => i = j
    BY <2>1, <2>2, <2>3 DEF Apart
  <2>5. QED
    BY <1>6, <2>1, <2>3, <2>4 DEF Apart
<1>9. ASSUME e.k = "grant" PROVE e.p \in Providers /\ Vacant(S, E, e.p)
  <2>1. e.p \in Providers
    BY <1>2, <1>3, <1>9 DEF Timers
  <2> DEFINE p == e.p
  <2>2. Apart(Sys, E, p) /\ IsGrant(Sys.posted[1], p) /\ 1 \in DOMAIN Sys.posted
    BY <1>3, <1>7, <1>9, <2>1, SysFacts DEF IsGrant
  <2> HIDE DEF p
  <2>3. S.states[p].inFlight = 1 /\ \A c \in Runs : ~Owns(S, E, c, p)
    BY <1>1, <1>6, <2>1, <2>2, SysFacts DEF Apart, p
  <2>4. \A i \in DOMAIN S.posted : ~IsGrant(S.posted[i], p)
    <3> SUFFICES ASSUME NEW i \in DOMAIN S.posted, IsGrant(S.posted[i], p) PROVE FALSE
      OBVIOUS
    <3>1. i + 1 \in DOMAIN Sys.posted /\ IsGrant(Sys.posted[i + 1], p) /\ i + 1 # 1
      BY <1>3, SysFacts
    <3>2. QED
      BY <2>2, <3>1 DEF Apart
  <2>5. QED
    BY <2>1, <2>3, <2>4 DEF Vacant, p
<1>10. e.c \in Runs
  BY <1>2, <1>3 DEF Timers
<1>11. QED
  BY <1>5, <1>8, <1>9, <1>10 DEF Core, S, e

LEMMA PopCall ==
  ASSUME NEW E, Core(Sys, E), calls # <<>>
  PROVE  LET f == Head(calls)
             S == [Sys EXCEPT !.calls = Tail(@)]
         IN  /\ Core(S, E) /\ f.c \in Runs /\ f.k \in FrameKinds
             /\ S.run = run
<1> DEFINE f == Head(calls)
           S == [Sys EXCEPT !.calls = Tail(@)]
<1>1. /\ DOMAIN S = DOMAIN Sys /\ S.run = Sys.run /\ S.states = Sys.states
      /\ S.posted = Sys.posted /\ S.calls = Tail(calls) /\ S.run = run
  BY DEF Sys
<1> HIDE DEF S
<1>2. Frames(calls) /\ IsSeq(calls)
  BY SysFacts, ShapeFacts DEF Core
<1>3. /\ IsSeq(Tail(calls)) /\ 1 \in DOMAIN calls /\ f = calls[1]
      /\ \A i \in DOMAIN Tail(calls) : i + 1 \in DOMAIN calls /\ Tail(calls)[i] = calls[i + 1]
  BY <1>2, SeqFacts
<1> HIDE DEF f
<1>4. Frames(S.calls)
  BY <1>1, <1>2, <1>3 DEF Frames
<1>5. Core(S, E)
  BY <1>1, <1>4, CallsCore
<1>6. f.c \in Runs /\ f.k \in FrameKinds
  BY <1>2, <1>3 DEF Frames
<1>7. QED
  BY <1>1, <1>5, <1>6 DEF S, f


\* No recall, no query: and with recalls the relays are not counted.
LEMMA ExemptFacts == "memory" \in Features => \A c \in Runs : c \in Exempt
  BY DEF Exempt

LEMMA ReturnInv == IInv /\ Return => IInv'
<1> SUFFICES ASSUME IInv, Return PROVE IInv'
  OBVIOUS
<1> DEFINE f == Head(calls)
           S == [Sys EXCEPT !.calls = Tail(@)]
           c == f.c
<1>1. Core(Sys, Exempt) /\ calls # <<>>
  BY DEF IInv, Return
<1>2. Core(S, Exempt) /\ c \in Runs /\ f.k \in FrameKinds
  BY <1>1, PopCall
<1>3. PICK x \in Inputs :
        CASE ~run[c].alive -> Become(S)
          [] run[c].alive /\ f.k = "slot" -> Become(onSlotAvailable(S, c, x))
          [] run[c].alive /\ f.k = "drain" -> Become(drainPendingSubagentReactions(S, c))
          [] run[c].alive /\ f.k = "tail" -> Become(cascadeTail(S, c, x))
          [] run[c].alive /\ f.k = "finished" ->
               IF f.req = 0 \/ f.req # run[c].req THEN Become(S)
               ELSE \E o \in Outcomes(c), k \in Answers(c) :
                      Become(onRequestFinished(S, c, o, k, x))
          [] run[c].alive /\ f.k = "errored" ->
               IF f.req = 0 \/ f.req # run[c].req THEN Become(S)
               ELSE Become(onRequestError([S EXCEPT !.run[c].relay = None], c))
          [] run[c].alive /\ f.k = "dtor" -> Become(destroyRun(S, c))
  BY DEF Return
<1> DEFINE r == [S.run[c] EXCEPT !.relay = None]
           R == [S EXCEPT !.run[c].relay = None]
<1>4. R = Edit(S, c, r)
  BY DEF Edit
<1> HIDE DEF f, S, c, R
<1>5. Members(S.run[c])
  BY <1>2 DEF Core, Shape
<1>6. Members(r) /\ r.held = S.run[c].held /\ r.relay = None
  BY <1>5, MemberFacts DEF Members
<1> HIDE DEF r
<1>7. Core(R, Exempt)
  BY <1>2, <1>4, <1>6, EditCore
<1>8. /\ Core(onSlotAvailable(S, c, x), Exempt) /\ Core(cascadeTail(S, c, x), Exempt)
      /\ Core(drainPendingSubagentReactions(S, c), Exempt)
      /\ Core(destroyRun(S, c), Exempt) /\ Core(onRequestError(R, c), Exempt)
  BY <1>2, <1>7, TailCore, ReactionsCore, DestroyCore, RequestErrorCore
<1>9. \A o \in Outcomes(c), k \in Answers(c) : Core(onRequestFinished(S, c, o, k, x), Exempt)
  BY <1>2, AnswerFacts, OutcomeFacts, RequestFinishedCore
<1>10. \/ Become(S) \/ Become(onSlotAvailable(S, c, x))
       \/ Become(drainPendingSubagentReactions(S, c)) \/ Become(cascadeTail(S, c, x))
       \/ \E o \in Outcomes(c), k \in Answers(c) : Become(onRequestFinished(S, c, o, k, x))
       \/ Become(onRequestError(R, c)) \/ Become(destroyRun(S, c))
  <2>1. CASE ~run[c].alive
    BY <1>3, <2>1
  <2>2. CASE run[c].alive
    <3>1. CASE f.k = "slot"
      BY <1>3, <2>2, <3>1
    <3>2. CASE f.k = "drain"
      BY <1>3, <2>2, <3>2
    <3>3. CASE f.k = "tail"
      BY <1>3, <2>2, <3>3
    <3>4. CASE f.k = "finished"
      BY <1>3, <2>2, <3>4
    <3>5. CASE f.k = "errored"
      BY <1>3, <2>2, <3>5 DEF R
    <3>6. CASE f.k = "dtor"
      BY <1>3, <2>2, <3>6
    <3>7. QED
      BY <1>2, <3>1, <3>2, <3>3, <3>4, <3>5, <3>6 DEF FrameKinds
  <2>3. QED
    BY <2>1, <2>2
<1>11. QED
  BY <1>2, <1>8, <1>9, <1>10, BecomeInv

LEMMA FireTimerInv == IInv /\ FireTimer => IInv'
<1> SUFFICES ASSUME IInv, FireTimer PROVE IInv'
  OBVIOUS
<1> DEFINE e == Head(posted)
           S == [Sys EXCEPT !.posted = Tail(@)]
<1>1. Core(Sys, Exempt) /\ posted # <<>>
  BY DEF IInv, FireTimer
<1>2. Core(S, Exempt) /\ e.c \in Runs
      /\ (e.k = "grant" => e.p \in Providers /\ Vacant(S, Exempt, e.p))
  BY <1>1, PopTimer
<1>3. PICK x \in Inputs : \/ e.k = "grant" /\ Become(onGranted(S, e, x))
                          \/ Become(buildAndSendRequest(S, e.c, x))
                          \/ Become(dispatchSubagentReaction(S, e.c))
                          \/ Become(S)
  BY DEF FireTimer
<1> HIDE DEF e, S
<1>4. e.k = "grant" => Core(onGranted(S, e, x), Exempt)
  BY <1>2, GrantedCore
<1>5. Core(buildAndSendRequest(S, e.c, x), Exempt) /\ Core(dispatchSubagentReaction(S, e.c), Exempt)
  BY <1>2, BuildAndSendCore, ReactionCore
<1>6. QED
  BY <1>2, <1>3, <1>4, <1>5, BecomeInv

LEMMA ReportsInv ==
  ASSUME NEW p \in Providers, NEW k \in {"finished", "errored"}, IInv, ProviderReports(p, k)
  PROVE  IInv'
<1> DEFINE W == {c \in Runs : run[c].relay = p}
           awaiting == SetToSeq(W)
           n == Len(awaiting)
           frames == [i \in 1..n |-> Call(k, awaiting[i], run[awaiting[i]].req)]
           P == Push(Sys, frames)
           T == [P EXCEPT !.wire[p] = None]
<1>1. Core(Sys, Exempt)
  BY DEF IInv
<1>2. Become(T)
  BY DEF ProviderReports
<1>3. IsFiniteSet(W) /\ W \subseteq Runs
  BY RunsAssumption, FS_Subset
<1> HIDE DEF W
<1>4. awaiting \in [1..Cardinality(W) -> W] /\ Cardinality(W) \in Nat
  BY <1>3, EnumFacts
<1> HIDE DEF awaiting
<1>5. n \in Nat /\ n = Cardinality(W) /\ awaiting \in [1..n -> Runs]
  <2>1. awaiting \in Seq(W)
    BY <1>4, SeqDef
  <2>2. DOMAIN awaiting = 1..n /\ DOMAIN awaiting = 1..Cardinality(W) /\ n \in Nat
    BY <1>4, <2>1, LenProperties
  <2>3. n = Cardinality(W)
    BY <1>4, <2>1, <2>2, LenProperties
  <2>4. QED
    BY <1>3, <1>4, <2>2, <2>3
<1> HIDE DEF n
<1>6. \A i \in 1..n : frames[i].c \in Runs /\ frames[i].k \in FrameKinds
  BY <1>5 DEF Call, FrameKinds
<1>7. frames = [i \in 1..n |-> frames[i]]
  OBVIOUS
<1> HIDE DEF frames
<1>8. Frames(frames)
  BY <1>5, <1>6, <1>7, FramesOf
<1>9. Core(P, Exempt)
  BY <1>1, <1>8, PushCore
<1> HIDE DEF P
<1>10. Shape(P)
  BY <1>9 DEF Core
<1>11. DOMAIN T = DOMAIN P /\ T.run = P.run /\ T.states = P.states /\ T.posted = P.posted
       /\ T.calls = P.calls
  BY <1>10, ShapeFacts
<1> HIDE DEF T
<1>12. Core(T, Exempt)
  BY <1>9, <1>11, SameCore
<1>13. QED
  BY <1>2, <1>12, BecomeInv


LEMMA AgentTerminalInv ==
  ASSUME NEW c \in Runs, IInv, AgentTerminal(c)
  PROVE  IInv'
<1> DEFINE p == run[c].exec
           r == [Sys.run[c] EXCEPT !.exec = None]
           T == [Sys EXCEPT !.run[c].exec = None, !.wire[p] = IF @ = c THEN None ELSE @]
<1>1. Core(Sys, Exempt) /\ Shape(Sys) /\ Members(Sys.run[c])
  BY DEF IInv, Core, Shape
<1>2. Become(onAgentTerminal(T, c))
  BY DEF AgentTerminal
<1>3. Members(r) /\ r.held = Sys.run[c].held /\ r.relay = Sys.run[c].relay
  BY <1>1, MemberFacts DEF Members
<1>4. DOMAIN T = DOMAIN Sys /\ T.states = Sys.states /\ T.calls = Sys.calls
      /\ T.posted = Sys.posted /\ Put(Sys.run, T.run, c, r)
  BY <1>1, ShapeFacts DEF Put
<1> HIDE DEF r, T
<1>5. Core(T, Exempt)
  BY <1>1, <1>3, <1>4, PutRunCore
<1>6. QED
  BY <1>2, <1>5, AgentTerminalCore, BecomeInv

LEMMA RecallInv ==
  ASSUME NEW c \in Runs, IInv, MemoryRetrievalReady(c)
  PROVE  IInv'
<1> DEFINE r == [Sys.run[c] EXCEPT !.query = "none"]
           S == [Sys EXCEPT !.run[c].query = "none"]
<1>1. Core(Sys, Exempt) /\ Shape(Sys) /\ Members(Sys.run[c])
  BY DEF IInv, Core, Shape
<1>2. PICK x \in Inputs : \/ Become(buildAndDispatchDirect(S, c, x))
                          \/ Become(dispatchAgentTurn(S, c, x))
  BY DEF MemoryRetrievalReady
<1>3. c \in Exempt
  <2>1. Sys.run[c].query # "none"
    BY SysFacts DEF MemoryRetrievalReady
  <2>2. QED
    BY <1>1, <2>1, ExemptFacts DEF Members
<1>4. S = Edit(Sys, c, r)
  BY DEF Edit
<1>5. Members(r) /\ r.held = Sys.run[c].held /\ r.relay = Sys.run[c].relay
  BY <1>1, MemberFacts DEF Members
<1> HIDE DEF r, S
<1>6. Core(S, Exempt)
  BY <1>1, <1>4, <1>5, EditCore
<1>7. Core(buildAndDispatchDirect(S, c, x), Exempt) /\ Core(dispatchAgentTurn(S, c, x), Exempt)
  BY <1>3, <1>6, BuildDirectCore, DispatchAgentCore
<1>8. QED
  BY <1>2, <1>7, BecomeInv

LEMMA BatchInv ==
  ASSUME NEW c \in Runs, IInv, ToolBatchCompleted(c)
  PROVE  IInv'
<1>1. Core(Sys, Exempt) /\ Shape(Sys) /\ Members(Sys.run[c])
  BY DEF IInv, Core, Shape
<1>2. PICK a \in {anchor} \cup Opt("plan") :
        \/ Become(onCascadeMemberTurnStarted([Sys EXCEPT !.run[c].batch = FALSE, !.anchor = a], c))
        \/ \E x \in Inputs :
             Become(buildAndSendRequest([[Sys EXCEPT !.run[c].batch = FALSE, !.anchor = a]
                                          EXCEPT !.run[c].stream = TRUE], c, x))
  BY DEF ToolBatchCompleted
<1> DEFINE r == [Sys.run[c] EXCEPT !.batch = FALSE]
           S == [Sys EXCEPT !.run[c].batch = FALSE, !.anchor = a]
           t == [S.run[c] EXCEPT !.stream = TRUE]
           T == [S EXCEPT !.run[c].stream = TRUE]
<1>3. Members(r) /\ r.held = Sys.run[c].held /\ r.relay = Sys.run[c].relay
  BY <1>1, MemberFacts DEF Members
<1>4. DOMAIN S = DOMAIN Sys /\ S.states = Sys.states /\ S.calls = Sys.calls
      /\ S.posted = Sys.posted /\ Put(Sys.run, S.run, c, r)
  BY <1>1, ShapeFacts DEF Put
<1>5. T = Edit(S, c, t)
  BY DEF Edit
<1>6. \/ Become(onCascadeMemberTurnStarted(S, c))
      \/ \E x \in Inputs : Become(buildAndSendRequest(T, c, x))
  BY <1>2
<1> HIDE DEF r, S, T
<1>7. Core(S, Exempt)
  BY <1>1, <1>3, <1>4, PutRunCore
<1>8. Members(S.run[c])
  BY <1>7 DEF Core, Shape
<1>9. Members(t) /\ t.held = S.run[c].held /\ t.relay = S.run[c].relay
  BY <1>8, MemberFacts DEF Members
<1> HIDE DEF t
<1>10. Core(T, Exempt)
  BY <1>5, <1>7, <1>9, EditCore
<1>11. Core(onCascadeMemberTurnStarted(S, c), Exempt)
       /\ \A x \in Inputs : Core(buildAndSendRequest(T, c, x), Exempt)
  BY <1>7, <1>10, MemberTurnCore, BuildAndSendCore
<1>12. QED
  BY <1>6, <1>11, BecomeInv

LEMMA ConfirmInv ==
  ASSUME NEW c \in Runs, IInv, ConfirmerFinished(c)
  PROVE  IInv'
<1> DEFINE r == [Sys.run[c] EXCEPT !.confirm = 0]
           S == [Sys EXCEPT !.run[c].confirm = 0]
<1>1. Core(Sys, Exempt) /\ Shape(Sys) /\ Members(Sys.run[c])
  BY DEF IInv, Core, Shape
<1>2. \/ Become(S) \/ Become(postBuild(S, c))
      \/ \E k \in Answers(c), x \in Inputs : Become(finishTurnRouting(S, c, k, x))
  BY DEF ConfirmerFinished
<1>3. S = Edit(Sys, c, r)
  BY DEF Edit
<1>4. Members(r) /\ r.held = Sys.run[c].held /\ r.relay = Sys.run[c].relay
  BY <1>1, MemberFacts DEF Members
<1> HIDE DEF r, S
<1>5. Core(S, Exempt)
  BY <1>1, <1>3, <1>4, EditCore
<1>6. Core(postBuild(S, c), Exempt)
      /\ \A k \in Answers(c), x \in Inputs : Core(finishTurnRouting(S, c, k, x), Exempt)
  BY <1>5, PostBuildCore, RoutingCore, AnswerFacts
<1>7. QED
  BY <1>2, <1>5, <1>6, BecomeInv

LEMMA VerdictInv ==
  ASSUME NEW c \in Runs, IInv, VerdictReady(c)
  PROVE  IInv'
<1> DEFINE r == [Sys.run[c] EXCEPT !.verdict = 0]
           S == [Sys EXCEPT !.run[c].verdict = 0]
<1>1. Core(Sys, Exempt) /\ Shape(Sys) /\ Members(Sys.run[c])
  BY DEF IInv, Core, Shape
<1>2. \E k \in Answers(c), x \in Inputs : Become(routeOrFinalize(S, c, k, x))
  BY DEF VerdictReady
<1>3. S = Edit(Sys, c, r)
  BY DEF Edit
<1>4. Members(r) /\ r.held = Sys.run[c].held /\ r.relay = Sys.run[c].relay
  BY <1>1, MemberFacts DEF Members
<1> HIDE DEF r, S
<1>5. Core(S, Exempt)
  BY <1>1, <1>3, <1>4, EditCore
<1>6. \A k \in Answers(c), x \in Inputs : Core(routeOrFinalize(S, c, k, x), Exempt)
  BY <1>5, RoutingCore, AnswerFacts
<1>7. QED
  BY <1>2, <1>6, BecomeInv

\* The actions of users, sessions and services.
LEMMA ImageInv ==
  ASSUME NEW c \in Runs, IInv, ImageGenerated(c)
  PROVE  IInv'
<1> DEFINE r == [Sys.run[c] EXCEPT !.stream = TRUE, !.inflight = TRUE, !.gen = TRUE,
                                   !.stopped = FALSE, !.left = MaxContinuations]
           e == [k |-> "build", c |-> c]
           U == Edit(Sys, c, r)
           T == [Sys EXCEPT !.run[c] =
                  [@ EXCEPT !.stream = TRUE, !.inflight = TRUE, !.gen = TRUE,
                            !.stopped = FALSE, !.left = MaxContinuations],
                  !.posted = Append(@, e)]
<1>1. Core(Sys, Exempt) /\ Shape(Sys) /\ Members(Sys.run[c])
  BY DEF IInv, Core, Shape
<1>2. Become(T)
  BY DEF ImageGenerated
<1>3. Members(r) /\ r.held = Sys.run[c].held /\ r.relay = Sys.run[c].relay
  BY <1>1, MemberFacts DEF Members
<1>4. /\ DOMAIN T = DOMAIN U /\ T.run = U.run /\ T.states = U.states /\ T.calls = U.calls
      /\ T.posted = Append(U.posted, e)
  BY <1>1, ShapeFacts DEF Edit
<1> HIDE DEF r, T
<1>5. Core(U, Exempt)
  BY <1>1, <1>3, EditCore
<1>6. e.c \in Runs /\ e.k # "grant"
  OBVIOUS
<1> HIDE DEF U, e
<1>7. Core(T, Exempt)
  BY <1>4, <1>5, <1>6, PostCore
<1>8. QED
  BY <1>2, <1>7, BecomeInv

LEMMA TaskStartedInv ==
  ASSUME NEW c \in Runs, IInv, TaskStarted(c)
  PROVE  IInv'
<1> DEFINE r == [Sys.run[c] EXCEPT !.batch = FALSE, !.stream = TRUE, !.gen = TRUE,
                                   !.stopped = FALSE, !.left = MaxContinuations]
           T == [Sys EXCEPT !.run[c] =
                  [@ EXCEPT !.batch = FALSE, !.stream = TRUE, !.gen = TRUE,
                            !.stopped = FALSE, !.left = MaxContinuations],
                  !.anchor = TRUE]
<1>1. Core(Sys, Exempt) /\ Shape(Sys) /\ Members(Sys.run[c])
  BY DEF IInv, Core, Shape
<1>2. PICK x \in Inputs : Become(buildAndSendRequest(T, c, x))
  BY DEF TaskStarted
<1>3. Members(r) /\ r.held = Sys.run[c].held /\ r.relay = Sys.run[c].relay
  BY <1>1, MemberFacts DEF Members
<1>4. DOMAIN T = DOMAIN Sys /\ T.states = Sys.states /\ T.calls = Sys.calls
      /\ T.posted = Sys.posted /\ Put(Sys.run, T.run, c, r)
  BY <1>1, ShapeFacts DEF Put
<1> HIDE DEF r, T
<1>5. Core(T, Exempt)
  BY <1>1, <1>3, <1>4, PutRunCore
<1>6. QED
  BY <1>2, <1>5, BuildAndSendCore, BecomeInv

LEMMA PlansStoppedInv ==
  ASSUME IInv,
         \/ PlanStopped
         \/ \E c \in Runs : AllPlansStopped(c)
  PROVE  IInv'
<1> DEFINE S == [Sys EXCEPT !.anchor = FALSE]
<1>1. Core(Sys, Exempt) /\ Shape(Sys)
  BY DEF IInv, Core
<1>2. \/ Become(S)
      \/ \E c \in Runs : Become(stopGeneration(S, c))
  BY DEF PlanStopped, AllPlansStopped
<1>3. DOMAIN S = DOMAIN Sys /\ S.run = Sys.run /\ S.states = Sys.states
      /\ S.calls = Sys.calls /\ S.posted = Sys.posted
  BY <1>1, ShapeFacts
<1> HIDE DEF S
<1>4. Core(S, Exempt)
  BY <1>1, <1>3, SameCore
<1>5. QED
  BY <1>2, <1>4, StopCore, BecomeInv

LEMMA DeleteInv ==
  ASSUME NEW c \in Runs, IInv, DestroySession(c) \/ DeleteConversation(c)
  PROVE  IInv'
<1> DEFINE S == Push(Sys, <<Call("dtor", c, 0)>>)
<1>1. Core(Sys, Exempt)
  BY DEF IInv
<1>2. Become(S) \/ Become(Push(S, slotAvailable)) \/ Become(stopGeneration(S, c))
  BY DEF DestroySession, DeleteConversation
<1>3. Core(S, Exempt)
  BY <1>1, OneFrame, PushCore DEF FrameKinds
<1> HIDE DEF S
<1>4. Core(Push(S, slotAvailable), Exempt)
  BY <1>3, SlotAvailableFrames, PushCore
<1>5. QED
  BY <1>2, <1>3, <1>4, StopCore, BecomeInv

LEMMA UserInv ==
  ASSUME NEW c \in Runs, IInv, Send(c) \/ Stop(c) \/ Reaction(c)
  PROVE  IInv'
<1>1. Core(Sys, Exempt)
  BY DEF IInv
<1>2. \/ \E x \in Inputs : Become(sendMessage(Sys, c, x))
      \/ Become(stopGeneration(Sys, c)) \/ Become(dispatchSubagentReaction(Sys, c))
  BY DEF Send, Stop, Reaction
<1>3. QED
  BY <1>1, <1>2, SendMessageCore, StopCore, ReactionCore, BecomeInv


---------------------------------------------------------------------------
\* Theorems

LEMMA EmptyIsSeq == IsSeq(<<>>) /\ DOMAIN <<>> = {}
<1>1. <<>> \in Seq({})
  OBVIOUS
<1>2. DOMAIN <<>> = {}
  OBVIOUS
<1>3. QED
  BY <1>1, <1>2, SeqIsSeq

LEMMA InitInv == Init => IInv
<1> SUFFICES ASSUME Init PROVE IInv
  OBVIOUS
<1>1. run = [c \in Runs |-> NewRun] /\ states = [p \in Providers |-> ProviderState]
      /\ posted = <<>> /\ calls = <<>>
  BY DEF Init
<1>2. NewRun.held = None /\ NewRun.relay = None /\ NewRun.query = "none"
  BY DEF NewRun
<1>3. Members(NewRun)
  BY <1>2 DEF Members
<1>4. ProviderState.inFlight = 0 /\ ProviderState.limit = 1 /\ ProviderState.queue = <<>>
  BY DEF ProviderState
<1>5. Bucket(ProviderState)
  BY <1>4, EmptyIsSeq DEF Bucket
<1>6. Timers(posted) /\ Frames(calls)
  BY <1>1, EmptyIsSeq DEF Timers, Frames
<1>7. Shape(Sys)
  BY <1>1, <1>3, <1>5, <1>6, Domains, SysFacts DEF Shape
<1>8. ASSUME NEW p \in Providers PROVE Apart(Sys, Exempt, p)
  <2>1. \A c \in Runs : ~Owns(Sys, Exempt, c, p)
    BY <1>1, <1>2, SysFacts, RunsAssumption DEF Owns
  <2>2. DOMAIN Sys.posted = {}
    BY <1>1, SysFacts, EmptyIsSeq
  <2>3. QED
    BY <2>1, <2>2 DEF Apart
<1>9. QED
  BY <1>7, <1>8 DEF IInv, Core

LEMMA StutterInv == IInv /\ UNCHANGED vars => IInv'
<1> SUFFICES ASSUME IInv, UNCHANGED vars PROVE IInv'
  OBVIOUS
<1>1. Sys' = Sys
  BY DEF vars, Sys
<1>2. QED
  BY <1>1 DEF IInv

\* Every step keeps the slots apart, one lemma an action.
LEMMA NextInv == IInv /\ [Next]_vars => IInv'
<1> SUFFICES ASSUME IInv, [Next]_vars PROVE IInv'
  OBVIOUS
<1>1. CASE Return
  BY <1>1, ReturnInv
<1>2. CASE FireTimer
  BY <1>2, FireTimerInv
<1>3. CASE PlanStopped \/ \E c \in Runs : AllPlansStopped(c)
  BY <1>3, PlansStoppedInv
<1>4. ASSUME NEW p \in Providers, RequestFinished(p) \/ RequestError(p) PROVE IInv'
  <2>1. ProviderReports(p, "finished") \/ ProviderReports(p, "errored")
    BY <1>4 DEF RequestFinished, RequestError
  <2>2. QED
    BY <2>1, ReportsInv
<1>5. ASSUME NEW c \in Runs, WorkerAnswers(c) PROVE IInv'
  BY <1>5, AgentTerminalInv, RecallInv, BatchInv, ConfirmInv, VerdictInv DEF WorkerAnswers
<1>6. ASSUME NEW c \in Runs, Send(c) \/ Stop(c) \/ Reaction(c) PROVE IInv'
  BY <1>6, UserInv
<1>7. ASSUME NEW c \in Runs, ImageGenerated(c) PROVE IInv'
  BY <1>7, ImageInv
<1>8. ASSUME NEW c \in Runs, TaskStarted(c) PROVE IInv'
  BY <1>8, TaskStartedInv
<1>9. ASSUME NEW c \in Runs, DestroySession(c) \/ DeleteConversation(c) PROVE IInv'
  BY <1>9, DeleteInv
<1>10. CASE UNCHANGED vars
  BY <1>10, StutterInv
<1>11. QED
  BY <1>1, <1>2, <1>3, <1>4, <1>5, <1>6, <1>7, <1>8, <1>9, <1>10 DEF Next

\* In every reachable state, in the middle of a handler too, the slot of a
\* provider is owned by one run, or by one posted grant, or by nobody.
THEOREM SlotHasOneOwner == Spec => []IInv
<1>1. Init => IInv
  BY InitInv
<1>2. IInv /\ [Next]_vars => IInv'
  BY NextInv
<1>3. QED
  BY <1>1, <1>2, PTL DEF Spec

\* A set whose elements are all equal has at most one.
LEMMA AtMostOne ==
  ASSUME NEW X, \A a, b \in X : a = b
  PROVE  IsFiniteSet(X) /\ Cardinality(X) \in {0, 1} /\ (Cardinality(X) = 0 <=> X = {})
<1>1. CASE X = {}
  BY <1>1, FS_EmptySet
<1>2. CASE X # {}
  <2>1. PICK a \in X : X = {a}
    BY <1>2
  <2>2. IsFiniteSet(X) /\ Cardinality(X) = 1
    BY <2>1, FS_Singleton
  <2>3. QED
    BY <1>2, <2>2
<1>3. QED
  BY <1>1, <1>2

LEMMA OneOwnerSharesNothing == IInv => SlotNeverShared
<1> SUFFICES ASSUME IInv, NEW p \in Providers
             PROVE  /\ Cardinality(Holders(p)) + Cardinality(PostedGrants(p))
                         <= states[p].inFlight
                    /\ states[p].inFlight <= states[p].limit
  BY DEF SlotNeverShared
<1>1. Apart(Sys, Exempt, p) /\ Bucket(states[p])
  BY SysFacts DEF IInv, Core, Shape
<1>2. \A c \in Holders(p) : c \in Runs /\ Owns(Sys, Exempt, c, p)
  BY SysFacts DEF Holders, Owns
<1>3. \A i \in PostedGrants(p) : i \in DOMAIN Sys.posted /\ IsGrant(Sys.posted[i], p)
  BY SysFacts DEF PostedGrants, IsGrant
<1>4. /\ \A c, d \in Holders(p) : c = d
      /\ \A i, j \in PostedGrants(p) : i = j
      /\ \A c \in Holders(p), i \in PostedGrants(p) : FALSE
      /\ \A c \in Holders(p) : states[p].inFlight = 1
      /\ \A i \in PostedGrants(p) : states[p].inFlight = 1
  BY <1>1, <1>2, <1>3, SysFacts DEF Apart
<1>5. states[p].inFlight \in {0, 1} /\ states[p].limit = 1
  BY <1>1, BucketFacts
<1>6. Holders(p) = {} \/ PostedGrants(p) = {}
  BY <1>4
<1>7. /\ Cardinality(Holders(p)) \in {0, 1} /\ Cardinality(PostedGrants(p)) \in {0, 1}
      /\ Cardinality(Holders(p)) = 0 <=> Holders(p) = {}
      /\ Cardinality(PostedGrants(p)) = 0 <=> PostedGrants(p) = {}
  BY <1>4, AtMostOne
<1>8. Holders(p) # {} \/ PostedGrants(p) # {} => states[p].inFlight = 1
  BY <1>4
<1>9. QED
  BY <1>5, <1>6, <1>7, <1>8

\* provider-scheduler.h:33-36: the runs that hold a slot of a provider and the
\* grants of one still posted are never more than the slots in flight, nor
\* those than the capacity, with every kind of event.
THEOREM SlotIsNeverShared == Spec => []SlotNeverShared
<1>1. IInv => SlotNeverShared
  BY OneOwnerSharesNothing
<1>2. QED
  BY <1>1, SlotHasOneOwner, PTL

\* No two runs are wired to one provider, whose signals name no request: a
\* reply reaches one run, as long as no turn waits for a recall.
THEOREM RepliesReachOneRun ==
  ASSUME "memory" \notin Features
  PROVE  Spec => []NoCrossTalk
<1>1. IInv => NoCrossTalk
  <2> SUFFICES ASSUME IInv, NEW c \in Runs, NEW d \in Runs, run[c].relay = run[d].relay,
                      c # d, run[c].relay # None
               PROVE  FALSE
    BY DEF NoCrossTalk
  <2>1. run[c].relay \in Providers
    BY SysFacts, ShapeFacts DEF IInv, Core
  <2>2. Apart(Sys, Exempt, run[c].relay)
    BY <2>1 DEF IInv, Core
  <2>3. Owns(Sys, Exempt, c, run[c].relay) /\ Owns(Sys, Exempt, d, run[c].relay)
    BY SysFacts DEF Owns, Exempt
  <2>4. QED
    BY <2>2, <2>3 DEF Apart
<1>2. QED
  BY <1>1, SlotHasOneOwner, PTL


---------------------------------------------------------------------------
\* Turns that nobody stops

\* A waiting run's wake-up call: its grant, or the timer that builds.
Wakes(e, c) == e.c = c /\ e.k \in {"grant", "build"}

\* What a run that generates waits for, one of them at a time.
Modes == {"idle", "wired", "agent", "waits", "granted", "batch", "query", "confirm",
          "verdict", "build"}

\* The members of a run in mode m.  Inside a handler it may be "free", with
\* nothing under way, "called", with a grant just taken, or it only "holds".
Row(r, m) ==
  /\ r.alive
  /\ m \in Modes => r.gen = (m # "idle")
  /\ m \in Modes \ {"idle"} => r.inflight
  /\ r.held \in IF m \in {"wired", "agent", "holds"} THEN Providers ELSE {None}
  /\ r.relay = IF m = "wired" THEN r.held ELSE None
  /\ r.exec = IF m = "agent" THEN r.held ELSE None
  /\ m # "called" =>
       r.waiting \in IF m \in {"waits", "granted"} THEN Providers ELSE {None}
  /\ r.batch = (m = "batch")
  /\ r.query = IF m # "query" THEN "none" ELSE IF r.usingAgent THEN "agent" ELSE "direct"
  /\ r.confirm = IF m = "confirm" THEN r.req ELSE 0
  /\ r.verdict = IF m = "verdict" THEN r.req ELSE 0
  /\ r.usingAgent \in BOOLEAN
  /\ r.usingAgent => m \in {"agent", "waits", "granted", "query", "free", "called", "holds"}
  /\ m = "agent" => r.usingAgent
  /\ m \in {"wired", "waits", "granted", "query", "build"} => r.stream
  /\ m \in Modes \ {"idle", "build"} => r.req # 0

\* A run stands in a queue only when it waits there, once, for this request.
Queued(st, r, c, m) ==
  /\ \A p \in Providers : \A i \in DOMAIN st[p].queue : st[p].queue[i].waiterId = c =>
       /\ m = "waits" /\ p = r.waiting
       /\ st[p].queue[i].onGranted = [req |-> r.req, agent |-> r.usingAgent]
       /\ \A j \in DOMAIN st[p].queue : st[p].queue[j].waiterId = c => i = j
  /\ m = "waits" => \E i \in DOMAIN st[r.waiting].queue : st[r.waiting].queue[i].waiterId = c

\* A timer wakes a run only when it waits for that one.
Timed(q, r, c, m) ==
  /\ \A i \in DOMAIN q : Wakes(q[i], c) =>
       /\ m = IF q[i].k = "grant" THEN "granted" ELSE "build"
       /\ q[i].k = "grant" => /\ q[i].p = r.waiting /\ q[i].req = r.req
                              /\ q[i].agent = r.usingAgent
       /\ \A j \in DOMAIN q : Wakes(q[j], c) => i = j
  /\ m \in {"granted", "build"} => \E i \in DOMAIN q : Wakes(q[i], c)

At(S, c, m) ==
  Row(S.run[c], m) /\ Queued(S.states, S.run[c], c, m) /\ Timed(S.posted, S.run[c], c, m)

\* Calls that end something: a provider's report, a teardown.
Reports == {"finished", "errored", "dtor"}
NoReports(q) == \A i \in DOMAIN q : q[i].k \notin Reports

\* A provider works for the run that awaits it.
Wired(S, c) ==
  DOMAIN S.wire = Providers /\ (S.run[c].relay # None => S.wire[S.run[c].relay] = c)

\* A slot in flight has an owner, except those of X.
Accounted(S, X) ==
  \A p \in Providers \ X : S.states[p].inFlight = 1 =>
    \/ \E c \in Runs : S.run[c].held = p
    \/ \E i \in DOMAIN S.posted : IsGrant(S.posted[i], p)

\* Run c is in mode m and the others are in order.
Turns(S, E, X, c, m) ==
  /\ Core(S, E) /\ NoReports(S.calls) /\ Accounted(S, X)
  /\ \A d \in Runs : Wired(S, d)
  /\ At(S, c, m)
  /\ \A d \in Runs \ {c} : \E n \in Modes : At(S, d, n)

Whole(S, E) ==
  /\ Core(S, E) /\ NoReports(S.calls) /\ Accounted(S, {})
  /\ \A d \in Runs : Wired(S, d) /\ \E n \in Modes : At(S, d, n)

LEMMA TurnsWhole ==
  ASSUME NEW S, NEW E, NEW c \in Runs
  PROVE  /\ \A m \in Modes : Turns(S, E, {}, c, m) => Whole(S, E)
         /\ Whole(S, E) => \E m \in Modes : Turns(S, E, {}, c, m)
         /\ \A m \in Modes : Whole(S, E) /\ At(S, c, m) => Turns(S, E, {}, c, m)
<1>1. ASSUME NEW m \in Modes, Turns(S, E, {}, c, m) PROVE Whole(S, E)
  <2>1. \A d \in Runs : \E n \in Modes : At(S, d, n)
    BY <1>1 DEF Turns
  <2>2. QED
    BY <1>1, <2>1 DEF Turns, Whole
<1>2. QED
  BY <1>1 DEF Turns, Whole

\* Neither a queue place nor a timer belongs to these modes.
Parked == {"idle", "wired", "agent", "batch", "query", "confirm", "verdict", "free", "called",
           "holds"}

LEMMA ParkedFacts ==
  ASSUME NEW st, NEW q, NEW r, NEW c, NEW m \in Parked, Queued(st, r, c, m), Timed(q, r, c, m)
  PROVE  /\ \A p \in Providers : \A i \in DOMAIN st[p].queue : st[p].queue[i].waiterId # c
         /\ \A i \in DOMAIN q : ~Wakes(q[i], c)
         /\ \A s : \A n \in Parked : Queued(st, s, c, n) /\ Timed(q, s, c, n)
<1>1. m \notin {"waits", "granted", "build"}
  BY DEF Parked
<1>2. /\ \A p \in Providers : \A i \in DOMAIN st[p].queue : st[p].queue[i].waiterId # c
      /\ \A i \in DOMAIN q : ~Wakes(q[i], c)
  BY <1>1 DEF Queued, Timed
<1>3. \A n \in Parked : n \notin {"waits", "granted", "build"}
  BY DEF Parked
<1>4. QED
  BY <1>2, <1>3 DEF Queued, Timed

\* The members of one run change, its slot and timers do not.
LEMMA PutTurn ==
  ASSUME NEW E, NEW S, NEW X, NEW c \in Runs, NEW m \in Parked, Turns(S, E, X, c, m),
         NEW T, Core(T, E), NoReports(T.calls), T.states = S.states, T.posted = S.posted,
         NEW r, Put(S.run, T.run, c, r), NEW n \in Parked, Row(r, n), r.held = S.run[c].held,
         \A d \in Runs : Wired(T, d)
  PROVE  Turns(T, E, X, c, n)
<1>1. T.run[c] = r /\ \A d \in Runs \ {c} : T.run[d] = S.run[d]
  BY ShapeFacts DEF Put, Turns, Core
<1>2. At(T, c, n)
  BY <1>1, ParkedFacts DEF Turns, At
<1>3. \A d \in Runs \ {c} : \E l \in Modes : At(T, d, l)
  BY <1>1 DEF Turns, At
<1>4. Accounted(T, X)
  BY <1>1 DEF Turns, Accounted
<1>5. QED
  BY <1>2, <1>3, <1>4 DEF Turns

\* The same, with the same work on the wire.
LEMMA EditTurn ==
  ASSUME NEW E, NEW S, NEW X, NEW c \in Runs, NEW m \in Parked, Turns(S, E, X, c, m),
         NEW T, DOMAIN T = DOMAIN S, NoReports(T.calls), Frames(T.calls), T.states = S.states,
         T.posted = S.posted, T.wire = S.wire,
         NEW r, Members(r), Put(S.run, T.run, c, r), NEW n \in Parked, Row(r, n),
         r.held = S.run[c].held, r.relay \in {S.run[c].relay, None}
  PROVE  Turns(T, E, X, c, n)
<1>1. T.run[c] = r /\ \A d \in Runs \ {c} : T.run[d] = S.run[d]
  BY ShapeFacts DEF Put, Turns, Core
<1>2. \A d \in Runs : Wired(T, d)
  BY <1>1 DEF Turns, Wired
<1>3. Core(T, E)
  <2> DEFINE U == [S EXCEPT !.calls = T.calls]
  <2>1. Core(S, E) /\ Shape(S)
    BY DEF Turns, Core
  <2>2. DOMAIN U = DOMAIN S /\ U.run = S.run /\ U.states = S.states /\ U.posted = S.posted
        /\ U.calls = T.calls
    BY <2>1, ShapeFacts
  <2> HIDE DEF U
  <2>3. Core(U, E)
    BY <2>1, <2>2, CallsCore
  <2>4. QED
    BY <2>2, <2>3, PutRunCore
<1>4. QED
  BY <1>2, <1>3, PutTurn

\* A handler called from this one is noted.
LEMMA PushTurn ==
  ASSUME NEW E, NEW S, NEW X, NEW c \in Runs, NEW m, Turns(S, E, X, c, m),
         NEW frames, Frames(frames), NoReports(frames)
  PROVE  Turns(Push(S, frames), E, X, c, m)
<1> DEFINE T == Push(S, frames)
<1>1. Core(S, E) /\ Shape(S)
  BY DEF Turns, Core
<1>2. /\ Core(T, E) /\ T.run = S.run /\ T.states = S.states /\ T.posted = S.posted
      /\ T.calls = frames \o S.calls /\ DOMAIN T = DOMAIN S
  BY <1>1, PushCore
<1>3. T.wire = S.wire
  BY <1>1, ShapeFacts DEF Push
<1> HIDE DEF T
<1>4. NoReports(T.calls)
  <2>1. IsSeq(frames) /\ IsSeq(S.calls)
    BY <1>1, ShapeFacts DEF Frames
  <2> DEFINE q == frames \o S.calls
  <2>2. \A i \in DOMAIN q : \/ i \in DOMAIN frames /\ q[i] = frames[i]
                            \/ i - Len(frames) \in DOMAIN S.calls
                               /\ q[i] = S.calls[i - Len(frames)]
    BY <2>1, ConcatFacts
  <2> HIDE DEF q
  <2>3. NoReports(q)
    BY <2>2 DEF NoReports, Turns
  <2>4. QED
    BY <1>2, <2>3 DEF q
<1>5. /\ At(T, c, m) /\ \A d \in Runs : Wired(T, d)
      /\ \A d \in Runs \ {c} : \E n \in Modes : At(T, d, n)
      /\ Accounted(T, X)
  BY <1>2, <1>3 DEF Turns, At, Wired, Accounted
<1>6. QED
  BY <1>2, <1>4, <1>5 DEF Turns, T

\* What a run holds and awaits is its slot's provider.
LEMMA HeldFacts ==
  ASSUME NEW S, NEW d, NEW m, At(S, d, m)
  PROVE  /\ S.run[d].relay \in {S.run[d].held, None}
         /\ m \in {"wired", "agent", "holds"} => S.run[d].held \in Providers
         /\ m \notin {"wired", "agent", "holds"} => S.run[d].held = None
  BY DEF At, Row

\* The work on the wire of the provider whose slot a run holds changes.
LEMMA WireTurn ==
  ASSUME NEW E, NEW S, NEW c \in Runs, NEW m \in {"wired", "agent", "holds"},
         Turns(S, E, {}, c, m), NEW T, DOMAIN T = DOMAIN S, T.calls = S.calls,
         T.states = S.states, T.posted = S.posted, NEW p, p = S.run[c].held,
         DOMAIN T.wire = DOMAIN S.wire, \A q \in Providers \ {p} : T.wire[q] = S.wire[q],
         NEW r, Members(r), Put(S.run, T.run, c, r), NEW n \in {"wired", "agent", "holds"},
         Row(r, n), r.held = p, n = "wired" => T.wire[p] = c
  PROVE  Turns(T, E, {}, c, n)
<1>1. T.run[c] = r /\ \A d \in Runs \ {c} : T.run[d] = S.run[d]
  BY ShapeFacts DEF Put, Turns, Core
<1>2. p \in Providers
  BY HeldFacts DEF Turns
<1>3. r.relay = IF n = "wired" THEN p ELSE None
  BY DEF Row
<1>4. Core(T, E)
  BY <1>3, PutRunCore DEF Turns
<1>5. ASSUME NEW d \in Runs PROVE Wired(T, d)
  <2>0. DOMAIN T.wire = Providers
    BY DEF Turns, Wired
  <2>1. CASE d = c
    BY <1>1, <1>3, <2>0, <2>1 DEF Wired
  <2>2. CASE d # c
    <3>1. T.run[d] = S.run[d] /\ Wired(S, d)
      BY <1>1, <2>2 DEF Turns
    <3>2. S.run[d].relay # None => S.run[d].relay = S.run[d].held
      BY <2>2, HeldFacts DEF Turns
    <3>3. S.run[d].relay # None => S.run[d].relay \in Providers
      BY ShapeFacts DEF Turns, Core
    <3>4. S.run[d].held # p
      <4>1. Apart(S, E, p)
        BY <1>2 DEF Turns, Core
      <4>2. QED
        BY <2>2, <4>1 DEF Apart, Owns
    <3>5. QED
      BY <2>0, <3>1, <3>2, <3>3, <3>4 DEF Wired
  <2>3. QED
    BY <2>1, <2>2
<1>6. m \in Parked /\ n \in Parked
  BY DEF Parked
<1>7. NoReports(T.calls)
  BY DEF Turns
<1>8. QED
  BY <1>4, <1>5, <1>6, <1>7, PutTurn

\* A run takes a slot that is counted and nobody's.
LEMMA TakeTurn ==
  ASSUME NEW E, NEW S, NEW c \in Runs, NEW p \in Providers, NEW m \in {"free", "called"},
         Turns(S, E, {p}, c, m), Vacant(S, E, p), NEW T, DOMAIN T = DOMAIN S,
         T.calls = S.calls, T.states = S.states, T.posted = S.posted, T.wire = S.wire,
         NEW r, Members(r), Put(S.run, T.run, c, r), Row(r, "holds"), r.held = p
  PROVE  Turns(T, E, {}, c, "holds")
<1>1. T.run[c] = r /\ \A d \in Runs \ {c} : T.run[d] = S.run[d]
  BY ShapeFacts DEF Put, Turns, Core
<1>2. r.relay = None
  BY DEF Row
<1>3. Core(T, E)
  BY <1>2, TakeCore DEF Turns
<1>4. \A d \in Runs : Wired(T, d)
  BY <1>1, <1>2 DEF Turns, Wired
<1>5. At(T, c, "holds")
  <2>1. m \in Parked /\ "holds" \in Parked
    BY DEF Parked
  <2>2. QED
    BY <1>1, <2>1, ParkedFacts DEF Turns, At
<1>6. \A d \in Runs \ {c} : \E l \in Modes : At(T, d, l)
  BY <1>1 DEF Turns, At
<1>7. Accounted(T, {})
  <2>1. S.run[c].held = None
    BY HeldFacts DEF Turns
  <2>2. ASSUME NEW q \in Providers, T.states[q].inFlight = 1
        PROVE  \/ \E d \in Runs : T.run[d].held = q
               \/ \E i \in DOMAIN T.posted : IsGrant(T.posted[i], q)
    <3>1. CASE q = p
      BY <1>1, <3>1
    <3>2. CASE q # p
      <4>1. \/ \E d \in Runs : S.run[d].held = q
            \/ \E i \in DOMAIN S.posted : IsGrant(S.posted[i], q)
        BY <2>2, <3>2 DEF Turns, Accounted
      <4>2. \A d \in Runs : S.run[d].held = q => d # c
        BY <2>1, RunsAssumption
      <4>3. QED
        BY <1>1, <4>1, <4>2
    <3>3. QED
      BY <3>1, <3>2
  <2>3. QED
    BY <2>2 DEF Accounted
<1>8. QED
  BY <1>3, <1>4, <1>5, <1>6, <1>7 DEF Turns

\* One more timer.
LEMMA TimedLonger ==
  ASSUME NEW q, IsSeq(q), NEW e, NEW t, Longer(q, t, e), NEW c
  PROVE  /\ \A r, m : ~Wakes(e, c) /\ Timed(q, r, c, m) => Timed(t, r, c, m)
         /\ \A r, m : /\ Wakes(e, c) /\ \A i \in DOMAIN q : ~Wakes(q[i], c)
                      /\ m = IF e.k = "grant" THEN "granted" ELSE "build"
                      /\ e.k = "grant" => e.p = r.waiting /\ e.req = r.req
                                          /\ e.agent = r.usingAgent
                      => Timed(t, r, c, m)
<1>1. /\ DOMAIN t = 1..(Len(q) + 1) /\ t[Len(q) + 1] = e /\ Len(q) \in Nat
      /\ \A i \in DOMAIN q : t[i] = q[i] /\ i \in DOMAIN t
      /\ DOMAIN q = 1..Len(q)
  BY AppendFacts, SeqFacts DEF Longer
<1>2. \A i \in DOMAIN t : i \in DOMAIN q \/ i = Len(q) + 1
  BY <1>1
<1>3. Len(q) + 1 \in DOMAIN t
  BY <1>1
<1>4. ASSUME NEW r, NEW m, ~Wakes(e, c), Timed(q, r, c, m) PROVE Timed(t, r, c, m)
  <2>1. \A i \in DOMAIN t : Wakes(t[i], c) => i \in DOMAIN q /\ t[i] = q[i]
    BY <1>1, <1>2, <1>4
  <2>2. QED
    BY <1>1, <1>4, <2>1 DEF Timed
<1>5. ASSUME NEW r, NEW m, Wakes(e, c), \A i \in DOMAIN q : ~Wakes(q[i], c),
             m = IF e.k = "grant" THEN "granted" ELSE "build",
             e.k = "grant" => e.p = r.waiting /\ e.req = r.req /\ e.agent = r.usingAgent
      PROVE  Timed(t, r, c, m)
  <2>1. \A i \in DOMAIN t : Wakes(t[i], c) => i = Len(q) + 1 /\ t[i] = e
    BY <1>1, <1>2, <1>5
  <2>2. QED
    BY <1>1, <1>3, <1>5, <2>1 DEF Timed
<1>6. QED
  BY <1>4, <1>5

LEMMA TimedTail ==
  ASSUME NEW q, IsSeq(q), q # <<>>, NEW c
  PROVE  /\ \A r, m : ~Wakes(Head(q), c) /\ Timed(q, r, c, m) => Timed(Tail(q), r, c, m)
         /\ \A r, m, s : \A n \in Parked :
              Wakes(Head(q), c) /\ Timed(q, r, c, m) => Timed(Tail(q), s, c, n)
<1> DEFINE t == Tail(q)
           h == Head(q)
<1>1. /\ IsSeq(t) /\ Len(t) = Len(q) - 1 /\ Len(q) \in Nat \ {0} /\ 1 \in DOMAIN q /\ h = q[1]
      /\ \A i \in DOMAIN t : i + 1 \in DOMAIN q /\ t[i] = q[i + 1]
      /\ DOMAIN q = 1..Len(q)
  BY SeqFacts
<1>2. DOMAIN t = 1..Len(t)
  BY <1>1, SeqFacts
<1> HIDE DEF t, h
<1>3. /\ \A i \in DOMAIN t : i \in Nat /\ i + 1 # 1
      /\ \A i, j \in DOMAIN t : i + 1 = j + 1 => i = j
      /\ \A i \in DOMAIN q : i # 1 => i - 1 \in DOMAIN t /\ q[i] = t[i - 1]
  <2>1. \A i \in DOMAIN q : i # 1 => i - 1 \in DOMAIN t /\ (i - 1) + 1 = i
    BY <1>1, <1>2
  <2>2. QED
    BY <1>1, <1>2, <2>1
<1>4. ASSUME NEW r, NEW m, ~Wakes(h, c), Timed(q, r, c, m) PROVE Timed(t, r, c, m)
  <2>1. ASSUME m \in {"granted", "build"} PROVE \E i \in DOMAIN t : Wakes(t[i], c)
    <3>1. PICK i \in DOMAIN q : Wakes(q[i], c)
      BY <1>4, <2>1 DEF Timed
    <3>2. QED
      BY <1>1, <1>3, <1>4, <3>1
  <2>2. \A i \in DOMAIN t : Wakes(t[i], c) => Wakes(q[i + 1], c)
    BY <1>1
  <2>3. \A i \in DOMAIN t : Wakes(t[i], c) =>
          /\ m = IF t[i].k = "grant" THEN "granted" ELSE "build"
          /\ t[i].k = "grant" => /\ t[i].p = r.waiting /\ t[i].req = r.req
                                 /\ t[i].agent = r.usingAgent
    BY <1>1, <1>4, <2>2 DEF Timed
  <2>4. \A i, j \in DOMAIN t : Wakes(t[i], c) /\ Wakes(t[j], c) => i = j
    BY <1>1, <1>3, <1>4, <2>2 DEF Timed
  <2>5. QED
    BY <2>1, <2>3, <2>4 DEF Timed
<1>5. ASSUME NEW r, NEW m, NEW s, NEW n \in Parked, Wakes(h, c), Timed(q, r, c, m)
      PROVE  Timed(t, s, c, n)
  <2>1. \A i \in DOMAIN t : ~Wakes(t[i], c)
    BY <1>1, <1>3, <1>5 DEF Timed
  <2>2. QED
    BY <2>1 DEF Timed, Parked
<1>6. QED
  BY <1>4, <1>5 DEF t, h

---------------------------------------------------------------------------
\* Places in a queue

LEMMA ReleaseQueue ==
  ASSUME NEW st, Bucket(st), st.inFlight = 1
  PROVE  release(st).queue = IF st.queue # <<>> THEN Tail(st.queue) ELSE st.queue
<1>1. GrantsOnRelease(st) <=> st.queue # <<>>
  BY DEF GrantsOnRelease
<1>2. CASE st.queue # <<>>
  <2> DEFINE d == [st EXCEPT !.inFlight = @ - 1]
             u == [d EXCEPT !.inFlight = @ + 1, !.queue = Tail(@)]
  <2>1. release(st) = recordPeak(u)
    BY <1>1, <1>2 DEF release, grantHead
  <2>2. DOMAIN d = DOMAIN st /\ d.queue = st.queue
    BY BucketFacts
  <2> HIDE DEF d
  <2>3. DOMAIN u = DOMAIN st /\ u.queue = Tail(st.queue)
    BY <2>2, BucketFacts
  <2> HIDE DEF u
  <2>4. recordPeak(u).queue = u.queue
    BY <2>3, BucketFacts DEF recordPeak
  <2>5. QED
    BY <1>2, <2>1, <2>3, <2>4
<1>3. CASE st.queue = <<>>
  <2>1. release(st) = [st EXCEPT !.inFlight = @ - 1]
    BY <1>1, <1>3 DEF release
  <2>2. QED
    BY <1>3, <2>1, BucketFacts
<1>4. QED
  BY <1>2, <1>3

LEMMA AcquireQueue ==
  ASSUME NEW st, Bucket(st), NEW w, NEW cb
  PROVE  LET a == acquire(st, w, cb)
         IN  /\ a.granted => a.st.queue = st.queue
             /\ ~a.granted /\ (\A i \in DOMAIN st.queue : st.queue[i].waiterId # w)
                  => /\ Longer(st.queue, a.st.queue, [waiterId |-> w, onGranted |-> cb])
                     /\ st.inFlight = 1
<1> DEFINE a == acquire(st, w, cb)
<1>0. st.inFlight \in {0, 1} /\ st.limit = 1
  BY DEF Bucket
<1>1. CASE st.inFlight = 0
  <2> DEFINE u == [st EXCEPT !.inFlight = @ + 1]
  <2>1. a.st = recordPeak(u) /\ a.granted
    BY <1>0, <1>1 DEF acquire
  <2>2. DOMAIN u = DOMAIN st /\ u.queue = st.queue
    BY BucketFacts
  <2> HIDE DEF u
  <2>3. recordPeak(u).queue = u.queue
    BY <2>2, BucketFacts DEF recordPeak
  <2>4. QED
    BY <2>1, <2>2, <2>3
<1>2. CASE st.inFlight = 1
  <2> DEFINE e == [waiterId |-> w, onGranted |-> cb]
  <2>1. ~a.granted
    BY <1>0, <1>2 DEF acquire
  <2>2. ASSUME \A i \in DOMAIN st.queue : st.queue[i].waiterId # w
        PROVE  a.st.queue = Append(st.queue, e)
    <3>1. QueueIndex(st.queue, w) = 0
      BY <2>2 DEF QueueIndex
    <3>2. a.st = [st EXCEPT !.queue = Append(@, e)]
      BY <1>0, <1>2, <3>1 DEF acquire
    <3> HIDE DEF e, a
    <3>3. QED
      BY <3>2, BucketFacts
  <2>3. QED
    BY <1>2, <2>1, <2>2 DEF Longer
<1>3. QED
  BY <1>0, <1>1, <1>2

\* The bucket of p alone changes.
LEMMA QueuedApart ==
  ASSUME NEW st, NEW t, NEW p, \A q \in Providers \ {p} : t[q] = st[q], NEW c, NEW r, NEW m,
         Queued(st, r, c, m), m = "waits" => r.waiting \in Providers
  PROVE  /\ t[p].queue = st[p].queue => Queued(t, r, c, m)
         /\ (\A i \in DOMAIN t[p].queue : t[p].queue[i].waiterId # c)
              /\ m # "waits" => Queued(t, r, c, m)
<1>1. ASSUME t[p].queue = st[p].queue PROVE Queued(t, r, c, m)
  <2>1. \A q \in Providers : t[q].queue = st[q].queue
    BY <1>1
  <2>2. m = "waits" => t[r.waiting].queue = st[r.waiting].queue
    BY <1>1, <2>1 DEF Queued
  <2>3. QED
    BY <2>1, <2>2 DEF Queued
<1>2. QED
  BY <1>1 DEF Queued

\* One more waiter.
LEMMA QueuedLonger ==
  ASSUME NEW st, NEW t, NEW p \in Providers, \A q \in Providers \ {p} : t[q] = st[q],
         IsSeq(st[p].queue), NEW e, Longer(st[p].queue, t[p].queue, e), NEW c
  PROVE  /\ \A r, m : /\ e.waiterId # c /\ Queued(st, r, c, m)
                      /\ m = "waits" => r.waiting \in Providers
                      => Queued(t, r, c, m)
         /\ \A r : /\ e.waiterId = c /\ r.waiting = p
                   /\ e.onGranted = [req |-> r.req, agent |-> r.usingAgent]
                   /\ \A q \in Providers : \A i \in DOMAIN st[q].queue :
                        st[q].queue[i].waiterId # c
                   => Queued(t, r, c, "waits")
<1> DEFINE x == st[p].queue
           y == t[p].queue
<1>1. /\ DOMAIN y = 1..(Len(x) + 1) /\ y[Len(x) + 1] = e /\ Len(x) \in Nat
      /\ \A i \in DOMAIN x : y[i] = x[i] /\ i \in DOMAIN y
      /\ DOMAIN x = 1..Len(x)
  BY AppendFacts, SeqFacts DEF Longer
<1>2. \A i \in DOMAIN y : i \in DOMAIN x \/ i = Len(x) + 1
  BY <1>1
<1>3. Len(x) + 1 \in DOMAIN y
  BY <1>1
<1> HIDE DEF x, y
<1>4. ASSUME NEW r, NEW m, e.waiterId # c, Queued(st, r, c, m),
             m = "waits" => r.waiting \in Providers
      PROVE  Queued(t, r, c, m)
  <2>1. \A i \in DOMAIN y : y[i].waiterId = c => i \in DOMAIN x /\ y[i] = x[i]
    BY <1>1, <1>2, <1>4
  <2>2. ASSUME NEW q \in Providers, NEW i \in DOMAIN t[q].queue, t[q].queue[i].waiterId = c
        PROVE  /\ m = "waits" /\ q = r.waiting
               /\ t[q].queue[i].onGranted = [req |-> r.req, agent |-> r.usingAgent]
               /\ \A j \in DOMAIN t[q].queue : t[q].queue[j].waiterId = c => i = j
    <3>1. CASE q = p
      <4>1. i \in DOMAIN x /\ t[q].queue[i] = st[q].queue[i]
        BY <2>1, <2>2, <3>1 DEF x, y
      <4>2. \A j \in DOMAIN t[q].queue : t[q].queue[j].waiterId = c =>
              j \in DOMAIN st[q].queue /\ t[q].queue[j] = st[q].queue[j]
        BY <2>1, <3>1 DEF x, y
      <4>3. i \in DOMAIN st[q].queue /\ st[q].queue[i].waiterId = c
        BY <2>2, <3>1, <4>1 DEF x
      <4>4. QED
        BY <1>4, <4>1, <4>2, <4>3 DEF Queued
    <3>2. CASE q # p
      <4>1. t[q] = st[q]
        BY <3>2
      <4>2. QED
        BY <1>4, <2>2, <4>1 DEF Queued
    <3>3. QED
      BY <3>1, <3>2
  <2>3. ASSUME m = "waits"
        PROVE  \E i \in DOMAIN t[r.waiting].queue : t[r.waiting].queue[i].waiterId = c
    <3>1. PICK i \in DOMAIN st[r.waiting].queue : st[r.waiting].queue[i].waiterId = c
      BY <1>4, <2>3 DEF Queued
    <3>2. CASE r.waiting = p
      BY <1>1, <3>1, <3>2 DEF x, y
    <3>3. CASE r.waiting # p
      BY <1>4, <2>3, <3>1, <3>3
    <3>4. QED
      BY <3>2, <3>3
  <2>4. QED
    BY <2>2, <2>3 DEF Queued
<1>5. ASSUME NEW r, e.waiterId = c, r.waiting = p,
             e.onGranted = [req |-> r.req, agent |-> r.usingAgent],
             \A q \in Providers : \A i \in DOMAIN st[q].queue : st[q].queue[i].waiterId # c
      PROVE  Queued(t, r, c, "waits")
  <2>1. \A i \in DOMAIN y : y[i].waiterId = c => i = Len(x) + 1 /\ y[i] = e
    BY <1>1, <1>2, <1>5 DEF x
  <2>2. ASSUME NEW q \in Providers, NEW i \in DOMAIN t[q].queue, t[q].queue[i].waiterId = c
        PROVE  q = p /\ i = Len(x) + 1 /\ t[q].queue[i] = e
    <3>1. q = p
      BY <1>5, <2>2
    <3>2. QED
      BY <2>1, <2>2, <3>1 DEF y
  <2>3. \E i \in DOMAIN t[p].queue : t[p].queue[i].waiterId = c
    BY <1>1, <1>3, <1>5 DEF y
  <2>4. QED
    BY <1>5, <2>2, <2>3 DEF Queued
<1>6. QED
  BY <1>4, <1>5

\* The queue's head leaves it.
LEMMA QueuedTail ==
  ASSUME NEW st, NEW t, NEW p \in Providers, \A q \in Providers \ {p} : t[q] = st[q],
         IsSeq(st[p].queue), st[p].queue # <<>>, t[p].queue = Tail(st[p].queue),
         NEW c, NEW r, NEW m, Queued(st, r, c, m), m = "waits" => r.waiting \in Providers
  PROVE  /\ Head(st[p].queue).waiterId # c => Queued(t, r, c, m)
         /\ Head(st[p].queue).waiterId = c =>
              /\ m = "waits" /\ r.waiting = p
              /\ Head(st[p].queue).onGranted = [req |-> r.req, agent |-> r.usingAgent]
              /\ Queued(t, r, c, "granted")
<1> DEFINE x == st[p].queue
           y == t[p].queue
           h == Head(x)
<1>1. /\ IsSeq(y) /\ Len(y) = Len(x) - 1 /\ Len(x) \in Nat \ {0} /\ 1 \in DOMAIN x /\ h = x[1]
      /\ \A i \in DOMAIN y : i + 1 \in DOMAIN x /\ y[i] = x[i + 1]
      /\ DOMAIN x = 1..Len(x)
  BY SeqFacts
<1>2. DOMAIN y = 1..Len(y)
  BY <1>1, SeqFacts
<1> HIDE DEF x, y, h
<1>3. /\ \A i \in DOMAIN y : i \in Nat /\ i + 1 # 1
      /\ \A i, j \in DOMAIN y : i + 1 = j + 1 => i = j
      /\ \A i \in DOMAIN x : i # 1 => i - 1 \in DOMAIN y /\ x[i] = y[i - 1]
  <2>1. \A i \in DOMAIN x : i # 1 => i - 1 \in DOMAIN y /\ (i - 1) + 1 = i
    BY <1>1, <1>2
  <2>2. QED
    BY <1>1, <1>2, <2>1
<1>4. ASSUME h.waiterId # c PROVE Queued(t, r, c, m)
  <2>1. ASSUME NEW q \in Providers, NEW i \in DOMAIN t[q].queue, t[q].queue[i].waiterId = c
        PROVE  /\ m = "waits" /\ q = r.waiting
               /\ t[q].queue[i].onGranted = [req |-> r.req, agent |-> r.usingAgent]
               /\ \A j \in DOMAIN t[q].queue : t[q].queue[j].waiterId = c => i = j
    <3>1. CASE q = p
      <4>1. i \in DOMAIN y /\ y[i].waiterId = c /\ t[q].queue = y
        BY <2>1, <3>1 DEF y
      <4>2. i + 1 \in DOMAIN x /\ x[i + 1].waiterId = c /\ y[i] = x[i + 1]
        BY <1>1, <4>1
      <4>3. /\ m = "waits" /\ p = r.waiting
            /\ x[i + 1].onGranted = [req |-> r.req, agent |-> r.usingAgent]
            /\ \A j \in DOMAIN x : x[j].waiterId = c => i + 1 = j
        BY <4>2 DEF Queued, x
      <4>4. \A j \in DOMAIN y : y[j].waiterId = c => i = j
        BY <1>1, <1>3, <4>1, <4>3
      <4>5. QED
        BY <3>1, <4>1, <4>2, <4>3, <4>4
    <3>2. CASE q # p
      <4>1. t[q] = st[q]
        BY <3>2
      <4>2. QED
        BY <2>1, <4>1 DEF Queued
    <3>3. QED
      BY <3>1, <3>2
  <2>2. ASSUME m = "waits"
        PROVE  \E i \in DOMAIN t[r.waiting].queue : t[r.waiting].queue[i].waiterId = c
    <3>1. PICK i \in DOMAIN st[r.waiting].queue : st[r.waiting].queue[i].waiterId = c
      BY <2>2 DEF Queued
    <3>2. CASE r.waiting = p
      <4>1. i \in DOMAIN x /\ x[i].waiterId = c /\ i # 1
        BY <1>1, <1>4, <3>1, <3>2 DEF x
      <4>2. i - 1 \in DOMAIN y /\ y[i - 1].waiterId = c
        BY <1>3, <4>1
      <4>3. QED
        BY <3>2, <4>2 DEF y
    <3>3. CASE r.waiting # p
      BY <2>2, <3>1, <3>3
    <3>4. QED
      BY <3>2, <3>3
  <2>3. QED
    BY <2>1, <2>2 DEF Queued
<1>5. ASSUME h.waiterId = c
      PROVE  /\ m = "waits" /\ r.waiting = p
             /\ h.onGranted = [req |-> r.req, agent |-> r.usingAgent]
             /\ Queued(t, r, c, "granted")
  <2>1. /\ m = "waits" /\ p = r.waiting
        /\ x[1].onGranted = [req |-> r.req, agent |-> r.usingAgent]
        /\ \A j \in DOMAIN x : x[j].waiterId = c => 1 = j
    BY <1>1, <1>5 DEF Queued, x
  <2>2. ASSUME NEW q \in Providers, NEW i \in DOMAIN t[q].queue, t[q].queue[i].waiterId = c
        PROVE  FALSE
    <3>1. CASE q = p
      BY <1>1, <1>3, <2>1, <2>2, <3>1 DEF y
    <3>2. CASE q # p
      <4>1. t[q] = st[q]
        BY <3>2
      <4>2. QED
        BY <2>1, <2>2, <3>2, <4>1 DEF Queued
    <3>3. QED
      BY <3>1, <3>2
  <2>3. QED
    BY <1>1, <2>1, <2>2 DEF Queued
<1>6. QED
  BY <1>4, <1>5 DEF x, h

---------------------------------------------------------------------------
\* A turn gives its slot back, asks for one, sets a timer

\* The slot goes to the head of the queue, whose grant is posted, or to nobody.
LEMMA GiveTurn ==
  ASSUME NEW E, NEW S, NEW c \in Runs, Turns(S, E, {}, c, "holds")
  PROVE  LET T == releaseProviderSlotIfHeld(S, c)
         IN  /\ Turns(T, E, {}, c, "free") /\ T.run[c] = [S.run[c] EXCEPT !.held = None]
             /\ T.anchor = S.anchor
<1> DEFINE p == S.run[c].held
           T == releaseProviderSlotIfHeld(S, c)
           r == [S.run[c] EXCEPT !.held = None]
           st == S.states[p]
           g == Grant(p, Head(st.queue))
<1>0. Core(S, E) /\ Shape(S) /\ Members(S.run[c]) /\ Row(S.run[c], "holds")
  BY DEF Turns, Core, Shape, At
<1>1. p \in Providers /\ S.run[c].relay = None /\ p # None
  BY <1>0, RunsAssumption DEF Row
<1>2. Core(T, E)
  BY <1>0, <1>1, ReleaseCore
<1>3. Members(r) /\ Row(r, "free") /\ r.held = None
  <2>1. Members(r)
    BY <1>0, MemberFacts DEF Members, Row, Modes
  <2>2. Row(r, "free") /\ r.held = None
    BY <1>0, MemberFacts DEF Members, Row, Modes
  <2>3. QED
    BY <2>1, <2>2
<1>4. /\ DOMAIN T = DOMAIN S /\ T.calls = S.calls /\ T.wire = S.wire /\ T.anchor = S.anchor
      /\ Put(S.run, T.run, c, r) /\ Put(S.states, T.states, p, release(st))
      /\ T.posted = IF GrantsOnRelease(st) THEN Append(S.posted, g) ELSE S.posted
  BY <1>0, <1>1, ShapeFacts DEF releaseProviderSlotIfHeld, Put
<1> HIDE DEF T, r
<1>5. T.run[c] = r /\ \A d \in Runs \ {c} : T.run[d] = S.run[d]
  BY <1>0, <1>4, ShapeFacts DEF Put
<1>6. /\ T.states[p] = release(st) /\ \A q \in Providers \ {p} : T.states[q] = S.states[q]
  BY <1>0, <1>1, <1>4, ShapeFacts DEF Put
<1>7. Bucket(st) /\ st.inFlight = 1 /\ IsSeq(st.queue)
  <2>1. Bucket(st) /\ Apart(S, E, p)
    BY <1>0, <1>1 DEF Core, Shape
  <2>2. QED
    BY <2>1, BucketFacts DEF Apart, Owns
<1>8. /\ GrantsOnRelease(st) <=> st.queue # <<>>
      /\ release(st).queue = IF st.queue # <<>> THEN Tail(st.queue) ELSE st.queue
      /\ st.queue = <<>> => release(st).inFlight = 0
  BY <1>7, ReleaseFacts, ReleaseQueue
<1>9. g.k = "grant" /\ g.p = p /\ g.c = Head(st.queue).waiterId
      /\ g.req = Head(st.queue).onGranted.req /\ g.agent = Head(st.queue).onGranted.agent
  BY DEF Grant
<1>10. st.queue # <<>> => Longer(S.posted, T.posted, g)
  BY <1>4, <1>8 DEF Longer
<1>11. st.queue = <<>> => T.posted = S.posted
  BY <1>4, <1>8
<1>12. IsSeq(S.posted)
  BY <1>0, ShapeFacts
<1> HIDE DEF p, st, g
<1>13. ASSUME NEW d \in Runs, NEW s, NEW m, Queued(S.states, s, d, m), Timed(S.posted, s, d, m),
              m = "waits" => s.waiting \in Providers
       PROVE  \/ Queued(T.states, s, d, m) /\ Timed(T.posted, s, d, m)
              \/ m = "waits" /\ Queued(T.states, s, d, "granted") /\ Timed(T.posted, s, d, "granted")
  <2>1. CASE st.queue = <<>>
    <3>1. T.states[p].queue = S.states[p].queue
      BY <1>6, <1>8, <2>1 DEF st
    <3>2. Queued(T.states, s, d, m)
      BY <1>1, <1>6, <1>13, <3>1, QueuedApart
    <3>3. QED
      BY <1>11, <1>13, <2>1, <3>2
  <2>2. CASE st.queue # <<>>
    <3>1. /\ p \in Providers /\ \A q \in Providers \ {p} : T.states[q] = S.states[q]
          /\ IsSeq(S.states[p].queue) /\ S.states[p].queue # <<>>
          /\ T.states[p].queue = Tail(S.states[p].queue)
          /\ Queued(S.states, s, d, m) /\ (m = "waits" => s.waiting \in Providers)
      BY <1>1, <1>6, <1>7, <1>8, <1>13, <2>2 DEF st
    <3> DEFINE x == S.states
               y == T.states
    <3>5. /\ p \in Providers /\ \A q \in Providers \ {p} : y[q] = x[q]
          /\ IsSeq(x[p].queue) /\ x[p].queue # <<>> /\ y[p].queue = Tail(x[p].queue)
          /\ Queued(x, s, d, m) /\ (m = "waits" => s.waiting \in Providers)
      BY <3>1
    <3> HIDE DEF x, y
    <3>6. /\ Head(x[p].queue).waiterId # d => Queued(y, s, d, m)
          /\ Head(x[p].queue).waiterId = d =>
               /\ m = "waits" /\ s.waiting = p
               /\ Head(x[p].queue).onGranted = [req |-> s.req, agent |-> s.usingAgent]
               /\ Queued(y, s, d, "granted")
      BY <3>5, QueuedTail
    <3>2. CASE Head(st.queue).waiterId # d
      <4>1. Queued(T.states, s, d, m)
        BY <3>2, <3>6 DEF st, x, y
      <4>2. ~Wakes(g, d)
        BY <1>9, <3>2 DEF Wakes
      <4>3. Timed(T.posted, s, d, m)
        BY <1>10, <1>12, <1>13, <2>2, <4>2, TimedLonger
      <4>4. QED
        BY <4>1, <4>3
    <3>3. CASE Head(st.queue).waiterId = d
      <4>1. /\ m = "waits" /\ s.waiting = p
            /\ Head(st.queue).onGranted = [req |-> s.req, agent |-> s.usingAgent]
            /\ Queued(T.states, s, d, "granted")
        BY <3>3, <3>6 DEF st, x, y
      <4>2. Wakes(g, d) /\ g.p = s.waiting /\ g.req = s.req /\ g.agent = s.usingAgent
        BY <1>9, <3>3, <4>1 DEF Wakes
      <4>3. \A i \in DOMAIN S.posted : ~Wakes(S.posted[i], d)
        BY <1>13, <4>1 DEF Timed
      <4>4. Timed(T.posted, s, d, "granted")
        BY <1>9, <1>10, <1>12, <2>2, <4>2, <4>3, TimedLonger
      <4>5. QED
        BY <4>1, <4>4
    <3>4. QED
      BY <3>2, <3>3
  <2>3. QED
    BY <2>1, <2>2
<1>14. At(T, c, "free")
  <2>1. Queued(S.states, S.run[c], c, "holds") /\ Timed(S.posted, S.run[c], c, "holds")
    BY DEF Turns, At
  <2>2. "holds" \in Parked /\ "free" \in Parked
    BY DEF Parked
  <2>3. Queued(S.states, r, c, "free") /\ Timed(S.posted, r, c, "free")
    BY <2>1, <2>2, ParkedFacts
  <2>4. Queued(T.states, r, c, "free") /\ Timed(T.posted, r, c, "free")
    BY <1>13, <2>3
  <2>5. QED
    BY <1>3, <1>5, <2>4 DEF At
<1>15. ASSUME NEW d \in Runs \ {c} PROVE \E n \in Modes : At(T, d, n)
  <2>1. PICK m \in Modes : At(S, d, m)
    BY DEF Turns
  <2>2. Row(S.run[d], m) /\ Queued(S.states, S.run[d], d, m) /\ Timed(S.posted, S.run[d], d, m)
    BY <2>1 DEF At
  <2>3. m = "waits" => S.run[d].waiting \in Providers /\ Row(S.run[d], "granted")
    BY <2>2 DEF Row, Modes
  <2>4. T.run[d] = S.run[d] /\ "granted" \in Modes
    BY <1>5 DEF Modes
  <2>5. QED
    BY <1>13, <2>2, <2>3, <2>4 DEF At
<1>16. Accounted(T, {})
  <2> SUFFICES ASSUME NEW q \in Providers, T.states[q].inFlight = 1
               PROVE  \/ \E d \in Runs : T.run[d].held = q
                      \/ \E i \in DOMAIN T.posted : IsGrant(T.posted[i], q)
    BY DEF Accounted
  <2>1. \A i \in DOMAIN S.posted : T.posted[i] = S.posted[i] /\ i \in DOMAIN T.posted
    BY <1>10, <1>11, <1>12, AppendFacts DEF Longer
  <2>2. CASE q = p
    <3>1. st.queue # <<>>
      BY <1>6, <1>8, <2>2
    <3>2. Len(S.posted) \in Nat
      BY <1>12, SeqFacts
    <3>3. /\ DOMAIN T.posted = 1..(Len(S.posted) + 1) /\ T.posted[Len(S.posted) + 1] = g
      BY <1>10, <1>12, <3>1, AppendFacts DEF Longer
    <3>4. Len(S.posted) + 1 \in DOMAIN T.posted
      BY <3>2, <3>3
    <3>5. QED
      BY <1>9, <2>2, <3>3, <3>4 DEF IsGrant
  <2>3. CASE q # p
    <3>1. \/ \E d \in Runs : S.run[d].held = q
          \/ \E i \in DOMAIN S.posted : IsGrant(S.posted[i], q)
      BY <1>6, <2>3 DEF Turns, Accounted
    <3>2. \A d \in Runs : S.run[d].held = q => T.run[d].held = q
      BY <1>5, <2>3 DEF p
    <3>3. QED
      BY <2>1, <3>1, <3>2
  <2>4. QED
    BY <2>2, <2>3
<1>17. NoReports(T.calls)
  BY <1>4 DEF Turns
<1>18. \A d \in Runs : Wired(T, d)
  <2>1. r.relay = None
    BY <1>3 DEF Row
  <2>2. QED
    BY <1>4, <1>5, <2>1 DEF Turns, Wired
<1>19. QED
  BY <1>2, <1>4, <1>5, <1>14, <1>15, <1>16, <1>17, <1>18 DEF Turns, T, r

\* What a run has when it asks for a slot.
Ready(r) == r.gen /\ r.inflight /\ r.stream /\ r.req # 0

\* A run asks for a slot: it is granted, or the run waits for it in the queue.
LEMMA AskTurn ==
  ASSUME NEW E, NEW S, NEW c \in Runs, Turns(S, E, {}, c, "free"), Ready(S.run[c]),
         NEW p \in Providers, NEW cb, cb = [req |-> S.run[c].req, agent |-> S.run[c].usingAgent],
         NEW U, DOMAIN U = DOMAIN S, U.run = S.run, U.posted = S.posted, U.calls = S.calls,
         U.wire = S.wire, Put(S.states, U.states, p, acquire(S.states[p], c, cb).st)
  PROVE  /\ acquire(S.states[p], c, cb).granted =>
              Turns(U, E, {p}, c, "free") /\ Vacant(U, E, p)
         /\ ~acquire(S.states[p], c, cb).granted =>
              Whole(Edit(U, c, [U.run[c] EXCEPT !.waiting = p]), E)
<1> DEFINE st == S.states[p]
           a == acquire(st, c, cb)
           r == [U.run[c] EXCEPT !.waiting = p]
           T == Edit(U, c, r)
<1>0. Core(S, E) /\ Shape(S) /\ Members(S.run[c]) /\ Row(S.run[c], "free") /\ Bucket(st)
  BY DEF Turns, Core, Shape, At
<1>1. Core(U, E) /\ (a.granted => Vacant(U, E, p))
  BY <1>0, AcquireCore
<1>2. /\ DOMAIN U.states = Providers /\ U.states[p] = a.st
      /\ \A q \in Providers \ {p} : U.states[q] = S.states[q]
  BY <1>0, ShapeFacts DEF Put
<1>3. /\ Queued(S.states, S.run[c], c, "free") /\ Timed(S.posted, S.run[c], c, "free")
      /\ \A q \in Providers : \A i \in DOMAIN S.states[q].queue : S.states[q].queue[i].waiterId # c
      /\ \A i \in DOMAIN S.posted : ~Wakes(S.posted[i], c)
  <2>1. Queued(S.states, S.run[c], c, "free") /\ Timed(S.posted, S.run[c], c, "free")
    BY DEF Turns, At
  <2>2. "free" \in Parked
    BY DEF Parked
  <2>3. QED
    BY <2>1, <2>2, ParkedFacts
<1> DEFINE e == [waiterId |-> c, onGranted |-> cb]
<1>4. /\ a.granted => a.st.queue = st.queue
      /\ ~a.granted => Longer(st.queue, a.st.queue, e) /\ st.inFlight = 1
  BY <1>0, <1>3, AcquireQueue
<1>5. \A d \in Runs, n \in Modes : At(S, d, n) =>
        /\ Row(S.run[d], n) /\ Queued(S.states, S.run[d], d, n)
        /\ Timed(S.posted, S.run[d], d, n) /\ (n = "waits" => S.run[d].waiting \in Providers)
  BY DEF At, Row, Modes
<1>6. IsSeq(st.queue)
  BY <1>0 DEF Bucket
<1>7. e.waiterId = c /\ e.onGranted = [req |-> S.run[c].req, agent |-> S.run[c].usingAgent]
  OBVIOUS
<1>8. \A d \in Runs : Wired(U, d)
  BY DEF Turns, Wired
<1>9. NoReports(U.calls)
  BY DEF Turns
<1>10. \A q \in Providers \ {p} : U.states[q].inFlight = 1 =>
         \/ \E d \in Runs : S.run[d].held = q
         \/ \E i \in DOMAIN S.posted : IsGrant(S.posted[i], q)
  BY <1>2 DEF Turns, Accounted
<1>11. \A d \in Runs \ {c} : \E n \in Modes : At(S, d, n)
  BY DEF Turns
<1> HIDE DEF st, a, e, r
<1>12. ASSUME a.granted PROVE Turns(U, E, {p}, c, "free") /\ Vacant(U, E, p)
  <2>1. U.states[p].queue = S.states[p].queue
    BY <1>2, <1>4, <1>12 DEF st
  <2>2. \A d, s, n : Queued(S.states, s, d, n) /\ (n = "waits" => s.waiting \in Providers)
          => Queued(U.states, s, d, n)
    BY <1>2, <2>1, QueuedApart
  <2>3. At(U, c, "free")
    BY <1>0, <1>3, <2>2 DEF At
  <2>4. \A d \in Runs \ {c} : \E n \in Modes : At(U, d, n)
    <3>1. \A d \in Runs, n \in Modes : At(S, d, n) => At(U, d, n)
      BY <1>5, <2>2 DEF At
    <3>2. QED
      BY <1>11, <3>1
  <2>5. Accounted(U, {p})
    BY <1>10 DEF Accounted
  <2>6. QED
    BY <1>1, <1>8, <1>9, <1>12, <2>3, <2>4, <2>5 DEF Turns
<1>13. ASSUME ~a.granted PROVE Whole(T, E)
  <2>0. S.states[p] = st /\ U.states[p].queue = a.st.queue
    BY <1>2 DEF st
  <2>1. /\ \A d, s, n : c # d /\ Queued(S.states, s, d, n) /\ (n = "waits" => s.waiting \in Providers)
             => Queued(U.states, s, d, n)
        /\ \A s : s.waiting = p /\ s.req = S.run[c].req /\ s.usingAgent = S.run[c].usingAgent
             => Queued(U.states, s, c, "waits")
    <3> DEFINE x == S.states
               y == U.states
    <3>1. /\ \A q \in Providers \ {p} : y[q] = x[q]
          /\ IsSeq(x[p].queue) /\ Longer(x[p].queue, y[p].queue, e)
          /\ \A q \in Providers : \A i \in DOMAIN x[q].queue : x[q].queue[i].waiterId # c
      BY <1>2, <1>3, <1>4, <1>6, <1>13, <2>0
    <3> HIDE DEF x, y
    <3>2. \A d, s, n : c # d /\ Queued(x, s, d, n) /\ (n = "waits" => s.waiting \in Providers)
            => Queued(y, s, d, n)
      BY <1>7, <3>1, QueuedLonger
    <3>5. e.waiterId = c
      BY <1>7
    <3>3. ASSUME NEW s, s.waiting = p, e.onGranted = [req |-> s.req, agent |-> s.usingAgent]
          PROVE  Queued(y, s, c, "waits")
      <4>1. \A t : /\ e.waiterId = c /\ t.waiting = p
                   /\ e.onGranted = [req |-> t.req, agent |-> t.usingAgent]
                   /\ \A q \in Providers : \A i \in DOMAIN x[q].queue :
                        x[q].queue[i].waiterId # c
                   => Queued(y, t, c, "waits")
        BY <3>1, QueuedLonger
      <4>2. QED
        BY <3>1, <3>3, <3>5, <4>1
    <3>4. \A s : s.waiting = p /\ s.req = S.run[c].req /\ s.usingAgent = S.run[c].usingAgent
                 => Queued(y, s, c, "waits")
      BY <1>7, <3>3
    <3>6. QED
      BY <3>2, <3>4 DEF x, y
  <2>2. /\ Members(r) /\ Row(r, "waits") /\ r.waiting = p /\ r.req = S.run[c].req
        /\ r.usingAgent = S.run[c].usingAgent /\ r.held = S.run[c].held
        /\ r.relay = S.run[c].relay
    <3>1. Members(r)
      BY <1>0, MemberFacts DEF r, Members, Row, Modes, Ready
    <3>2. /\ Row(r, "waits") /\ r.waiting = p /\ r.req = S.run[c].req
          /\ r.usingAgent = S.run[c].usingAgent /\ r.held = S.run[c].held
          /\ r.relay = S.run[c].relay
      BY <1>0, MemberFacts, ZenonT(40) DEF r, Members, Row, Modes, Ready
    <3>3. QED
      BY <3>1, <3>2
  <2>3. Shape(U)
    BY <1>1 DEF Core
  <2>4. /\ DOMAIN T = DOMAIN U /\ Put(U.run, T.run, c, r) /\ T.run[c] = r
        /\ T.states = U.states /\ T.posted = U.posted /\ T.calls = U.calls
    BY <2>3, EditFacts
  <2>5. T.wire = U.wire
    BY <2>3, ShapeFacts DEF Edit
  <2>6. Core(T, E)
    BY <1>1, <2>2, EditCore
  <2> HIDE DEF T
  <2>7. \A d \in Runs \ {c} : T.run[d] = S.run[d]
    BY <2>3, <2>4, ShapeFacts DEF Put
  <2>8. At(T, c, "waits")
    <3>1. Queued(T.states, r, c, "waits")
      BY <2>1, <2>2, <2>4
    <3>2. Timed(T.posted, r, c, "waits")
      BY <1>3, <2>4 DEF Timed
    <3>3. QED
      BY <2>2, <2>4, <3>1, <3>2 DEF At
  <2>9. ASSUME NEW d \in Runs \ {c} PROVE \E n \in Modes : At(T, d, n)
    <3>1. PICK n \in Modes : At(S, d, n)
      BY <1>11
    <3>2. Queued(U.states, S.run[d], d, n)
      BY <1>5, <2>1, <3>1
    <3>3. QED
      BY <1>5, <2>4, <2>7, <3>1, <3>2 DEF At
  <2>10. \A d \in Runs : Wired(T, d)
    <3>1. r.relay = None
      BY <2>2 DEF Row
    <3>2. QED
      BY <1>8, <2>4, <2>5, <2>7, <3>1 DEF Wired
  <2>11. Accounted(T, {})
    <3>1. \A q \in Providers : S.states[q].inFlight = 1 =>
            \/ \E d \in Runs : S.run[d].held = q
            \/ \E i \in DOMAIN S.posted : IsGrant(S.posted[i], q)
      BY DEF Turns, Accounted
    <3>2. \A q \in Providers : T.states[q].inFlight = 1 => S.states[q].inFlight = 1
      BY <1>2, <1>4, <1>13, <2>0, <2>4
    <3>3. \A d \in Runs : T.run[d].held = S.run[d].held
      BY <2>2, <2>4, <2>7
    <3>4. QED
      BY <2>4, <3>1, <3>2, <3>3 DEF Accounted
  <2>12. "waits" \in Modes
    BY DEF Modes
  <2>13. Turns(T, E, {}, c, "waits")
    BY <1>9, <2>4, <2>6, <2>8, <2>9, <2>10, <2>11 DEF Turns
  <2>14. QED
    BY <2>12, <2>13, TurnsWhole
<1>14. QED
  BY <1>12, <1>13 DEF a, st, r

\* What the modes look at.
Alike(r, s) ==
  /\ r.alive = s.alive /\ r.gen = s.gen /\ r.inflight = s.inflight /\ r.req = s.req
  /\ r.relay = s.relay /\ r.held = s.held /\ r.waiting = s.waiting /\ r.stream = s.stream
  /\ r.usingAgent = s.usingAgent /\ r.exec = s.exec /\ r.query = s.query
  /\ r.batch = s.batch /\ r.confirm = s.confirm /\ r.verdict = s.verdict

\* Other members of a run, the anchor or nothing change.
LEMMA SoftTurn ==
  ASSUME NEW E, NEW S, NEW T, DOMAIN T = DOMAIN S, T.calls = S.calls,
         T.states = S.states, T.posted = S.posted, T.wire = S.wire,
         NEW c \in Runs, NEW r, Members(r), Put(S.run, T.run, c, r), Alike(r, S.run[c])
  PROVE  /\ \A X, m : Turns(S, E, X, c, m) => Turns(T, E, X, c, m)
         /\ Whole(S, E) => Whole(T, E)
<1>1. ASSUME NEW X, NEW m, Turns(S, E, X, c, m) PROVE Turns(T, E, X, c, m)
  <2>1. Core(S, E) /\ Shape(S)
    BY <1>1 DEF Turns, Core
  <2>2. T.run[c] = r /\ \A d \in Runs \ {c} : T.run[d] = S.run[d]
    BY <2>1, ShapeFacts DEF Put
  <2>3. r.held = S.run[c].held /\ r.relay = S.run[c].relay
    BY DEF Alike
  <2>4. Core(T, E)
    BY <2>1, <2>3, PutRunCore
  <2>5. At(T, c, m)
    <3>1. At(S, c, m)
      BY <1>1 DEF Turns
    <3>2. Row(r, m)
      <4>1. Row(S.run[c], m)
        BY <3>1 DEF At
      <4> DEFINE s == S.run[c]
      <4>2. Alike(r, s) /\ Row(s, m)
        BY <4>1
      <4> HIDE DEF s
      <4>3. QED
        BY <4>2 DEF Row, Alike
    <3>3. Queued(S.states, r, c, m) /\ Timed(S.posted, r, c, m)
      BY <3>1, ZenonT(40) DEF At, Queued, Timed, Alike
    <3>4. QED
      BY <2>2, <3>2, <3>3 DEF At
  <2>6. \A d \in Runs \ {c} : \E n \in Modes : At(T, d, n)
    BY <1>1, <2>2 DEF Turns, At
  <2>7. \A d \in Runs : Wired(T, d) /\ T.run[d].held = S.run[d].held
    BY <1>1, <2>2, <2>3 DEF Turns, Wired
  <2>8. Accounted(T, X)
    BY <1>1, <2>7 DEF Turns, Accounted
  <2>9. QED
    BY <1>1, <2>4, <2>5, <2>6, <2>7, <2>8 DEF Turns
<1>2. ASSUME Whole(S, E) PROVE Whole(T, E)
  <2>1. PICK m \in Modes : Turns(S, E, {}, c, m)
    BY <1>2, TurnsWhole
  <2>2. QED
    BY <1>1, <2>1, TurnsWhole
<1>3. QED
  BY <1>1, <1>2

\* A reaction's timer wakes no turn.
LEMMA PostReact ==
  ASSUME NEW E, NEW S, Whole(S, E), NEW c \in Runs, NEW T, DOMAIN T = DOMAIN S,
         T.run = S.run, T.states = S.states, T.calls = S.calls, T.wire = S.wire,
         T.posted = Append(S.posted, [k |-> "react", c |-> c])
  PROVE  Whole(T, E)
<1> DEFINE e == [k |-> "react", c |-> c]
<1>0. e.c = c /\ e.k = "react"
  OBVIOUS
<1>1. T.posted = Append(S.posted, e) /\ Longer(S.posted, T.posted, e)
  BY DEF Longer
<1> HIDE DEF e
<1>2. Core(S, E) /\ IsSeq(S.posted)
  BY ShapeFacts DEF Whole, Core
<1>3. Core(T, E)
  BY <1>0, <1>1, <1>2, PostCore
<1>4. \A d \in Runs, n \in Modes : At(S, d, n) => At(T, d, n)
  <2>1. \A d : ~Wakes(e, d)
    BY <1>0 DEF Wakes
  <2>2. \A d, r, n : Timed(S.posted, r, d, n) => Timed(T.posted, r, d, n)
    BY <1>1, <1>2, <2>1, TimedLonger
  <2>3. QED
    BY <2>2 DEF At
<1>5. Accounted(T, {})
  <2>1. \A i \in DOMAIN S.posted : T.posted[i] = S.posted[i] /\ i \in DOMAIN T.posted
    BY <1>1, <1>2, AppendFacts
  <2>2. QED
    BY <2>1 DEF Whole, Accounted
<1>6. QED
  BY <1>3, <1>4, <1>5 DEF Whole, Wired

\* A run whose request is built from a timer.
LEMMA PostTurn ==
  ASSUME NEW E, NEW S, NEW c \in Runs, NEW m \in {"idle", "free"}, Turns(S, E, {}, c, m),
         NEW r, Members(r), Row(r, "build"), NEW T, DOMAIN T = DOMAIN S, Put(S.run, T.run, c, r),
         T.states = S.states, T.calls = S.calls, T.wire = S.wire,
         T.posted = Append(S.posted, [k |-> "build", c |-> c])
  PROVE  Whole(T, E)
<1> DEFINE e == [k |-> "build", c |-> c]
           U == [S EXCEPT !.run = T.run]
<1>0. e.c = c /\ e.k = "build"
  OBVIOUS
<1>1. T.posted = Append(S.posted, e) /\ Longer(S.posted, T.posted, e)
  BY DEF Longer
<1> HIDE DEF e
<1>2. Core(S, E) /\ Shape(S) /\ IsSeq(S.posted) /\ At(S, c, m)
  BY ShapeFacts DEF Turns, Core
<1>3. T.run[c] = r /\ \A d \in Runs \ {c} : T.run[d] = S.run[d]
  BY <1>2, ShapeFacts DEF Put
<1>4. r.held = None /\ r.relay = None /\ S.run[c].held = None
  BY <1>2 DEF Row, At
<1>5. DOMAIN U = DOMAIN S /\ U.run = T.run /\ U.states = S.states /\ U.posted = S.posted
      /\ U.calls = S.calls
  BY <1>2, ShapeFacts
<1> HIDE DEF U
<1>6. Core(U, E)
  BY <1>2, <1>4, <1>5, PutRunCore
<1>7. Core(T, E)
  BY <1>0, <1>1, <1>5, <1>6, PostCore
<1>8. ASSUME NEW d \in Runs \ {c} PROVE \E n \in Modes : At(T, d, n)
  <2>1. PICK n \in Modes : At(S, d, n)
    BY DEF Turns
  <2>2. ~Wakes(e, d)
    BY <1>0 DEF Wakes
  <2>3. Timed(T.posted, S.run[d], d, n)
    BY <1>1, <1>2, <2>1, <2>2, TimedLonger DEF At
  <2>4. QED
    BY <1>3, <2>1, <2>3 DEF At
<1>9. At(T, c, "build")
  <2>1. Queued(S.states, S.run[c], c, m) /\ Timed(S.posted, S.run[c], c, m) /\ m \in Parked
    BY <1>2 DEF At, Parked
  <2>2. /\ \A p \in Providers : \A i \in DOMAIN S.states[p].queue :
             S.states[p].queue[i].waiterId # c
        /\ \A i \in DOMAIN S.posted : ~Wakes(S.posted[i], c)
    BY <2>1, ParkedFacts
  <2>3. Queued(T.states, r, c, "build")
    BY <2>2 DEF Queued
  <2>4. Wakes(e, c)
    BY <1>0 DEF Wakes
  <2>5. Timed(T.posted, r, c, "build")
    BY <1>0, <1>1, <1>2, <2>2, <2>4, TimedLonger
  <2>6. QED
    BY <1>3, <2>3, <2>5 DEF At
<1>10. \A d \in Runs : Wired(T, d) /\ T.run[d].held = S.run[d].held
  BY <1>3, <1>4 DEF Turns, Wired
<1>11. Accounted(T, {})
  <2>1. \A i \in DOMAIN S.posted : T.posted[i] = S.posted[i] /\ i \in DOMAIN T.posted
    BY <1>1, <1>2, AppendFacts
  <2>2. QED
    BY <1>10, <2>1 DEF Turns, Accounted
<1>12. "build" \in Modes
  BY DEF Modes
<1>13. NoReports(T.calls)
  BY DEF Turns
<1>14. QED
  BY <1>7, <1>8, <1>9, <1>10, <1>11, <1>12, <1>13 DEF Whole

\* The oldest timer fires: its run was waiting for it, or it wakes no turn.
LEMMA PopTurn ==
  ASSUME NEW E, Whole(Sys, E), posted # <<>>
  PROVE  LET e == Head(posted)
             T == [Sys EXCEPT !.posted = Tail(@)]
         IN  /\ e.c \in Runs
             /\ e.k = "grant" =>
                  /\ e.p \in Providers /\ Vacant(T, E, e.p) /\ Turns(T, E, {e.p}, e.c, "called")
                  /\ T.run[e.c].req = e.req /\ T.run[e.c].usingAgent = e.agent
                  /\ Ready(T.run[e.c])
             /\ e.k = "build" =>
                  /\ Turns(T, E, {}, e.c, "free") /\ ~T.run[e.c].usingAgent
                  /\ T.run[e.c].gen /\ T.run[e.c].stream
             /\ e.k \notin {"grant", "build"} => Whole(T, E)
<1> DEFINE e == Head(posted)
           T == [Sys EXCEPT !.posted = Tail(@)]
           c == e.c
<1>1. /\ DOMAIN T = DOMAIN Sys /\ T.run = run /\ T.states = states /\ T.calls = calls
      /\ T.posted = Tail(posted) /\ T.wire = wire
  BY DEF Sys
<1>2. Core(Sys, E) /\ IsSeq(posted)
  BY SysFacts, ShapeFacts DEF Whole, Core
<1>3. Core(T, E) /\ c \in Runs /\ (e.k = "grant" => e.p \in Providers /\ Vacant(T, E, e.p))
  BY <1>2, PopTimer
<1> HIDE DEF T
<1>4. /\ IsSeq(T.posted) /\ 1 \in DOMAIN posted /\ e = posted[1]
      /\ \A i \in DOMAIN T.posted : i + 1 \in DOMAIN posted /\ T.posted[i] = posted[i + 1]
      /\ \A i \in DOMAIN posted : i = 1 \/ (i - 1 \in DOMAIN T.posted /\ T.posted[i - 1] = posted[i])
  <2>1. /\ IsSeq(T.posted) /\ 1 \in DOMAIN posted /\ e = posted[1] /\ Len(T.posted) = Len(posted) - 1
        /\ \A i \in DOMAIN T.posted : i + 1 \in DOMAIN posted /\ T.posted[i] = posted[i + 1]
        /\ Len(posted) \in Nat \ {0} /\ DOMAIN posted = 1..Len(posted)
    BY <1>1, <1>2, SeqFacts
  <2>2. DOMAIN T.posted = 1..Len(T.posted)
    BY <2>1, SeqFacts
  <2> DEFINE n == Len(posted)
             q == T.posted
  <2>3. n \in Nat \ {0} /\ DOMAIN posted = 1..n /\ DOMAIN q = 1..(n - 1)
    BY <2>1, <2>2
  <2> HIDE DEF n, q
  <2>4. \A i \in DOMAIN posted : i # 1 => i - 1 \in DOMAIN q /\ (i - 1) + 1 = i
    BY <2>3
  <2>5. QED
    BY <2>1, <2>4 DEF q
<1>5. \A d : /\ \A r, n : ~Wakes(e, d) /\ Timed(posted, r, d, n) => Timed(T.posted, r, d, n)
             /\ \A r, n, s : \A l \in Parked :
                  Wakes(e, d) /\ Timed(posted, r, d, n) => Timed(T.posted, s, d, l)
  BY <1>1, <1>2, TimedTail
<1> HIDE DEF e, c
<1>6. \A d \in Runs : Wired(T, d) /\ \E n \in Modes : At(Sys, d, n)
  BY <1>1, SysFacts DEF Whole, Wired
<1>7. NoReports(T.calls)
  BY <1>1, SysFacts DEF Whole
<1>8. ASSUME NEW d \in Runs, ~Wakes(e, d) PROVE \E n \in Modes : At(T, d, n)
  <2>1. PICK n \in Modes : At(Sys, d, n)
    BY <1>6
  <2>2. Timed(posted, run[d], d, n)
    BY <2>1, SysFacts DEF At
  <2>3. QED
    BY <1>1, <1>5, <1>8, <2>1, <2>2, SysFacts DEF At
<1>9. \A X : (\A p \in Providers \ X : ~IsGrant(e, p)) => Accounted(T, X)
  <2> SUFFICES ASSUME NEW X, \A p \in Providers \ X : ~IsGrant(e, p),
                      NEW p \in Providers \ X, T.states[p].inFlight = 1
               PROVE  \/ \E d \in Runs : T.run[d].held = p
                      \/ \E i \in DOMAIN T.posted : IsGrant(T.posted[i], p)
    BY DEF Accounted
  <2>1. \/ \E d \in Runs : run[d].held = p
        \/ \E i \in DOMAIN posted : IsGrant(posted[i], p)
    BY <1>1, SysFacts DEF Whole, Accounted
  <2>2. ~IsGrant(posted[1], p)
    BY <1>4
  <2>3. QED
    BY <1>1, <1>4, <2>1, <2>2
<1>10. \A d \in Runs \ {c} : ~Wakes(e, d)
  BY DEF Wakes, c
<1>11. "called" \in Parked /\ "free" \in Parked
  BY DEF Parked
<1>12. PICK m \in Modes : At(Sys, c, m)
  BY <1>3, <1>6
<1>13. Row(run[c], m) /\ Queued(states, run[c], c, m) /\ Timed(posted, run[c], c, m)
  BY <1>12, SysFacts DEF At
<1>14. CASE e.k = "grant"
  <2>1. Wakes(posted[1], c)
    BY <1>4, <1>14 DEF Wakes, c
  <2>2. m = "granted" /\ e.p = run[c].waiting /\ e.req = run[c].req /\ e.agent = run[c].usingAgent
    BY <1>4, <1>13, <1>14, <2>1 DEF Timed
  <2>3. Row(run[c], "called") /\ Ready(run[c])
    BY <1>13, <2>2 DEF Row, Modes, Ready
  <2>4. Timed(T.posted, run[c], c, "called")
    BY <1>4, <1>5, <1>11, <1>13, <2>1
  <2>5. Queued(states, run[c], c, "called")
    BY <1>13, <2>2 DEF Queued
  <2>6. At(T, c, "called")
    BY <1>1, <2>3, <2>4, <2>5 DEF At
  <2>7. Accounted(T, {e.p})
    BY <1>9 DEF IsGrant
  <2>8. Turns(T, E, {e.p}, c, "called")
    BY <1>3, <1>6, <1>7, <1>8, <1>10, <2>6, <2>7 DEF Turns
  <2>9. QED
    BY <1>1, <1>3, <1>14, <2>2, <2>3, <2>8 DEF c, e, T
<1>15. CASE e.k = "build"
  <2>1. Wakes(posted[1], c)
    BY <1>4, <1>15 DEF Wakes, c
  <2>2. m = "build"
    BY <1>4, <1>13, <1>15, <2>1 DEF Timed
  <2>3. Row(run[c], "free") /\ ~run[c].usingAgent /\ run[c].gen /\ run[c].stream
    BY <1>13, <2>2 DEF Row, Modes
  <2>4. Timed(T.posted, run[c], c, "free")
    BY <1>4, <1>5, <1>11, <1>13, <2>1
  <2>5. Queued(states, run[c], c, "free")
    BY <1>13, <2>2 DEF Queued
  <2>6. At(T, c, "free")
    BY <1>1, <2>3, <2>4, <2>5 DEF At
  <2>7. Accounted(T, {})
    BY <1>9, <1>15 DEF IsGrant
  <2>8. Turns(T, E, {}, c, "free")
    BY <1>3, <1>6, <1>7, <1>8, <1>10, <2>6, <2>7 DEF Turns
  <2>9. QED
    BY <1>1, <1>3, <1>15, <2>3, <2>8 DEF c, e, T
<1>16. CASE e.k \notin {"grant", "build"}
  <2>1. \A d : ~Wakes(e, d)
    BY <1>16 DEF Wakes
  <2>2. Accounted(T, {})
    BY <1>9, <1>16 DEF IsGrant
  <2>3. Whole(T, E)
    BY <1>3, <1>6, <1>7, <1>8, <2>1, <2>2 DEF Whole
  <2>4. QED
    BY <1>3, <1>16, <2>3 DEF c, e, T
<1>17. QED
  BY <1>14, <1>15, <1>16 DEF c, e

---------------------------------------------------------------------------
\* Request ids

LEMMA NatMin ==
  ASSUME NEW S \in SUBSET Nat, S # {}
  PROVE  \E x \in S : \A y \in S : x <= y
<1> DEFINE R == OpToRel(<, Nat)
<1>1. PICK x \in S : \A y \in S : ~(<<y, x>> \in R)
  <2>1. IsWellFoundedOn(R, Nat)
    BY NatLessThanWellFounded
  <2> HIDE DEF R
  <2>2. QED
    BY <2>1, WFMin
<1>2. ASSUME NEW y \in S PROVE x <= y
  <2>1. x \in Nat /\ y \in Nat
    BY <1>1
  <2>2. y < x => <<y, x>> \in R
    BY <2>1 DEF OpToRel
  <2>3. ~(y < x)
    BY <1>1, <2>2
  <2>4. QED
    BY <2>1, <2>3
<1>3. QED
  BY <1>1, <1>2

LEMMA RangeFinite ==
  ASSUME NEW J, IsFiniteSet(J), NEW f
  PROVE  IsFiniteSet({f[i] : i \in J})
<1> DEFINE g == [i \in J |-> f[i]]
           T == {f[i] : i \in J}
<1>1. g \in Surjection(J, T)
  BY DEF Surjection
<1>2. QED
  BY <1>1, FS_Surjection

LEMMA PlacesFinite ==
  ASSUME NEW q, IsSeq(q)
  PROVE  \A J \in SUBSET DOMAIN q : IsFiniteSet(J)
<1>1. DOMAIN q = 1..Len(q) /\ Len(q) \in Nat
  BY SeqFacts
<1>2. IsFiniteSet(DOMAIN q)
  BY <1>1, FS_Interval
<1>3. QED
  BY <1>2, FS_Subset

LEMMA CapturedFinite ==
  ASSUME NEW S, Shape(S), NEW c \in Runs
  PROVE  IsFiniteSet(Captured(S, c))
<1> DEFINE J == {j \in DOMAIN S.posted : S.posted[j].k = "grant" /\ S.posted[j].c = c}
           K == {j \in DOMAIN S.calls : S.calls[j].c = c}
           Q(p) == {j \in DOMAIN S.states[p].queue : S.states[p].queue[j].waiterId = c}
           W(p) == {S.states[p].queue[i].onGranted.req : i \in Q(p)}
<1>1. /\ IsSeq(S.posted) /\ IsSeq(S.calls)
      /\ \A p \in Providers : IsSeq(S.states[p].queue)
  BY ShapeFacts, BucketFacts
<1>2. IsFiniteSet({S.posted[i].req : i \in J})
  <2>1. IsFiniteSet(J)
    BY <1>1, PlacesFinite
  <2> DEFINE f == [i \in J |-> S.posted[i].req]
  <2>2. IsFiniteSet({f[i] : i \in J})
    BY <2>1, RangeFinite
  <2>3. {f[i] : i \in J} = {S.posted[i].req : i \in J}
    OBVIOUS
  <2>4. QED
    BY <2>2, <2>3
<1>3. IsFiniteSet({S.calls[i].req : i \in K})
  <2>1. IsFiniteSet(K)
    BY <1>1, PlacesFinite
  <2> DEFINE f == [i \in K |-> S.calls[i].req]
  <2>2. IsFiniteSet({f[i] : i \in K})
    BY <2>1, RangeFinite
  <2>3. {f[i] : i \in K} = {S.calls[i].req : i \in K}
    OBVIOUS
  <2>4. QED
    BY <2>2, <2>3
<1>4. ASSUME NEW p \in Providers PROVE IsFiniteSet(W(p))
  <2>1. IsFiniteSet(Q(p))
    BY <1>1, PlacesFinite
  <2> DEFINE f == [i \in Q(p) |-> S.states[p].queue[i].onGranted.req]
  <2>2. IsFiniteSet({f[i] : i \in Q(p)})
    BY <2>1, RangeFinite
  <2>3. {f[i] : i \in Q(p)} = W(p)
    OBVIOUS
  <2>4. QED
    BY <2>2, <2>3
<1>5. IsFiniteSet(UNION {W(p) : p \in Providers})
  <2>1. IsFiniteSet({W(p) : p \in Providers})
    <3> DEFINE f == [p \in Providers |-> W(p)]
    <3>1. IsFiniteSet({f[p] : p \in Providers})
      BY RangeFinite, RunsAssumption
    <3>2. {f[p] : p \in Providers} = {W(p) : p \in Providers}
      OBVIOUS
    <3>3. QED
      BY <3>1, <3>2
  <2>2. \A w \in {W(p) : p \in Providers} : IsFiniteSet(w)
    BY <1>4
  <2> HIDE DEF W
  <2>3. QED
    BY <2>1, <2>2, FS_UNION
<1>6. IsFiniteSet({S.run[c].confirm, S.run[c].verdict})
  <2>1. IsFiniteSet({S.run[c].confirm}) /\ IsFiniteSet({S.run[c].verdict})
    BY FS_Singleton
  <2>2. {S.run[c].confirm, S.run[c].verdict} = {S.run[c].confirm} \cup {S.run[c].verdict}
    OBVIOUS
  <2>3. QED
    BY <2>1, <2>2, FS_Union
<1> DEFINE A == {S.posted[i].req : i \in J}
           U == UNION {W(p) : p \in Providers}
           B == {S.calls[i].req : i \in K}
           D == {S.run[c].confirm, S.run[c].verdict}
<1>7. Captured(S, c) = A \cup U \cup B \cup D
  BY Zenon DEF Captured
<1> HIDE DEF A, U, B, D
<1>8. IsFiniteSet(A \cup U)
  BY <1>2, <1>5, FS_Union DEF A, U
<1>9. IsFiniteSet(A \cup U \cup B)
  BY <1>3, <1>8, FS_Union DEF B
<1>10. IsFiniteSet(A \cup U \cup B \cup D)
  BY <1>6, <1>9, FS_Union DEF D
<1>11. QED
  BY <1>7, <1>10

\* A new request's id is never the one that stands for none.
LEMMA RequestIdFacts ==
  ASSUME NEW S, Shape(S), NEW c \in Runs
  PROVE  nextGlobalRequestId(S, c) \in Nat \ {0}
<1> DEFINE C == Captured(S, c)
           n == Cardinality(C)
           F == {i \in 1..(n + 1) : i \notin C}
<1>1. IsFiniteSet(C) /\ n \in Nat
  BY CapturedFinite, FS_CardinalityType
<1> HIDE DEF C
<1>2. F # {}
  <2>1. SUFFICES ASSUME 1..(n + 1) \subseteq C PROVE FALSE
    OBVIOUS
  <2>2. Cardinality(1..(n + 1)) = n + 1
    BY <1>1, FS_Interval
  <2>3. Cardinality(1..(n + 1)) <= n
    BY <1>1, <2>1, FS_Subset
  <2>4. QED
    BY <1>1, <2>2, <2>3
<1>3. F \in SUBSET Nat
  BY <1>1
<1>4. PICK i \in F : \A j \in F : i <= j
  BY <1>2, <1>3, NatMin
<1>5. \A j \in 1..(i - 1) : j \in C
  BY <1>1, <1>4
<1>6. \E k \in 1..(n + 1) : k \notin C /\ \A j \in 1..(k - 1) : j \in C
  BY <1>4, <1>5
<1> HIDE DEF n, F
<1>7. (CHOOSE k \in 1..(n + 1) : k \notin C /\ \A j \in 1..(k - 1) : j \in C) \in 1..(n + 1)
  BY <1>6
<1>8. nextGlobalRequestId(S, c) \in 1..(n + 1)
  BY <1>7 DEF nextGlobalRequestId, n, C
<1>9. QED
  BY <1>1, <1>8

---------------------------------------------------------------------------
\* What the handlers make of a turn

LEMMA TurnFacts ==
  ASSUME NEW E, NEW S, NEW X, NEW c \in Runs, NEW m, Turns(S, E, X, c, m)
  PROVE  /\ Core(S, E) /\ Shape(S) /\ Members(S.run[c]) /\ Row(S.run[c], m)
         /\ NoReports(S.calls) /\ Frames(S.calls)
  BY ShapeFacts DEF Turns, Core, At

LEMMA EditTurns ==
  ASSUME NEW E, NEW S, NEW X, NEW c \in Runs, NEW m \in Parked, Turns(S, E, X, c, m),
         NEW r, Members(r), NEW n \in Parked, Row(r, n),
         r.held = S.run[c].held, r.relay \in {S.run[c].relay, None}
  PROVE  Turns(Edit(S, c, r), E, X, c, n) /\ Edit(S, c, r).run[c] = r
<1> DEFINE T == Edit(S, c, r)
<1>1. Shape(S) /\ NoReports(S.calls) /\ Frames(S.calls)
  BY TurnFacts
<1>2. /\ DOMAIN T = DOMAIN S /\ Put(S.run, T.run, c, r) /\ T.run[c] = r
      /\ T.states = S.states /\ T.posted = S.posted /\ T.calls = S.calls
  BY <1>1, EditFacts
<1>3. T.wire = S.wire
  BY <1>1, ShapeFacts DEF Edit
<1> HIDE DEF T
<1>4. Turns(T, E, X, c, n)
  BY <1>1, <1>2, <1>3, EditTurn
<1>5. QED
  BY <1>2, <1>4 DEF T

LEMMA SoftEdit ==
  ASSUME NEW E, NEW S, Whole(S, E), NEW c \in Runs, NEW r, Members(r), Alike(r, S.run[c])
  PROVE  Whole(Edit(S, c, r), E)
<1> DEFINE T == Edit(S, c, r)
<1>1. Shape(S)
  BY DEF Whole, Core
<1>2. /\ DOMAIN T = DOMAIN S /\ Put(S.run, T.run, c, r)
      /\ T.states = S.states /\ T.posted = S.posted /\ T.calls = S.calls
  BY <1>1, EditFacts
<1>3. T.wire = S.wire
  BY <1>1, ShapeFacts DEF Edit
<1> HIDE DEF T
<1>4. Whole(T, E)
  BY <1>2, <1>3, SoftTurn
<1>5. QED
  BY <1>4 DEF T

\* The slot is given back, if the run holds one.
LEMMA ReleaseTurn ==
  ASSUME NEW E, NEW S, NEW c \in Runs, NEW m \in {"free", "holds"}, Turns(S, E, {}, c, m)
  PROVE  LET T == releaseProviderSlotIfHeld(S, c)
         IN  /\ Turns(T, E, {}, c, "free") /\ T.anchor = S.anchor
             /\ T.run[c] \in {S.run[c], [S.run[c] EXCEPT !.held = None]}
<1> DEFINE T == releaseProviderSlotIfHeld(S, c)
           r == [S.run[c] EXCEPT !.held = None]
<1>1. CASE m = "holds"
  <2>1. Turns(T, E, {}, c, "free") /\ T.run[c] = r /\ T.anchor = S.anchor
    BY <1>1, GiveTurn
  <2> HIDE DEF T, r
  <2>2. QED
    BY <2>1 DEF T, r
<1>2. CASE m = "free"
  <2>1. S.run[c].held = None
    BY <1>2, HeldFacts DEF Turns
  <2>2. T = S
    BY <2>1 DEF releaseProviderSlotIfHeld
  <2> HIDE DEF T, r
  <2>3. Turns(T, E, {}, c, "free") /\ T.run[c] = S.run[c] /\ T.anchor = S.anchor
    BY <1>2, <2>2
  <2>4. QED
    BY <2>3 DEF T, r
<1>3. QED
  BY <1>1, <1>2

LEMMA SlotCallsEndNothing == NoReports(slotAvailable)
<1>1. \A i \in DOMAIN slotAvailable : slotAvailable[i].k = "slot"
  BY DEF slotAvailable, Call
<1>2. QED
  BY <1>1 DEF NoReports, Reports

\* A turn ends.
LEMMA IdleTurn ==
  ASSUME NEW E, NEW S, NEW c \in Runs, Turns(S, E, {}, c, "free"), ~S.run[c].usingAgent
  PROVE  Whole(becomeIdle(S, c), E)
<1> DEFINE r == [S.run[c] EXCEPT !.gen = FALSE]
           T == Edit(S, c, r)
<1>1. Members(S.run[c]) /\ Row(S.run[c], "free")
  BY TurnFacts
<1>2. /\ Members(r) /\ Row(r, "idle")
      /\ r.held = S.run[c].held /\ r.relay = S.run[c].relay
  <2>1. Members(r)
    BY <1>1, MemberFacts DEF Members, Row, Modes
  <2>2. /\ Row(r, "idle")
        /\ r.held = S.run[c].held /\ r.relay = S.run[c].relay
    BY <1>1, MemberFacts DEF Members, Row, Modes
  <2>3. QED
    BY <2>1, <2>2
<1>3. becomeIdle(S, c) \in {T, Push(T, slotAvailable)}
  BY DEF becomeIdle, Edit
<1>4. "free" \in Parked /\ "idle" \in Parked /\ "idle" \in Modes
  BY DEF Parked, Modes
<1> HIDE DEF r
<1>5. Turns(T, E, {}, c, "idle")
  BY <1>2, <1>4, EditTurns
<1> HIDE DEF T
<1>6. Turns(Push(T, slotAvailable), E, {}, c, "idle")
  BY <1>5, PushTurn, SlotAvailableFrames, SlotCallsEndNothing
<1>7. QED
  BY <1>3, <1>4, <1>5, <1>6, TurnsWhole

LEMMA ReactionsTurn ==
  ASSUME NEW E, NEW S, Whole(S, E), NEW c \in Runs
  PROVE  Whole(drainPendingSubagentReactions(S, c), E)
<1> DEFINE r == [S.run[c] EXCEPT !.reactions = @ - 1]
           U == Edit(S, c, r)
           T == drainPendingSubagentReactions(S, c)
<1>1. CASE S.run[c].reactions = 0 \/ S.run[c].gen
  BY <1>1 DEF drainPendingSubagentReactions
<1>2. CASE ~(S.run[c].reactions = 0 \/ S.run[c].gen)
  <2>1. Shape(S) /\ Members(S.run[c])
    BY DEF Whole, Core, Shape
  <2>2. Members(r) /\ Alike(r, S.run[c])
    BY <2>1, MemberFacts DEF Members, Alike
  <2>3. Whole(U, E)
    BY <2>2, SoftEdit
  <2>4. /\ DOMAIN T = DOMAIN U /\ T.run = U.run /\ T.states = U.states /\ T.calls = U.calls
        /\ T.wire = U.wire /\ T.posted = Append(U.posted, [k |-> "react", c |-> c])
    BY <1>2, <2>1, ShapeFacts DEF drainPendingSubagentReactions, Edit
  <2> HIDE DEF T, U
  <2>5. Whole(T, E)
    BY <2>3, <2>4, PostReact
  <2>6. QED
    BY <2>5 DEF T
<1>3. QED
  BY <1>1, <1>2

LEMMA ErrorTurn ==
  ASSUME NEW E, NEW S, NEW c \in Runs, NEW m \in {"free", "holds"}, Turns(S, E, {}, c, m),
         ~S.run[c].usingAgent
  PROVE  Whole(onRequestError(S, c), E)
<1> DEFINE R == releaseProviderSlotIfHeld(S, c)
           r == [R.run[c] EXCEPT !.stream = FALSE, !.inflight = FALSE, !.req = 0,
                                 !.relay = None, !.batch = FALSE]
           T == Edit(R, c, r)
<1>1. Turns(R, E, {}, c, "free") /\ R.run[c] \in {S.run[c], [S.run[c] EXCEPT !.held = None]}
  BY ReleaseTurn
<1>2. onRequestError(S, c) = becomeIdle(T, c)
  BY DEF onRequestError, Edit
<1>3. Members(S.run[c])
  BY TurnFacts
<1>4. ~R.run[c].usingAgent
  BY <1>1, <1>3, MemberFacts
<1> HIDE DEF R
<1>5. Members(R.run[c]) /\ Row(R.run[c], "free")
  BY <1>1, TurnFacts
<1>6. /\ Members(r) /\ Row(r, "free") /\ ~r.usingAgent
      /\ r.held = R.run[c].held /\ r.relay = None
  <2>1. Members(r)
    BY <1>4, <1>5, MemberFacts DEF Members, Row, Modes
  <2>2. /\ Row(r, "free") /\ ~r.usingAgent
        /\ r.held = R.run[c].held /\ r.relay = None
    BY <1>4, <1>5, MemberFacts DEF Members, Row, Modes
  <2>3. QED
    BY <2>1, <2>2
<1> HIDE DEF r
<1>7. "free" \in Parked
  BY DEF Parked
<1>8. Turns(T, E, {}, c, "free") /\ T.run[c] = r
  BY <1>1, <1>6, <1>7, EditTurns
<1> HIDE DEF T
<1>9. QED
  BY <1>2, <1>6, <1>8, IdleTurn

LEMMA TerminalTurn ==
  ASSUME NEW E, NEW S, NEW c \in Runs, NEW m \in {"free", "holds"}, Turns(S, E, {}, c, m),
         S.run[c].usingAgent
  PROVE  Whole(onAgentTerminal(S, c), E)
<1> DEFINE r == [S.run[c] EXCEPT !.stream = FALSE, !.usingAgent = FALSE, !.inflight = FALSE,
                                 !.req = 0, !.relay = None]
           T == Edit(S, c, r)
           R == releaseProviderSlotIfHeld(T, c)
<1>1. onAgentTerminal(S, c) = becomeIdle(R, c)
  BY DEF onAgentTerminal, Edit
<1>2. Members(S.run[c]) /\ Row(S.run[c], m)
  BY TurnFacts
<1>3. /\ Members(r) /\ Row(r, m) /\ ~r.usingAgent
      /\ r.held = S.run[c].held /\ r.relay = None
  <2>1. Members(r)
    BY <1>2, MemberFacts DEF Members, Row, Modes
  <2>2. /\ Row(r, m) /\ ~r.usingAgent
        /\ r.held = S.run[c].held /\ r.relay = None
    BY <1>2, MemberFacts DEF Members, Row, Modes
  <2>3. QED
    BY <2>1, <2>2
<1>4. m \in Parked
  BY DEF Parked
<1> HIDE DEF r
<1>5. Turns(T, E, {}, c, m) /\ T.run[c] = r
  BY <1>3, <1>4, EditTurns
<1> HIDE DEF T
<1>6. Turns(R, E, {}, c, "free") /\ R.run[c] \in {r, [r EXCEPT !.held = None]}
  BY <1>5, ReleaseTurn
<1>7. ~R.run[c].usingAgent
  BY <1>3, <1>6, MemberFacts
<1>8. QED
  BY <1>1, <1>6, <1>7, IdleTurn

\* A granted request goes to the router.
LEMMA RouteTurn ==
  ASSUME NEW E, NEW S, NEW c \in Runs, NEW p \in Providers, Turns(S, E, {p}, c, "free"),
         Vacant(S, E, p), Ready(S.run[c]), ~S.run[c].usingAgent, NEW x
  PROVE  Whole(doRoute(S, c, p, x), E)
<1> DEFINE r == [S.run[c] EXCEPT !.held = p, !.waiting = None]
           T == [S EXCEPT !.run[c].held = p, !.run[c].waiting = None]
           s == [T.run[c] EXCEPT !.relay = p]
           U == [T EXCEPT !.run[c].relay = p, !.wire[p] = c]
<1>1. Shape(S) /\ Members(S.run[c]) /\ Row(S.run[c], "free")
  BY TurnFacts
<1>2. /\ Members(r) /\ Row(r, "holds") /\ r.held = p
      /\ Ready(r) /\ ~r.usingAgent
  <2>1. Members(r)
    BY <1>1, MemberFacts DEF Members, Row, Modes, Ready
  <2>2. /\ Row(r, "holds") /\ r.held = p
        /\ Ready(r) /\ ~r.usingAgent
    BY <1>1, MemberFacts DEF Members, Row, Modes, Ready
  <2>3. QED
    BY <2>1, <2>2
<1>3. /\ DOMAIN T = DOMAIN S /\ Put(S.run, T.run, c, r) /\ T.wire = S.wire
      /\ T.states = S.states /\ T.posted = S.posted /\ T.calls = S.calls
  BY <1>1, ShapeFacts DEF Put
<1>4. doRoute(S, c, p, x) = IF x.unroutable THEN onRequestError(T, c) ELSE U
  BY DEF doRoute
<1> HIDE DEF r, T
<1>5. Turns(T, E, {}, c, "holds")
  BY <1>2, <1>3, TakeTurn
<1>6. T.run[c] = r
  BY <1>1, <1>3, ShapeFacts DEF Put
<1>7. Whole(onRequestError(T, c), E)
  BY <1>2, <1>5, <1>6, ErrorTurn
<1>8. Shape(T)
  BY <1>5, TurnFacts
<1>9. Members(s) /\ Row(s, "wired") /\ s.held = p
  <2>1. Members(s)
    BY <1>2, <1>6, MemberFacts DEF Members, Row, Modes, Ready
  <2>2. Row(s, "wired") /\ s.held = p
    BY <1>2, <1>6, MemberFacts DEF Members, Row, Modes, Ready
  <2>3. QED
    BY <2>1, <2>2
<1>10. /\ DOMAIN U = DOMAIN T /\ Put(T.run, U.run, c, s)
       /\ U.states = T.states /\ U.posted = T.posted /\ U.calls = T.calls
       /\ \A q \in Providers \ {p} : U.wire[q] = T.wire[q]
  BY <1>8, ShapeFacts DEF Put
<1>11. U.wire[p] = c /\ DOMAIN U.wire = DOMAIN T.wire
  <2>1. DOMAIN T.wire = Providers
    BY <1>5 DEF Turns, Wired
  <2>2. QED
    BY <1>8, <2>1, ShapeFacts
<1> HIDE DEF s, U
<1>12. Turns(U, E, {}, c, "wired")
  BY <1>2, <1>5, <1>6, <1>9, <1>10, <1>11, WireTurn
<1>13. "wired" \in Modes
  BY DEF Modes
<1>14. QED
  BY <1>4, <1>7, <1>12, <1>13, TurnsWhole

\* A granted turn goes to the agent.
LEMMA ExecuteTurn ==
  ASSUME NEW E, NEW S, NEW c \in Runs, NEW p \in Providers, Turns(S, E, {p}, c, "free"),
         Vacant(S, E, p), Ready(S.run[c]), S.run[c].usingAgent, NEW x
  PROVE  Whole(execute(S, c, p, x), E)
<1> DEFINE r == [S.run[c] EXCEPT !.held = p]
           T == [S EXCEPT !.run[c].held = p]
           s == [T.run[c] EXCEPT !.exec = p]
           U == [T EXCEPT !.run[c].exec = p, !.wire[p] = c]
<1>1. Shape(S) /\ Members(S.run[c]) /\ Row(S.run[c], "free")
  BY TurnFacts
<1>2. /\ Members(r) /\ Row(r, "holds") /\ r.held = p
      /\ Ready(r) /\ r.usingAgent
  <2>1. Members(r)
    BY <1>1, MemberFacts DEF Members, Row, Modes, Ready
  <2>2. /\ Row(r, "holds") /\ r.held = p
        /\ Ready(r) /\ r.usingAgent
    BY <1>1, MemberFacts DEF Members, Row, Modes, Ready
  <2>3. QED
    BY <2>1, <2>2
<1>3. /\ DOMAIN T = DOMAIN S /\ Put(S.run, T.run, c, r) /\ T.wire = S.wire
      /\ T.states = S.states /\ T.posted = S.posted /\ T.calls = S.calls
  BY <1>1, ShapeFacts DEF Put
<1>4. execute(S, c, p, x) = IF x.unroutable THEN onAgentTerminal(T, c) ELSE U
  <2>1. S.run[c].exec = None
    BY <1>1 DEF Row
  <2>2. QED
    BY <2>1 DEF execute
<1> HIDE DEF r, T
<1>5. Turns(T, E, {}, c, "holds")
  BY <1>2, <1>3, TakeTurn
<1>6. T.run[c] = r
  BY <1>1, <1>3, ShapeFacts DEF Put
<1>7. Whole(onAgentTerminal(T, c), E)
  BY <1>2, <1>5, <1>6, TerminalTurn
<1>8. Shape(T)
  BY <1>5, TurnFacts
<1>9. Members(s) /\ Row(s, "agent") /\ s.held = p
  <2>1. Members(s)
    BY <1>2, <1>6, MemberFacts DEF Members, Row, Modes, Ready
  <2>2. Row(s, "agent") /\ s.held = p
    BY <1>2, <1>6, MemberFacts DEF Members, Row, Modes, Ready
  <2>3. QED
    BY <2>1, <2>2
<1>10. /\ DOMAIN U = DOMAIN T /\ Put(T.run, U.run, c, s)
       /\ U.states = T.states /\ U.posted = T.posted /\ U.calls = T.calls
       /\ \A q \in Providers \ {p} : U.wire[q] = T.wire[q]
       /\ DOMAIN U.wire = DOMAIN T.wire
  BY <1>8, ShapeFacts DEF Put
<1> HIDE DEF s, U
<1>11. Turns(U, E, {}, c, "agent")
  BY <1>2, <1>5, <1>6, <1>9, <1>10, WireTurn
<1>12. "agent" \in Modes
  BY DEF Modes
<1>13. QED
  BY <1>4, <1>7, <1>11, <1>12, TurnsWhole

\* A request asks the scheduler for its slot.
LEMMA DispatchTurn ==
  ASSUME NEW E, NEW S, NEW c \in Runs, Turns(S, E, {}, c, "free"), Ready(S.run[c]),
         ~S.run[c].usingAgent, NEW x \in Inputs
  PROVE  Whole(dispatchThroughScheduler(S, c, x), E)
<1> DEFINE cb == [req |-> S.run[c].req, agent |-> FALSE]
           a == acquire(S.states[x.p], c, cb)
           U == [S EXCEPT !.states[x.p] = a.st]
           V == Edit(U, c, [U.run[c] EXCEPT !.waiting = x.p])
<1>1. Shape(S) /\ x.p \in Providers
  BY TurnFacts, InputFacts
<1>2. dispatchThroughScheduler(S, c, x) = IF a.granted THEN doRoute(U, c, x.p, x) ELSE V
  <2>1. S.run[c].held = None
    BY HeldFacts DEF Turns
  <2>2. releaseProviderSlotIfHeld(S, c) = S
    BY <2>1 DEF releaseProviderSlotIfHeld
  <2>3. QED
    BY <2>2 DEF dispatchThroughScheduler, Edit
<1>3. cb = [req |-> S.run[c].req, agent |-> S.run[c].usingAgent]
  <2>1. S.run[c].usingAgent = FALSE
    BY TurnFacts DEF Row
  <2>2. QED
    BY <2>1
<1> HIDE DEF cb
<1>4. /\ DOMAIN U = DOMAIN S /\ U.run = S.run /\ U.posted = S.posted /\ U.calls = S.calls
      /\ U.wire = S.wire /\ Put(S.states, U.states, x.p, acquire(S.states[x.p], c, cb).st)
  BY <1>1, ShapeFacts DEF Put
<1> HIDE DEF U
<1>5. /\ a.granted => Turns(U, E, {x.p}, c, "free") /\ Vacant(U, E, x.p)
      /\ ~a.granted => Whole(V, E)
  BY <1>1, <1>3, <1>4, AskTurn
<1> HIDE DEF a, V
<1>6. a.granted => Whole(doRoute(U, c, x.p, x), E)
  BY <1>1, <1>4, <1>5, RouteTurn
<1>7. QED
  BY <1>2, <1>5, <1>6

LEMMA NoteSummaryTurn ==
  ASSUME NEW E, NEW S, NEW c \in Runs, NEW m, Turns(S, E, {}, c, m), NEW x
  PROVE  LET T == noteSummaryDecision(S, c, x)
         IN  Turns(T, E, {}, c, m) /\ Alike(T.run[c], S.run[c])
<1> DEFINE T == noteSummaryDecision(S, c, x)
           r == [S.run[c] EXCEPT !.summary = CASE x.failed \/ x.summarize = "no" -> @
                                               [] OTHER -> x.summarize = "later"]
<1>1. Shape(S) /\ Members(S.run[c])
  BY TurnFacts
<1>2. Members(r) /\ Alike(r, S.run[c])
  BY <1>1, MemberFacts DEF Members, Alike
<1>3. T = [S EXCEPT !.run[c] = r, !.anchor = @ /\ ~x.planGone]
  BY DEF noteSummaryDecision
<1> HIDE DEF r, T
<1>4. /\ DOMAIN T = DOMAIN S /\ Put(S.run, T.run, c, r) /\ T.calls = S.calls
      /\ T.states = S.states /\ T.posted = S.posted /\ T.wire = S.wire /\ T.run[c] = r
  BY <1>1, <1>3, ShapeFacts DEF Put
<1>5. Turns(T, E, {}, c, m)
  BY <1>2, <1>4, SoftTurn
<1>6. QED
  BY <1>2, <1>4, <1>5 DEF T

LEMMA BuildDirectTurn ==
  ASSUME NEW E, NEW S, NEW c \in Runs, Turns(S, E, {}, c, "free"), Ready(S.run[c]),
         ~S.run[c].usingAgent, NEW x \in Inputs
  PROVE  Whole(buildAndDispatchDirect(S, c, x), E)
<1> DEFINE T == noteSummaryDecision(S, c, x)
<1>1. Turns(T, E, {}, c, "free") /\ Alike(T.run[c], S.run[c])
  BY NoteSummaryTurn
<1>2. buildAndDispatchDirect(S, c, x) =
        IF x.failed THEN onRequestError(T, c) ELSE dispatchThroughScheduler(T, c, x)
  BY DEF buildAndDispatchDirect
<1> HIDE DEF T
<1>3. Ready(T.run[c]) /\ ~T.run[c].usingAgent
  BY <1>1 DEF Alike, Ready
<1>4. QED
  BY <1>1, <1>2, <1>3, ErrorTurn, DispatchTurn

\* A turn's request is built, after a recall if there is one.
LEMMA BuildTurn ==
  ASSUME NEW E, NEW S, NEW c \in Runs, Turns(S, E, {}, c, "free"), S.run[c].gen,
         S.run[c].stream, ~S.run[c].usingAgent, NEW x \in Inputs
  PROVE  Whole(buildAndSendRequest(S, c, x), E)
<1> DEFINE n == nextGlobalRequestId(S, c)
           r == [S.run[c] EXCEPT !.inflight = TRUE, !.relay = None, !.req = n]
           T == Edit(S, c, r)
           s == [T.run[c] EXCEPT !.query = "direct"]
<1>1. Shape(S) /\ Members(S.run[c]) /\ Row(S.run[c], "free")
  BY TurnFacts
<1>2. n \in Nat \ {0}
  BY <1>1, RequestIdFacts
<1>3. buildAndSendRequest(S, c, x) =
        IF x.memory THEN Edit(T, c, s) ELSE buildAndDispatchDirect(T, c, x)
  BY DEF buildAndSendRequest, Edit
<1> HIDE DEF n
<1>4. /\ Members(r) /\ Row(r, "free") /\ Ready(r) /\ ~r.usingAgent
      /\ r.held = S.run[c].held /\ r.relay = None
  <2>1. Members(r)
    BY <1>1, <1>2, MemberFacts DEF Members, Row, Modes, Ready
  <2>2. /\ Row(r, "free") /\ Ready(r) /\ ~r.usingAgent
        /\ r.held = S.run[c].held /\ r.relay = None
    BY <1>1, <1>2, MemberFacts DEF Members, Row, Modes, Ready
  <2>3. QED
    BY <2>1, <2>2
<1>5. "free" \in Parked /\ "query" \in Parked /\ "query" \in Modes
  BY DEF Parked, Modes
<1> HIDE DEF r
<1>6. Turns(T, E, {}, c, "free") /\ T.run[c] = r
  BY <1>4, <1>5, EditTurns
<1> HIDE DEF T
<1>7. ASSUME x.memory PROVE Whole(Edit(T, c, s), E)
  <2>1. "memory" \in Features
    BY <1>7, InputFacts
  <2>2. /\ Members(s) /\ Row(s, "query") /\ s.held = T.run[c].held /\ s.relay = None
    <3>1. Members(s)
      BY <1>4, <1>6, <2>1, MemberFacts DEF Members, Row, Modes, Ready
    <3>2. /\ Row(s, "query") /\ s.held = T.run[c].held /\ s.relay = None
      BY <1>4, <1>6, <2>1, MemberFacts, ZenonT(40) DEF Members, Row, Modes, Ready
    <3>3. QED
      BY <3>1, <3>2
  <2> HIDE DEF s
  <2>3. Turns(Edit(T, c, s), E, {}, c, "query")
    BY <1>5, <1>6, <2>2, EditTurns
  <2>4. QED
    BY <1>5, <2>3, TurnsWhole
<1>8. Whole(buildAndDispatchDirect(T, c, x), E)
  BY <1>4, <1>6, BuildDirectTurn
<1>9. QED
  BY <1>3, <1>7, <1>8

LEMMA AgentDispatchTurn ==
  ASSUME NEW E, NEW S, NEW c \in Runs, Turns(S, E, {}, c, "free"), Ready(S.run[c]),
         S.run[c].usingAgent, NEW x \in Inputs
  PROVE  Whole(dispatchAgentTurn(S, c, x), E)
<1> DEFINE T == noteSummaryDecision(S, c, x)
           cb == [req |-> T.run[c].req, agent |-> TRUE]
           a == acquire(T.states[x.p], c, cb)
           U == [T EXCEPT !.states[x.p] = a.st]
           V == Edit(U, c, [U.run[c] EXCEPT !.waiting = x.p])
           r == [T.run[c] EXCEPT !.usingAgent = FALSE]
           W == Edit(T, c, r)
<1>1. Turns(T, E, {}, c, "free") /\ Alike(T.run[c], S.run[c])
  BY NoteSummaryTurn
<1>2. dispatchAgentTurn(S, c, x) =
        IF x.failed THEN onRequestError(W, c)
        ELSE IF a.granted THEN execute(U, c, x.p, x) ELSE V
  BY DEF dispatchAgentTurn, Edit
<1> HIDE DEF T
<1>3. Ready(T.run[c]) /\ T.run[c].usingAgent
  BY <1>1 DEF Alike, Ready
<1>4. Shape(T) /\ Members(T.run[c]) /\ Row(T.run[c], "free") /\ x.p \in Providers
  BY <1>1, TurnFacts, InputFacts
<1>5. cb = [req |-> T.run[c].req, agent |-> T.run[c].usingAgent]
  <2>1. T.run[c].usingAgent = TRUE
    BY <1>3, <1>4 DEF Row
  <2>2. QED
    BY <2>1
<1> HIDE DEF cb
<1>6. /\ DOMAIN U = DOMAIN T /\ U.run = T.run /\ U.posted = T.posted /\ U.calls = T.calls
      /\ U.wire = T.wire /\ Put(T.states, U.states, x.p, acquire(T.states[x.p], c, cb).st)
  BY <1>4, ShapeFacts DEF Put
<1> HIDE DEF U
<1>7. /\ a.granted => Turns(U, E, {x.p}, c, "free") /\ Vacant(U, E, x.p)
      /\ ~a.granted => Whole(V, E)
  <2>1. x.p \in Providers /\ Turns(T, E, {}, c, "free") /\ Ready(T.run[c])
    BY <1>1, <1>3, <1>4
  <2>2. QED
    BY <1>5, <1>6, <2>1, AskTurn
<1> HIDE DEF a, V
<1>8. a.granted => Whole(execute(U, c, x.p, x), E)
  BY <1>3, <1>4, <1>6, <1>7, ExecuteTurn
<1>9. Whole(onRequestError(W, c), E)
  <2>1. /\ Members(r) /\ Row(r, "free") /\ ~r.usingAgent
        /\ r.held = T.run[c].held /\ r.relay = T.run[c].relay
    <3>1. Members(r)
      BY <1>4, MemberFacts DEF Members, Row, Modes
    <3>2. /\ Row(r, "free") /\ ~r.usingAgent
          /\ r.held = T.run[c].held /\ r.relay = T.run[c].relay
      BY <1>4, MemberFacts DEF Members, Row, Modes
    <3>3. QED
      BY <3>1, <3>2
  <2>2. "free" \in Parked
    BY DEF Parked
  <2> HIDE DEF r
  <2>3. Turns(W, E, {}, c, "free") /\ W.run[c] = r
    BY <1>1, <2>1, <2>2, EditTurns
  <2> HIDE DEF W
  <2>4. QED
    BY <2>1, <2>3, ErrorTurn
<1>10. QED
  BY <1>2, <1>7, <1>8, <1>9

\* A message starts a turn of an idle run; a busy one keeps it.
LEMMA SendTurn ==
  ASSUME NEW E, NEW S, Whole(S, E), NEW c \in Runs, NEW x \in Inputs
  PROVE  Whole(sendMessage(S, c, x), E)
<1> DEFINE u == [S.run[c] EXCEPT !.queued = TRUE]
           t == [S.run[c] EXCEPT !.batch = FALSE, !.stream = TRUE, !.inflight = TRUE,
                                 !.gen = TRUE, !.stopped = FALSE, !.left = MaxContinuations]
           T == Edit(S, c, t)
           n == nextGlobalRequestId(T, c)
           a == [T.run[c] EXCEPT !.usingAgent = TRUE, !.relay = None, !.req = n]
           A == Edit(T, c, a)
           q == [A.run[c] EXCEPT !.query = "agent"]
<1>0. sendMessage(S, c, x) =
        IF S.run[c].gen THEN Edit(S, c, u)
        ELSE IF ~x.agent THEN buildAndSendRequest(T, c, x)
        ELSE IF x.memory THEN Edit(A, c, q)
        ELSE dispatchAgentTurn(A, c, x)
  BY DEF sendMessage, Edit
<1>1. PICK m \in Modes : Turns(S, E, {}, c, m)
  BY TurnsWhole
<1>2. Shape(S) /\ Members(S.run[c]) /\ Row(S.run[c], m)
  BY <1>1, TurnFacts
<1>3. "free" \in Parked /\ "idle" \in Parked /\ "query" \in Parked /\ "query" \in Modes
  BY DEF Parked, Modes
<1>4. CASE S.run[c].gen
  <2>1. Members(u) /\ Alike(u, S.run[c])
    BY <1>2, MemberFacts DEF Members, Alike
  <2> HIDE DEF u
  <2>2. QED
    BY <1>0, <1>4, <2>1, SoftEdit
<1>5. CASE ~S.run[c].gen
  <2>1. m = "idle"
    BY <1>2, <1>5 DEF Row
  <2>2. /\ Members(t) /\ Row(t, "free") /\ t.gen /\ t.stream /\ t.inflight /\ ~t.usingAgent
        /\ t.held = S.run[c].held /\ t.relay = S.run[c].relay
    BY <1>2, <2>1, MemberFacts DEF Members, Row, Modes
  <2> HIDE DEF t
  <2>3. Turns(T, E, {}, c, "free") /\ T.run[c] = t
    BY <1>1, <1>3, <2>1, <2>2, EditTurns
  <2> HIDE DEF T
  <2>4. Whole(buildAndSendRequest(T, c, x), E)
    BY <2>2, <2>3, BuildTurn
  <2>5. n \in Nat \ {0} /\ Members(T.run[c]) /\ Row(T.run[c], "free")
    BY <2>3, TurnFacts, RequestIdFacts
  <2> HIDE DEF n
  <2>6. /\ Members(a) /\ Row(a, "free") /\ Ready(a) /\ a.usingAgent
        /\ a.held = T.run[c].held /\ a.relay = None
    BY <2>2, <2>3, <2>5, MemberFacts DEF Members, Row, Modes, Ready
  <2> HIDE DEF a
  <2>7. Turns(A, E, {}, c, "free") /\ A.run[c] = a
    BY <1>3, <2>3, <2>6, EditTurns
  <2> HIDE DEF A
  <2>8. Whole(dispatchAgentTurn(A, c, x), E)
    BY <2>6, <2>7, AgentDispatchTurn
  <2>9. ASSUME x.memory PROVE Whole(Edit(A, c, q), E)
    <3>1. "memory" \in Features
      BY <2>9, InputFacts
    <3>2. /\ Members(q) /\ Row(q, "query") /\ q.held = A.run[c].held /\ q.relay = None
      <4>1. Members(q)
        BY <2>6, <2>7, <3>1, MemberFacts DEF Members, Row, Modes, Ready
      <4>2. /\ Row(q, "query") /\ q.held = A.run[c].held /\ q.relay = None
        BY <2>6, <2>7, <3>1, MemberFacts, ZenonT(40) DEF Members, Row, Modes, Ready
      <4>3. QED
        BY <4>1, <4>2
    <3> HIDE DEF q
    <3>3. Turns(Edit(A, c, q), E, {}, c, "query")
      BY <1>3, <2>7, <3>2, EditTurns
    <3>4. QED
      BY <1>3, <3>3, TurnsWhole
  <2>10. QED
    BY <1>0, <1>5, <2>4, <2>8, <2>9
<1>6. QED
  BY <1>4, <1>5

\* A turn's next request is built from a timer.
LEMMA PostBuildTurn ==
  ASSUME NEW E, NEW S, NEW c \in Runs, Turns(S, E, {}, c, "free"), S.run[c].gen,
         S.run[c].inflight, ~S.run[c].usingAgent
  PROVE  Whole(postBuild(S, c), E)
<1> DEFINE T == postBuild(S, c)
           r == [S.run[c] EXCEPT !.stream = TRUE, !.left = @ - 1]
<1>1. Shape(S) /\ Members(S.run[c]) /\ Row(S.run[c], "free")
  BY TurnFacts
<1>2. Members(r) /\ Row(r, "build")
  <2>1. Members(r)
    BY <1>1, MemberFacts DEF Members, Row, Modes
  <2>2. Row(r, "build")
    BY <1>1, MemberFacts DEF Members, Row, Modes
  <2>3. QED
    BY <2>1, <2>2
<1>3. /\ DOMAIN T = DOMAIN S /\ T.states = S.states /\ T.calls = S.calls /\ T.wire = S.wire
      /\ T.posted = Append(S.posted, [k |-> "build", c |-> c]) /\ Put(S.run, T.run, c, r)
  BY <1>1, ShapeFacts, MemberFacts DEF postBuild, Put
<1> HIDE DEF T, r
<1>4. Whole(T, E)
  BY <1>2, <1>3, PostTurn
<1>5. QED
  BY <1>4 DEF T

LEMMA RestartTurn ==
  ASSUME NEW E, NEW S, NEW c \in Runs, Turns(S, E, {}, c, "free"), S.run[c].gen,
         S.run[c].inflight, ~S.run[c].usingAgent
  PROVE  /\ Whole(onCascadeMemberTurnStarted(S, c), E)
         /\ Whole(onCascadeEchoDetectedRequestRetry(S, c), E)
<1> DEFINE r == [S.run[c] EXCEPT !.batch = FALSE]
           T == Edit(S, c, r)
<1>1. Members(S.run[c]) /\ Row(S.run[c], "free")
  BY TurnFacts
<1>2. /\ Members(r) /\ Row(r, "free") /\ r.gen /\ r.inflight /\ ~r.usingAgent
      /\ r.held = S.run[c].held /\ r.relay = S.run[c].relay
  <2>1. Members(r)
    BY <1>1, MemberFacts DEF Members, Row, Modes
  <2>2. /\ Row(r, "free") /\ r.gen /\ r.inflight /\ ~r.usingAgent
        /\ r.held = S.run[c].held /\ r.relay = S.run[c].relay
    BY <1>1, MemberFacts DEF Members, Row, Modes
  <2>3. QED
    BY <2>1, <2>2
<1>3. "free" \in Parked
  BY DEF Parked
<1>4. /\ onCascadeMemberTurnStarted(S, c) = postBuild(T, c)
      /\ onCascadeEchoDetectedRequestRetry(S, c) = postBuild(T, c)
  BY DEF onCascadeMemberTurnStarted, onCascadeEchoDetectedRequestRetry, Edit
<1> HIDE DEF r
<1>5. Turns(T, E, {}, c, "free") /\ T.run[c] = r
  BY <1>2, <1>3, EditTurns
<1> HIDE DEF T
<1>6. QED
  BY <1>2, <1>4, <1>5, PostBuildTurn

LEMMA CompleteTurn ==
  ASSUME NEW E, NEW S, NEW c \in Runs, Turns(S, E, {}, c, "free"), ~S.run[c].usingAgent, NEW x
  PROVE  Whole(onCascadeComplete(S, c, x), E)
<1> DEFINE frames == <<Call("tail", c, 0)>>
           P == Push(S, frames)
           r == [P.run[c] EXCEPT !.stream = FALSE, !.batch = FALSE, !.inflight = FALSE,
                                 !.req = 0, !.relay = None]
           T == [P EXCEPT !.run[c] = r, !.anchor = @ /\ ~x.planGone]
<1>1. Frames(frames)
  BY OneFrame DEF FrameKinds
<1>2. NoReports(frames)
  BY DEF NoReports, Reports, Call
<1>3. onCascadeComplete(S, c, x) = becomeIdle(T, c)
  BY DEF onCascadeComplete
<1>4. P.run = S.run
  BY TurnFacts, ShapeFacts DEF Push
<1> HIDE DEF frames
<1>5. Turns(P, E, {}, c, "free")
  BY <1>1, <1>2, PushTurn
<1> HIDE DEF P
<1>6. /\ Shape(P) /\ Members(P.run[c]) /\ Row(P.run[c], "free")
      /\ NoReports(P.calls) /\ Frames(P.calls)
  BY <1>5, TurnFacts
<1>7. /\ Members(r) /\ Row(r, "free") /\ ~r.usingAgent
      /\ r.held = P.run[c].held /\ r.relay = None
  <2>1. Members(r)
    BY <1>4, <1>6, MemberFacts DEF Members, Row, Modes
  <2>2. /\ Row(r, "free") /\ ~r.usingAgent
        /\ r.held = P.run[c].held /\ r.relay = None
    BY <1>4, <1>6, MemberFacts DEF Members, Row, Modes
  <2>3. QED
    BY <2>1, <2>2
<1> HIDE DEF r
<1>8. /\ DOMAIN T = DOMAIN P /\ T.states = P.states /\ T.calls = P.calls
      /\ T.posted = P.posted /\ T.wire = P.wire /\ Put(P.run, T.run, c, r) /\ T.run[c] = r
  BY <1>6, ShapeFacts DEF Put
<1>9. "free" \in Parked
  BY DEF Parked
<1> HIDE DEF T
<1>10. Turns(T, E, {}, c, "free")
  BY <1>5, <1>6, <1>7, <1>8, <1>9, EditTurn
<1>11. QED
  BY <1>3, <1>7, <1>8, <1>10, IdleTurn

\* Whatever the cascade answers, the turn goes on or ends.
LEMMA RoutingTurn ==
  ASSUME NEW E, NEW S, NEW c \in Runs, Turns(S, E, {}, c, "free"), S.run[c].gen,
         S.run[c].inflight, S.run[c].req # 0, ~S.run[c].usingAgent, NEW k \in AnswerKinds, NEW x
  PROVE  /\ Whole(routeOrFinalize(S, c, k, x), E)
         /\ Whole(forceCascadeComplete(S, c, k, x), E)
         /\ Whole(finishTurnRouting(S, c, k, x), E)
<1> DEFINE V == [S EXCEPT !.run[c].verdict = S.run[c].req, !.run[c].left = @ - 1]
           v == [S.run[c] EXCEPT !.verdict = S.run[c].req, !.left = @ - 1]
<1>1. Shape(S) /\ Members(S.run[c]) /\ Row(S.run[c], "free") /\ Frames(S.calls)
      /\ NoReports(S.calls)
  BY TurnFacts
<1>2. /\ Whole(onCascadeComplete(S, c, x), E) /\ Whole(postBuild(S, c), E)
      /\ Whole(onCascadeMemberTurnStarted(S, c), E)
      /\ Whole(onCascadeEchoDetectedRequestRetry(S, c), E)
  BY CompleteTurn, PostBuildTurn, RestartTurn
<1>3. Whole(forceCascadeComplete(S, c, k, x), E) /\ Whole(forceCascadeComplete(S, c, "done", x), E)
  BY <1>2 DEF forceCascadeComplete
<1>4. Whole(onCascadeDeferredContinuationRequested(S, c, x), E)
  BY <1>2, <1>3 DEF onCascadeDeferredContinuationRequested
<1>5. Whole(V, E)
  <2>1. /\ Members(v) /\ Row(v, "verdict")
        /\ v.held = S.run[c].held /\ v.relay = S.run[c].relay
    BY <1>1, MemberFacts DEF Members, Row, Modes
  <2>2. /\ DOMAIN V = DOMAIN S /\ V.states = S.states /\ V.calls = S.calls
        /\ V.posted = S.posted /\ V.wire = S.wire /\ Put(S.run, V.run, c, v)
    BY <1>1, ShapeFacts, MemberFacts DEF Put
  <2>3. "free" \in Parked /\ "verdict" \in Parked /\ "verdict" \in Modes
    BY DEF Parked, Modes
  <2> HIDE DEF V, v
  <2>4. Turns(V, E, {}, c, "verdict")
    BY <1>1, <2>1, <2>2, <2>3, EditTurn
  <2>5. QED
    BY <2>3, <2>4, TurnsWhole
<1>6. Whole(routeOrFinalize(S, c, k, x), E)
  <2>1. CASE k = "member"
    BY <1>2, <2>1 DEF routeOrFinalize
  <2>2. CASE k = "retry"
    BY <1>2, <2>2 DEF routeOrFinalize
  <2>3. CASE k = "continue"
    BY <1>4, <2>3 DEF routeOrFinalize
  <2>4. CASE k = "verdict"
    BY <1>5, <2>4 DEF routeOrFinalize
  <2>5. CASE k = "done"
    BY <1>2, <2>5 DEF routeOrFinalize
  <2>6. QED
    BY <2>1, <2>2, <2>3, <2>4, <2>5 DEF AnswerKinds
<1>7. QED
  BY <1>3, <1>6 DEF finishTurnRouting

\* The provider that run c awaits has ended its request.
Told(S, E, c) ==
  /\ Core(S, E) /\ NoReports(S.calls) /\ Accounted(S, {})
  /\ DOMAIN S.wire = Providers /\ \A d \in Runs \ {c} : Wired(S, d)
  /\ At(S, c, "wired")
  /\ \A d \in Runs \ {c} : \E n \in Modes : At(S, d, n)

LEMMA ToldTurn ==
  ASSUME NEW E, NEW S, NEW c \in Runs, Told(S, E, c)
  PROVE  LET r == [S.run[c] EXCEPT !.relay = None]
         IN  /\ Turns(Edit(S, c, r), E, {}, c, "holds") /\ Edit(S, c, r).run[c] = r
             /\ Members(r) /\ Ready(r) /\ ~r.usingAgent
<1> DEFINE r == [S.run[c] EXCEPT !.relay = None]
           T == Edit(S, c, r)
<1>1. Shape(S) /\ Members(S.run[c]) /\ Row(S.run[c], "wired")
  BY DEF Told, Core, Shape, At
<1>2. /\ Members(r) /\ Row(r, "holds") /\ Ready(r) /\ ~r.usingAgent
      /\ r.held = S.run[c].held /\ r.relay = None
  <2>1. Members(r)
    BY <1>1, MemberFacts DEF Members, Row, Modes, Ready
  <2>2. /\ Row(r, "holds") /\ Ready(r) /\ ~r.usingAgent
        /\ r.held = S.run[c].held /\ r.relay = None
    BY <1>1, MemberFacts DEF Members, Row, Modes, Ready
  <2>3. QED
    BY <2>1, <2>2
<1> HIDE DEF r
<1>3. /\ DOMAIN T = DOMAIN S /\ Put(S.run, T.run, c, r) /\ T.run[c] = r
      /\ T.states = S.states /\ T.posted = S.posted /\ T.calls = S.calls
  BY <1>1, EditFacts
<1>4. T.wire = S.wire
  BY <1>1, ShapeFacts DEF Edit
<1> HIDE DEF T
<1>5. Core(T, E)
  BY <1>2, <1>3, PutRunCore DEF Told
<1>6. \A d \in Runs \ {c} : T.run[d] = S.run[d]
  BY <1>1, <1>3, ShapeFacts DEF Put
<1>7. At(T, c, "holds")
  <2>1. "wired" \in Parked /\ "holds" \in Parked
    BY DEF Parked
  <2>2. QED
    BY <1>2, <1>3, <2>1, ParkedFacts DEF Told, At
<1>8. \A d \in Runs \ {c} : \E n \in Modes : At(T, d, n)
  BY <1>3, <1>6 DEF Told, At
<1>9. \A d \in Runs : Wired(T, d)
  BY <1>2, <1>3, <1>4, <1>6 DEF Told, Wired
<1>10. Accounted(T, {})
  BY <1>2, <1>3, <1>6 DEF Told, Accounted
<1>11. Turns(T, E, {}, c, "holds")
  BY <1>3, <1>5, <1>7, <1>8, <1>9, <1>10 DEF Told, Turns
<1>12. QED
  BY <1>2, <1>3, <1>11 DEF T, r

\* The reply of a turn: it goes on, or the turn ends.
LEMMA FinishedTurn ==
  ASSUME NEW E, NEW S, NEW c \in Runs, Told(S, E, c), NEW k \in AnswerKinds,
         NEW o \in {"reply", "cap", "tools", "confirm"}, NEW x
  PROVE  Whole(onRequestFinished(S, c, o, k, x), E)
<1> DEFINE r == [S.run[c] EXCEPT !.relay = None]
           R == Edit(S, c, r)
           T == releaseProviderSlotIfHeld(R, c)
           u == [T.run[c] EXCEPT !.cancelled = FALSE]
           U == Edit(T, c, u)
           v == [U.run[c] EXCEPT !.stream = FALSE, !.batch = FALSE]
           V == [U EXCEPT !.run[c] = v, !.anchor = FALSE]
           W == [U EXCEPT !.run[c].stream = FALSE, !.run[c].batch = TRUE, !.run[c].left = @ - 1]
           w == [U.run[c] EXCEPT !.stream = FALSE, !.batch = TRUE, !.left = @ - 1]
           y == [U.run[c] EXCEPT !.batch = FALSE]
           z == [U.run[c] EXCEPT !.confirm = U.run[c].req]
<1>1. S.run[c].stream /\ ~S.run[c].usingAgent
  BY DEF Told, At, Row
<1>2. onRequestFinished(S, c, o, k, x) \in
        {becomeIdle(V, c), W, forceCascadeComplete(Edit(U, c, y), c, k, x),
         Edit(U, c, z), finishTurnRouting(U, c, k, x)}
  <2>1. CASE S.run[c].cancelled /\ S.anchor
    BY <1>1, <2>1 DEF onRequestFinished, Edit
  <2>2. CASE ~(S.run[c].cancelled /\ S.anchor)
    <3>1. CASE o = "tools"
      BY <1>1, <2>2, <3>1 DEF onRequestFinished, Edit
    <3>2. CASE o = "cap"
      BY <1>1, <2>2, <3>2 DEF onRequestFinished, Edit
    <3>3. CASE o = "confirm"
      BY <1>1, <2>2, <3>3 DEF onRequestFinished, Edit
    <3>4. CASE o = "reply"
      BY <1>1, <2>2, <3>4 DEF onRequestFinished, Edit
    <3>5. QED
      BY <3>1, <3>2, <3>3, <3>4
  <2>3. QED
    BY <2>1, <2>2
<1>3. /\ Turns(R, E, {}, c, "holds") /\ R.run[c] = r
      /\ Members(r) /\ Ready(r) /\ ~r.usingAgent
  BY ToldTurn
<1> HIDE DEF r, R
<1>4. Turns(T, E, {}, c, "free") /\ T.run[c] \in {r, [r EXCEPT !.held = None]}
  BY <1>3, ReleaseTurn
<1>5. Ready(T.run[c]) /\ ~T.run[c].usingAgent
  BY <1>3, <1>4, MemberFacts DEF Ready
<1> HIDE DEF T
<1>6. Members(T.run[c]) /\ Row(T.run[c], "free")
  BY <1>4, TurnFacts
<1>7. /\ Members(u) /\ Row(u, "free") /\ Ready(u) /\ ~u.usingAgent
      /\ u.held = T.run[c].held /\ u.relay = T.run[c].relay
  BY <1>5, <1>6, MemberFacts DEF Members, Row, Modes, Ready
<1>8. /\ "free" \in Parked /\ "batch" \in Parked /\ "confirm" \in Parked
      /\ "batch" \in Modes /\ "confirm" \in Modes
  BY DEF Parked, Modes
<1> HIDE DEF u
<1>9. Turns(U, E, {}, c, "free") /\ U.run[c] = u
  BY <1>4, <1>7, <1>8, EditTurns
<1> HIDE DEF U
<1>10. Shape(U) /\ Members(U.run[c]) /\ Row(U.run[c], "free")
       /\ Frames(U.calls) /\ NoReports(U.calls)
  BY <1>9, TurnFacts
<1>11. /\ Members(v) /\ Row(v, "free") /\ ~v.usingAgent
       /\ v.held = U.run[c].held /\ v.relay = U.run[c].relay
  BY <1>7, <1>9, <1>10, MemberFacts DEF Members, Row, Modes
<1>12. /\ Members(w) /\ Row(w, "batch")
       /\ w.held = U.run[c].held /\ w.relay = U.run[c].relay
  BY <1>7, <1>9, <1>10, MemberFacts DEF Members, Row, Modes, Ready
<1>13. /\ Members(y) /\ Row(y, "free") /\ ~y.usingAgent /\ Ready(y)
       /\ y.held = U.run[c].held /\ y.relay = U.run[c].relay
  BY <1>7, <1>9, <1>10, MemberFacts DEF Members, Row, Modes, Ready
<1>14. /\ Members(z) /\ Row(z, "confirm")
       /\ z.held = U.run[c].held /\ z.relay = U.run[c].relay
  BY <1>7, <1>9, <1>10, MemberFacts DEF Members, Row, Modes, Ready
<1>15. /\ DOMAIN V = DOMAIN U /\ V.states = U.states /\ V.calls = U.calls /\ V.wire = U.wire
       /\ V.posted = U.posted /\ Put(U.run, V.run, c, v) /\ V.run[c] = v
       /\ DOMAIN W = DOMAIN U /\ W.states = U.states /\ W.calls = U.calls /\ W.wire = U.wire
       /\ W.posted = U.posted /\ Put(U.run, W.run, c, w)
  BY <1>10, ShapeFacts, MemberFacts DEF Put
<1> HIDE DEF v, w, y, z, V, W
<1>16. Turns(V, E, {}, c, "free") /\ Turns(W, E, {}, c, "batch")
  BY <1>8, <1>9, <1>10, <1>11, <1>12, <1>15, EditTurn
<1>17. Whole(becomeIdle(V, c), E)
  BY <1>11, <1>15, <1>16, IdleTurn
<1>18. Whole(W, E)
  BY <1>8, <1>16, TurnsWhole
<1>19. Whole(forceCascadeComplete(Edit(U, c, y), c, k, x), E)
  <2>1. Turns(Edit(U, c, y), E, {}, c, "free") /\ Edit(U, c, y).run[c] = y
    BY <1>8, <1>9, <1>13, EditTurns
  <2>2. QED
    BY <1>13, <2>1, RoutingTurn DEF Ready
<1>20. Whole(Edit(U, c, z), E)
  <2>1. Turns(Edit(U, c, z), E, {}, c, "confirm")
    BY <1>8, <1>9, <1>14, EditTurns
  <2>2. QED
    BY <1>8, <2>1, TurnsWhole
<1>21. Whole(finishTurnRouting(U, c, k, x), E)
  BY <1>7, <1>9, RoutingTurn DEF Ready
<1>22. QED
  BY <1>2, <1>17, <1>18, <1>19, <1>20, <1>21

LEMMA PushWhole ==
  ASSUME NEW E, NEW S, Whole(S, E), NEW frames, Frames(frames), NoReports(frames), NEW c \in Runs
  PROVE  Whole(Push(S, frames), E)
<1>1. PICK m \in Modes : Turns(S, E, {}, c, m)
  BY TurnsWhole
<1>2. Turns(Push(S, frames), E, {}, c, m)
  BY <1>1, PushTurn
<1>3. QED
  BY <1>2, TurnsWhole

\* What follows a cascade's end, and an idle application.
LEMMA TailTurn ==
  ASSUME NEW E, NEW S, Whole(S, E), NEW c \in Runs, NEW x \in Inputs
  PROVE  Whole(cascadeTail(S, c, x), E) /\ Whole(onSlotAvailable(S, c, x), E)
<1> DEFINE q == [S.run[c] EXCEPT !.queued = FALSE]
           s == [S.run[c] EXCEPT !.summary = FALSE]
           frames == <<Call("drain", c, 0)>>
           P == Push(Edit(S, c, q), frames)
<1>1. Shape(S) /\ Members(S.run[c])
  BY DEF Whole, Core, Shape
<1>2. Members(q) /\ Alike(q, S.run[c]) /\ Members(s) /\ Alike(s, S.run[c])
  BY <1>1, MemberFacts DEF Members, Alike
<1>3. /\ cascadeTail(S, c, x) \in {sendMessage(Edit(S, c, q), c, x),
                                   drainPendingSubagentReactions(Edit(S, c, s), c)}
      /\ onSlotAvailable(S, c, x) \in {sendMessage(P, c, x), drainPendingSubagentReactions(S, c)}
  BY DEF cascadeTail, onSlotAvailable, Edit
<1>4. Frames(frames)
  BY OneFrame DEF FrameKinds
<1>5. NoReports(frames)
  BY DEF NoReports, Reports, Call
<1> HIDE DEF q, s, frames
<1>6. Whole(Edit(S, c, q), E) /\ Whole(Edit(S, c, s), E)
  BY <1>2, SoftEdit
<1>7. Whole(P, E)
  BY <1>4, <1>5, <1>6, PushWhole
<1> HIDE DEF P
<1>8. QED
  BY <1>3, <1>6, <1>7, SendTurn, ReactionsTurn

\* A granted turn is the one that waits.
LEMMA GrantedTurn ==
  ASSUME NEW E, NEW S, NEW e, e.c \in Runs, e.p \in Providers, Turns(S, E, {e.p}, e.c, "called"),
         Vacant(S, E, e.p), Ready(S.run[e.c]), S.run[e.c].req = e.req,
         S.run[e.c].usingAgent = e.agent, NEW x
  PROVE  Whole(onGranted(S, e, x), E)
<1> DEFINE c == e.c
           r == [S.run[c] EXCEPT !.waiting = None]
           T == Edit(S, c, r)
<1>1. Core(S, E) /\ Shape(S) /\ Members(S.run[c]) /\ Row(S.run[c], "called")
  BY TurnFacts
<1>2. onGranted(S, e, x) = IF e.agent THEN execute(T, c, e.p, x) ELSE doRoute(T, c, e.p, x)
  <2>1. S.run[c].alive /\ S.run[c].gen /\ S.run[c].usingAgent = e.agent /\ e.agent \in BOOLEAN
    BY <1>1 DEF Row, Ready
  <2>2. CASE e.agent
    BY <2>1, <2>2 DEF onGranted, Edit, Ready
  <2>3. CASE ~e.agent
    BY <2>1, <2>3 DEF onGranted, Edit, Ready
  <2>4. QED
    BY <2>2, <2>3
<1>3. /\ Members(r) /\ Row(r, "free") /\ Ready(r) /\ r.usingAgent = e.agent
      /\ r.held = S.run[c].held /\ r.relay = S.run[c].relay
  <2>1. Members(r)
    BY <1>1, MemberFacts DEF Members, Row, Modes, Ready
  <2>2. /\ Row(r, "free") /\ Ready(r) /\ r.usingAgent = e.agent
        /\ r.held = S.run[c].held /\ r.relay = S.run[c].relay
    BY <1>1, MemberFacts DEF Members, Row, Modes, Ready
  <2>3. QED
    BY <2>1, <2>2
<1>4. "free" \in Parked /\ "called" \in Parked
  BY DEF Parked
<1> HIDE DEF r, c
<1>5. c \in Runs /\ Turns(S, E, {e.p}, c, "called") /\ Vacant(S, E, e.p)
  BY DEF c
<1>6. Turns(T, E, {e.p}, c, "free") /\ T.run[c] = r
  BY <1>3, <1>4, <1>5, EditTurns
<1>7. Vacant(T, E, e.p)
  BY <1>1, <1>3, <1>5, EditCore
<1> HIDE DEF T
<1>8. /\ e.agent => Whole(execute(T, c, e.p, x), E)
      /\ ~e.agent => Whole(doRoute(T, c, e.p, x), E)
  BY <1>3, <1>5, <1>6, <1>7, ExecuteTurn, RouteTurn
<1>9. QED
  BY <1>2, <1>8

\* A reaction starts a turn of an idle run.
LEMMA ReactionTurn ==
  ASSUME NEW E, NEW S, Whole(S, E), NEW c \in Runs
  PROVE  Whole(dispatchSubagentReaction(S, c), E)
<1> DEFINE u == [S.run[c] EXCEPT !.reactions = 1]
           n == nextGlobalRequestId(S, c)
           r == [S.run[c] EXCEPT !.inflight = TRUE, !.req = n, !.relay = None, !.batch = FALSE,
                                 !.stream = TRUE, !.gen = TRUE, !.stopped = FALSE,
                                 !.left = MaxContinuations]
           T == [S EXCEPT !.run[c] = r, !.posted = Append(@, [k |-> "build", c |-> c])]
<1>1. PICK m \in Modes : Turns(S, E, {}, c, m)
  BY TurnsWhole
<1>2. Shape(S) /\ Members(S.run[c]) /\ Row(S.run[c], m)
  BY <1>1, TurnFacts
<1>3. dispatchSubagentReaction(S, c) = IF S.run[c].gen THEN Edit(S, c, u) ELSE T
  BY DEF dispatchSubagentReaction, Edit
<1>4. CASE S.run[c].gen
  <2>1. Members(u) /\ Alike(u, S.run[c])
    BY <1>2, MemberFacts DEF Members, Alike
  <2> HIDE DEF u
  <2>2. QED
    BY <1>3, <1>4, <2>1, SoftEdit
<1>5. CASE ~S.run[c].gen
  <2>1. m = "idle"
    BY <1>2, <1>5 DEF Row
  <2> HIDE DEF n
  <2>2. Members(r) /\ Row(r, "build")
    <3>1. Members(r)
      BY <1>2, <2>1, MemberFacts, ZenonT(40) DEF Members, Row, Modes
    <3>2. Row(r, "build")
      BY <1>2, <2>1, MemberFacts, ZenonT(40) DEF Members, Row, Modes
    <3>3. QED
      BY <3>1, <3>2
  <2> HIDE DEF r
  <2>3. /\ DOMAIN T = DOMAIN S /\ Put(S.run, T.run, c, r)
        /\ T.states = S.states /\ T.calls = S.calls /\ T.wire = S.wire
        /\ T.posted = Append(S.posted, [k |-> "build", c |-> c])
    BY <1>2, ShapeFacts DEF Put
  <2> HIDE DEF T
  <2>4. Whole(T, E)
    BY <1>1, <2>1, <2>2, <2>3, PostTurn
  <2>5. QED
    BY <1>3, <1>5, <2>4
<1>6. QED
  BY <1>4, <1>5

---------------------------------------------------------------------------
\* Steps of turns that nobody stops

\* Every turn is in a mode; or a provider has just reported to a wired one.
TurnInv ==
  \/ Whole(Sys, {})
  \/ /\ calls # <<>>
     /\ Head(calls).c \in Runs /\ Head(calls).k \in {"finished", "errored"}
     /\ Head(calls).req = run[Head(calls).c].req
     /\ Told([Sys EXCEPT !.calls = Tail(@)], {}, Head(calls).c)

LEMMA SameWhole ==
  ASSUME NEW E, NEW S, Whole(S, E), NEW T, DOMAIN T = DOMAIN S, T.run = S.run,
         T.states = S.states, T.posted = S.posted, T.wire = S.wire,
         Frames(T.calls), NoReports(T.calls)
  PROVE  Whole(T, E)
<1>1. Core(T, E)
  BY CallsCore DEF Whole
<1>2. \A d \in Runs : \A n : At(S, d, n) => At(T, d, n)
  BY DEF At
<1>3. QED
  BY <1>1, <1>2 DEF Whole, Wired, Accounted

LEMMA BecomeWhole ==
  ASSUME NEW S, Whole(S, {}), Become(S)
  PROVE  TurnInv'
<1>1. /\ DOMAIN Sys' = DOMAIN S /\ Sys'.run = S.run /\ Sys'.states = S.states
      /\ Sys'.posted = S.posted /\ Sys'.calls = S.calls /\ Sys'.wire = S.wire
  <2>1. run' = S.run /\ states' = S.states /\ posted' = S.posted /\ calls' = S.calls
        /\ wire' = S.wire
    BY DEF Become
  <2>2. DOMAIN S = {"run", "states", "wire", "anchor", "posted", "calls"}
    BY ShapeFacts DEF Whole, Core
  <2>3. QED
    BY <2>1, <2>2 DEF Sys
<1>2. Frames(S.calls) /\ NoReports(S.calls)
  BY ShapeFacts DEF Whole, Core
<1>3. Whole(Sys', {})
  BY <1>1, <1>2, SameWhole
<1>4. QED
  BY <1>3 DEF TurnInv

\* A run of the system is in a mode.
LEMMA ModeFacts ==
  ASSUME TurnInv, calls = <<>>, NEW c \in Runs
  PROVE  /\ Whole(Sys, {}) /\ Shape(Sys) /\ Members(Sys.run[c]) /\ Sys.run[c] = run[c]
         /\ Frames(Sys.calls) /\ NoReports(Sys.calls)
         /\ \E m \in Modes : Turns(Sys, {}, {}, c, m) /\ Row(Sys.run[c], m)
<1>1. Whole(Sys, {})
  BY DEF TurnInv
<1>2. PICK m \in Modes : Turns(Sys, {}, {}, c, m)
  BY <1>1, TurnsWhole
<1>3. QED
  BY <1>1, <1>2, TurnFacts, SysFacts

LEMMA ReturnTurn == TurnInv /\ Return => TurnInv'
<1> SUFFICES ASSUME TurnInv, Return PROVE TurnInv'
  OBVIOUS
<1> DEFINE f == Head(calls)
           S == [Sys EXCEPT !.calls = Tail(@)]
           c == f.c
           R == [S EXCEPT !.run[c].relay = None]
<1>1. calls # <<>>
  BY DEF Return
<1>2. PICK x \in Inputs :
        CASE ~run[c].alive -> Become(S)
          [] run[c].alive /\ f.k = "slot" -> Become(onSlotAvailable(S, c, x))
          [] run[c].alive /\ f.k = "drain" -> Become(drainPendingSubagentReactions(S, c))
          [] run[c].alive /\ f.k = "tail" -> Become(cascadeTail(S, c, x))
          [] run[c].alive /\ f.k = "finished" ->
               IF f.req = 0 \/ f.req # run[c].req THEN Become(S)
               ELSE \E o \in Outcomes(c), k \in Answers(c) :
                      Become(onRequestFinished(S, c, o, k, x))
          [] run[c].alive /\ f.k = "errored" ->
               IF f.req = 0 \/ f.req # run[c].req THEN Become(S)
               ELSE Become(onRequestError([S EXCEPT !.run[c].relay = None], c))
          [] run[c].alive /\ f.k = "dtor" -> Become(destroyRun(S, c))
  BY DEF Return
<1>3. S.run = run
  BY DEF Sys
<1>4. CASE Whole(Sys, {})
  <2>1. Core(Sys, {}) /\ Frames(calls) /\ IsSeq(calls) /\ NoReports(calls)
    BY <1>4, SysFacts, ShapeFacts DEF Whole, Core
  <2>2. Core(S, {}) /\ c \in Runs /\ f.k \in FrameKinds
    BY <1>1, <2>1, PopCall
  <2>3. /\ 1 \in DOMAIN calls /\ f = calls[1]
        /\ \A i \in DOMAIN Tail(calls) : i + 1 \in DOMAIN calls /\ Tail(calls)[i] = calls[i + 1]
    BY <1>1, <2>1, SeqFacts
  <2>4. f.k \in {"slot", "drain", "tail"}
    BY <2>1, <2>2, <2>3 DEF NoReports, Reports, FrameKinds
  <2>5. /\ DOMAIN S = DOMAIN Sys /\ S.run = Sys.run /\ S.states = Sys.states
        /\ S.posted = Sys.posted /\ S.wire = Sys.wire /\ S.calls = Tail(calls)
    BY DEF Sys
  <2>6. run[c].alive
    BY <1>4, <2>2, SysFacts DEF Whole, At, Row
  <2> HIDE DEF f, S, c
  <2>7. Frames(S.calls)
    BY <2>2, ShapeFacts DEF Core
  <2>8. NoReports(S.calls)
    BY <2>1, <2>3, <2>5 DEF NoReports
  <2>9. Whole(S, {})
    BY <1>4, <2>5, <2>7, <2>8, SameWhole
  <2>10. /\ Whole(onSlotAvailable(S, c, x), {}) /\ Whole(cascadeTail(S, c, x), {})
         /\ Whole(drainPendingSubagentReactions(S, c), {})
    BY <2>2, <2>9, TailTurn, ReactionsTurn
  <2>11. CASE f.k = "slot"
    BY <1>2, <2>6, <2>10, <2>11, BecomeWhole
  <2>12. CASE f.k = "drain"
    BY <1>2, <2>6, <2>10, <2>12, BecomeWhole
  <2>13. CASE f.k = "tail"
    BY <1>2, <2>6, <2>10, <2>13, BecomeWhole
  <2>14. QED
    BY <2>4, <2>11, <2>12, <2>13
<1>5. CASE ~Whole(Sys, {})
  <2>1. /\ c \in Runs /\ f.k \in {"finished", "errored"} /\ f.req = run[c].req
        /\ Told(S, {}, c)
    BY <1>5 DEF TurnInv
  <2>2. R = Edit(S, c, [S.run[c] EXCEPT !.relay = None])
    BY DEF Edit
  <2> HIDE DEF f, S, c, R
  <2>3. run[c].alive /\ f.req # 0
    BY <1>3, <2>1 DEF Told, At, Row, Modes
  <2>4. CASE f.k = "finished"
    <3>1. PICK o \in Outcomes(c), k \in Answers(c) : Become(onRequestFinished(S, c, o, k, x))
      BY <1>2, <2>1, <2>3, <2>4
    <3>2. k \in AnswerKinds /\ o \in {"reply", "cap", "tools", "confirm"}
      BY <2>1, AnswerFacts, OutcomeFacts
    <3>3. Whole(onRequestFinished(S, c, o, k, x), {})
      BY <2>1, <3>2, FinishedTurn
    <3>4. QED
      BY <3>1, <3>3, BecomeWhole
  <2>5. CASE f.k = "errored"
    <3>1. Become(onRequestError(R, c))
      BY <1>2, <2>1, <2>3, <2>5 DEF R
    <3> DEFINE r == [S.run[c] EXCEPT !.relay = None]
    <3>2. Turns(Edit(S, c, r), {}, {}, c, "holds") /\ Edit(S, c, r).run[c] = r
          /\ ~r.usingAgent
      BY <2>1, ToldTurn
    <3> HIDE DEF r
    <3>3. Whole(onRequestError(Edit(S, c, r), c), {})
      BY <2>1, <3>2, ErrorTurn
    <3>4. QED
      BY <2>2, <3>1, <3>3, BecomeWhole DEF r
  <2>6. QED
    BY <2>1, <2>4, <2>5
<1>6. QED
  BY <1>4, <1>5

LEMMA TimerTurn == TurnInv /\ FireTimer => TurnInv'
<1> SUFFICES ASSUME TurnInv, FireTimer PROVE TurnInv'
  OBVIOUS
<1> DEFINE e == Head(posted)
           S == [Sys EXCEPT !.posted = Tail(@)]
           c == e.c
<1>1. Whole(Sys, {}) /\ posted # <<>>
  BY DEF TurnInv, FireTimer
<1>2. /\ c \in Runs
      /\ e.k = "grant" =>
           /\ e.p \in Providers /\ Vacant(S, {}, e.p) /\ Turns(S, {}, {e.p}, c, "called")
           /\ S.run[c].req = e.req /\ S.run[c].usingAgent = e.agent
           /\ Ready(S.run[c])
      /\ e.k = "build" =>
           /\ Turns(S, {}, {}, c, "free") /\ ~S.run[c].usingAgent
           /\ S.run[c].gen /\ S.run[c].stream
      /\ e.k \notin {"grant", "build"} => Whole(S, {})
  BY <1>1, PopTurn
<1>3. PICK x \in Inputs :
        CASE e.k = "grant" -> Become(onGranted(S, e, x))
          [] e.k = "build" /\ run[c].alive -> Become(buildAndSendRequest(S, c, x))
          [] e.k = "react" /\ run[c].alive -> Become(dispatchSubagentReaction(S, c))
          [] OTHER -> Become(S)
  BY DEF FireTimer
<1>4. S.run = run
  BY DEF Sys
<1> HIDE DEF S
<1>5. CASE e.k = "grant"
  <2>1. Whole(onGranted(S, e, x), {})
    <3> HIDE DEF e
    <3>1. QED
      BY <1>2, <1>5, GrantedTurn DEF c
  <2>2. QED
    BY <1>3, <1>5, <2>1, BecomeWhole
<1> HIDE DEF e, c
<1>6. CASE e.k = "build"
  <2>1. Whole(buildAndSendRequest(S, c, x), {})
    BY <1>2, <1>6, BuildTurn
  <2>2. run[c].alive
    BY <1>2, <1>4, <1>6, TurnFacts DEF Row
  <2>3. QED
    BY <1>3, <1>6, <2>1, <2>2, BecomeWhole
<1>7. CASE e.k \notin {"grant", "build"}
  <2>1. Whole(S, {}) /\ Whole(dispatchSubagentReaction(S, c), {})
    BY <1>2, <1>7, ReactionTurn
  <2>2. Become(S) \/ Become(dispatchSubagentReaction(S, c))
    BY <1>3, <1>7
  <2>3. QED
    BY <2>1, <2>2, BecomeWhole
<1>8. QED
  BY <1>5, <1>6, <1>7

\* A provider has nothing on its wire any more.
LEMMA Unwire ==
  ASSUME NEW S, Whole(S, {}), NEW p \in Providers, NEW T, DOMAIN T = DOMAIN S, T.run = S.run,
         T.states = S.states, T.posted = S.posted, T.wire = [S.wire EXCEPT ![p] = None],
         Frames(T.calls), NoReports(T.calls)
  PROVE  /\ (\A d \in Runs : S.run[d].relay # p) => Whole(T, {})
         /\ \A c \in Runs : S.run[c].relay = p => Told(T, {}, c)
<1>1. Core(S, {}) /\ Core(T, {})
  BY CallsCore DEF Whole
<1>2. \A d \in Runs : \A n : At(S, d, n) => At(T, d, n)
  BY DEF At
<1>3. \A d \in Runs : \E n \in Modes : At(T, d, n)
  BY <1>2 DEF Whole
<1>4. Accounted(T, {})
  BY DEF Whole, Accounted
<1>5. \A d \in Runs : S.run[d].relay # p => Wired(T, d)
  <2> SUFFICES ASSUME NEW d \in Runs, S.run[d].relay # p PROVE Wired(T, d)
    OBVIOUS
  <2>1. Wired(S, d)
    BY DEF Whole
  <2>2. DOMAIN T.wire = Providers
    BY <2>1 DEF Wired
  <2>3. S.run[d].relay # None => T.wire[S.run[d].relay] = d
    <3>1. Shape(S)
      BY <1>1 DEF Core
    <3>2. S.run[d].relay \in Providers \cup {None}
      BY <3>1, ShapeFacts
    <3>3. QED
      BY <2>1, <3>2 DEF Wired
  <2>4. QED
    BY <2>2, <2>3 DEF Wired
<1>6. ASSUME NEW c \in Runs, S.run[c].relay = p PROVE Told(T, {}, c)
  <2>1. \A d \in Runs \ {c} : S.run[d].relay # p
    <3>1. Apart(S, {}, p)
      BY <1>1 DEF Core
    <3>2. QED
      BY <1>6, <3>1 DEF Apart, Owns
  <2>2. PICK m \in Modes : At(S, c, m)
    BY DEF Whole
  <2>3. m = "wired"
    BY <1>6, <2>2, RunsAssumption DEF At, Row
  <2>4. At(T, c, "wired")
    BY <1>2, <2>2, <2>3
  <2>5. DOMAIN T.wire = Providers
    BY DEF Whole, Wired
  <2>6. QED
    BY <1>1, <1>3, <1>4, <1>5, <2>1, <2>4, <2>5 DEF Told
<1>7. QED
  BY <1>1, <1>3, <1>4, <1>5, <1>6 DEF Whole

\* A provider's report reaches the one run that awaits it.
LEMMA ReportsTurn ==
  ASSUME NEW p \in Providers, NEW k \in {"finished", "errored"}, TurnInv, ProviderReports(p, k)
  PROVE  TurnInv'
<1> DEFINE W == {c \in Runs : run[c].relay = p}
           awaiting == SetToSeq(W)
           n == Len(awaiting)
           frames == [i \in 1..n |-> Call(k, awaiting[i], run[awaiting[i]].req)]
           P == Push(Sys, frames)
           T == [P EXCEPT !.wire[p] = None]
<1>1. Whole(Sys, {}) /\ Core(Sys, {}) /\ calls = <<>>
  BY DEF TurnInv, ProviderReports, Whole
<1>2. Become(T)
  BY DEF ProviderReports
<1>3. IsFiniteSet(W) /\ W \subseteq Runs
  BY RunsAssumption, FS_Subset
<1>4. \A c, d \in W : c = d
  <2>1. Apart(Sys, {}, p)
    BY <1>1 DEF Core
  <2>2. \A c \in W : c \in Runs /\ Owns(Sys, {}, c, p)
    BY SysFacts DEF Owns
  <2>3. QED
    BY <2>1, <2>2 DEF Apart
<1>5. \A c \in W : c \in Runs /\ run[c].relay = p
  OBVIOUS
<1>6. \A c \in Runs \ W : run[c].relay # p
  OBVIOUS
<1> HIDE DEF W
<1>7. awaiting \in [1..Cardinality(W) -> W]
  BY <1>3, EnumFacts
<1>8. Cardinality(W) \in {0, 1} /\ (Cardinality(W) = 0 <=> W = {})
  BY <1>4, AtMostOne
<1> HIDE DEF awaiting
<1>9. n = Cardinality(W)
  <2>1. awaiting \in Seq(W)
    BY <1>7, <1>8, SeqDef
  <2>2. DOMAIN awaiting = 1..n /\ DOMAIN awaiting = 1..Cardinality(W) /\ n \in Nat
    BY <1>7, <2>1, LenProperties
  <2>3. QED
    BY <1>8, <2>2
<1> HIDE DEF n
<1>10. IsSeq(frames) /\ Len(frames) = n /\ DOMAIN frames = 1..n
  BY <1>8, <1>9, FunctionIsSeq
<1>11. \A i \in 1..n : frames[i] = Call(k, awaiting[i], run[awaiting[i]].req)
  OBVIOUS
<1> HIDE DEF frames
<1>12. frames \o <<>> = frames
  BY <1>10, ConcatEmptySeq DEF IsSeq
<1>13. /\ run' = run /\ states' = states /\ posted' = posted
       /\ wire' = [wire EXCEPT ![p] = None] /\ calls' = frames
  BY <1>1, <1>2, <1>12 DEF Become, Push, Sys
<1>14. /\ DOMAIN Sys' = DOMAIN Sys /\ Sys'.run = Sys.run /\ Sys'.states = Sys.states
       /\ Sys'.posted = Sys.posted /\ Sys'.wire = [Sys.wire EXCEPT ![p] = None]
       /\ Sys'.calls = frames
  BY <1>13 DEF Sys
<1>15. CASE W = {}
  <2>1. DOMAIN frames = {}
    BY <1>8, <1>9, <1>10, <1>15
  <2>2. Frames(Sys'.calls) /\ NoReports(Sys'.calls)
    BY <1>10, <1>14, <2>1 DEF Frames, NoReports
  <2>3. \A d \in Runs : Sys.run[d].relay # p
    BY <1>6, <1>15, SysFacts
  <2>4. Whole(Sys', {})
    BY <1>1, <1>14, <2>2, <2>3, Unwire
  <2>5. QED
    BY <2>4 DEF TurnInv
<1>16. CASE W # {}
  <2>1. n = 1
    BY <1>8, <1>9, <1>16
  <2> DEFINE c == awaiting[1]
             f == Head(frames)
             V == [Sys' EXCEPT !.calls = Tail(@)]
  <2>2. c \in W
    BY <1>7, <1>9, <2>1
  <2>3. c \in Runs /\ run[c].relay = p
    BY <1>5, <2>2
  <2>4. /\ frames # <<>> /\ f = frames[1] /\ IsSeq(Tail(frames)) /\ Len(Tail(frames)) = 0
    <3>1. frames # <<>>
      BY <1>10, <2>1, EmptyIsSeq
    <3>2. QED
      BY <1>10, <2>1, <3>1, SeqFacts
  <2>5. DOMAIN Tail(frames) = {}
    <3> DEFINE t == Tail(frames)
    <3>1. IsSeq(t) /\ Len(t) = 0
      BY <2>4
    <3> HIDE DEF t
    <3>2. DOMAIN t = 1..0
      BY <3>1, SeqFacts
    <3>3. QED
      BY <3>2 DEF t
  <2>6. f.c = c /\ f.k = k /\ f.req = run[c].req
    BY <1>11, <2>1, <2>4 DEF Call
  <2> HIDE DEF f, c
  <2>7. /\ DOMAIN V = DOMAIN Sys /\ V.run = Sys.run /\ V.states = Sys.states
        /\ V.posted = Sys.posted /\ V.wire = [Sys.wire EXCEPT ![p] = None]
        /\ V.calls = Tail(frames)
    BY <1>14 DEF Sys
  <2> HIDE DEF V
  <2>8. Frames(V.calls) /\ NoReports(V.calls)
    BY <2>4, <2>5, <2>7 DEF Frames, NoReports
  <2>9. Told(V, {}, c)
    BY <1>1, <2>3, <2>7, <2>8, SysFacts, Unwire
  <2>10. QED
    BY <1>13, <2>3, <2>4, <2>6, <2>9 DEF TurnInv, V, f
<1>17. QED
  BY <1>15, <1>16

\* The workers a turn waits for.
LEMMA AgentTurn ==
  ASSUME NEW c \in Runs, TurnInv, AgentTerminal(c)
  PROVE  TurnInv'
<1> DEFINE p == run[c].exec
           r == [Sys.run[c] EXCEPT !.exec = None]
           T == [Sys EXCEPT !.run[c].exec = None, !.wire[p] = IF @ = c THEN None ELSE @]
<1>1. Become(onAgentTerminal(T, c)) /\ calls = <<>> /\ p # None
  BY DEF AgentTerminal
<1>2. /\ Whole(Sys, {}) /\ Shape(Sys) /\ Members(Sys.run[c]) /\ Sys.run[c] = run[c]
  BY <1>1, ModeFacts
<1>3. PICK m \in Modes : Turns(Sys, {}, {}, c, m) /\ Row(Sys.run[c], m)
  BY <1>1, ModeFacts
<1>4. m = "agent" /\ p = Sys.run[c].held
  BY <1>1, <1>2, <1>3 DEF Row
<1>5. /\ Members(r) /\ Row(r, "holds") /\ r.held = p /\ r.usingAgent
  <2>1. Members(r)
    BY <1>2, <1>3, <1>4, MemberFacts DEF Members, Row, Modes
  <2>2. /\ Row(r, "holds") /\ r.held = p /\ r.usingAgent
    BY <1>2, <1>3, <1>4, MemberFacts DEF Members, Row, Modes
  <2>3. QED
    BY <2>1, <2>2
<1>6. /\ DOMAIN T = DOMAIN Sys /\ T.states = Sys.states /\ T.calls = Sys.calls
      /\ T.posted = Sys.posted /\ Put(Sys.run, T.run, c, r) /\ T.run[c] = r
      /\ DOMAIN T.wire = DOMAIN Sys.wire
      /\ \A q \in Providers \ {p} : T.wire[q] = Sys.wire[q]
  BY <1>2, ShapeFacts DEF Put
<1> HIDE DEF r, T, p
<1>7. Turns(T, {}, {}, c, "holds")
  BY <1>3, <1>4, <1>5, <1>6, WireTurn
<1>8. Whole(onAgentTerminal(T, c), {})
  BY <1>5, <1>6, <1>7, TerminalTurn
<1>9. QED
  BY <1>1, <1>8, BecomeWhole

LEMMA RecallTurn ==
  ASSUME NEW c \in Runs, TurnInv, MemoryRetrievalReady(c)
  PROVE  TurnInv'
<1> DEFINE r == [Sys.run[c] EXCEPT !.query = "none"]
           S == [Sys EXCEPT !.run[c].query = "none"]
<1>1. calls = <<>> /\ run[c].query # "none"
  BY DEF MemoryRetrievalReady
<1>2. PICK x \in Inputs : IF run[c].query = "direct" THEN Become(buildAndDispatchDirect(S, c, x))
                          ELSE Become(dispatchAgentTurn(S, c, x))
  BY DEF MemoryRetrievalReady
<1>3. Members(Sys.run[c]) /\ Sys.run[c] = run[c]
  BY <1>1, ModeFacts
<1>4. PICK m \in Modes : Turns(Sys, {}, {}, c, m) /\ Row(Sys.run[c], m)
  BY <1>1, ModeFacts
<1>5. m = "query" /\ run[c].query = IF run[c].usingAgent THEN "agent" ELSE "direct"
  BY <1>1, <1>3, <1>4 DEF Row
<1>6. S = Edit(Sys, c, r)
  BY DEF Edit
<1>7. /\ Members(r) /\ Row(r, "free") /\ Ready(r) /\ r.usingAgent = run[c].usingAgent
      /\ r.held = Sys.run[c].held /\ r.relay = Sys.run[c].relay
  <2>1. Members(r)
    BY <1>3, <1>4, <1>5, MemberFacts DEF Members, Row, Modes, Ready
  <2>2. /\ Row(r, "free") /\ Ready(r) /\ r.usingAgent = run[c].usingAgent
        /\ r.held = Sys.run[c].held /\ r.relay = Sys.run[c].relay
    BY <1>3, <1>4, <1>5, MemberFacts DEF Members, Row, Modes, Ready
  <2>3. QED
    BY <2>1, <2>2
<1>8. "query" \in Parked /\ "free" \in Parked
  BY DEF Parked
<1> HIDE DEF r, S
<1>9. Turns(S, {}, {}, c, "free") /\ S.run[c] = r
  BY <1>4, <1>5, <1>6, <1>7, <1>8, EditTurns
<1>10. CASE run[c].usingAgent
  <2>1. Become(dispatchAgentTurn(S, c, x))
    BY <1>2, <1>5, <1>10
  <2>2. Whole(dispatchAgentTurn(S, c, x), {})
    BY <1>7, <1>9, <1>10, AgentDispatchTurn
  <2>3. QED
    BY <2>1, <2>2, BecomeWhole
<1>11. CASE ~run[c].usingAgent
  <2>1. Become(buildAndDispatchDirect(S, c, x))
    BY <1>2, <1>5, <1>11
  <2>2. Whole(buildAndDispatchDirect(S, c, x), {})
    BY <1>7, <1>9, <1>11, BuildDirectTurn
  <2>3. QED
    BY <2>1, <2>2, BecomeWhole
<1>12. QED
  BY <1>10, <1>11

LEMMA BatchTurn ==
  ASSUME NEW c \in Runs, TurnInv, ToolBatchCompleted(c)
  PROVE  TurnInv'
<1>1. calls = <<>> /\ run[c].batch
  BY DEF ToolBatchCompleted
<1>2. PICK a \in {anchor} \cup Opt("plan") :
        \/ Become(onCascadeMemberTurnStarted([Sys EXCEPT !.run[c].batch = FALSE, !.anchor = a], c))
        \/ \E x \in Inputs :
             Become(buildAndSendRequest([[Sys EXCEPT !.run[c].batch = FALSE, !.anchor = a]
                                          EXCEPT !.run[c].stream = TRUE], c, x))
  BY DEF ToolBatchCompleted
<1> DEFINE r == [Sys.run[c] EXCEPT !.batch = FALSE]
           S == [Sys EXCEPT !.run[c].batch = FALSE, !.anchor = a]
           t == [S.run[c] EXCEPT !.stream = TRUE]
           T == [S EXCEPT !.run[c].stream = TRUE]
<1>3. /\ Shape(Sys) /\ Members(Sys.run[c]) /\ Sys.run[c] = run[c]
      /\ Frames(Sys.calls) /\ NoReports(Sys.calls)
  BY <1>1, ModeFacts
<1>4. PICK m \in Modes : Turns(Sys, {}, {}, c, m) /\ Row(Sys.run[c], m)
  BY <1>1, ModeFacts
<1>5. m = "batch"
  BY <1>1, <1>3, <1>4 DEF Row
<1>6. /\ Members(r) /\ Row(r, "free") /\ r.gen /\ r.inflight /\ ~r.usingAgent
      /\ r.held = Sys.run[c].held /\ r.relay = Sys.run[c].relay
  <2>1. Members(Sys.run[c]) /\ Row(Sys.run[c], "batch")
    BY <1>3, <1>4, <1>5
  <2>2. Members(r)
    BY <2>1, MemberFacts DEF Members, Row, Modes
  <2>3. /\ Row(r, "free") /\ r.gen /\ r.inflight /\ ~r.usingAgent
        /\ r.held = Sys.run[c].held /\ r.relay = Sys.run[c].relay
    BY <2>1, MemberFacts, ZenonT(40) DEF Members, Row, Modes
  <2>4. QED
    BY <2>2, <2>3
<1>7. /\ DOMAIN S = DOMAIN Sys /\ S.states = Sys.states /\ S.calls = Sys.calls
      /\ S.posted = Sys.posted /\ S.wire = Sys.wire /\ Put(Sys.run, S.run, c, r) /\ S.run[c] = r
  BY <1>3, ShapeFacts DEF Put
<1>8. T = Edit(S, c, t)
  BY DEF Edit
<1>9. \/ Become(onCascadeMemberTurnStarted(S, c))
      \/ \E x \in Inputs : Become(buildAndSendRequest(T, c, x))
  BY <1>2
<1>10. "batch" \in Parked /\ "free" \in Parked
  BY DEF Parked
<1> HIDE DEF r, S, T
<1>11. Turns(S, {}, {}, c, "free")
  BY <1>3, <1>4, <1>5, <1>6, <1>7, <1>10, EditTurn
<1>12. Members(S.run[c]) /\ Row(S.run[c], "free")
  BY <1>11, TurnFacts
<1>13. /\ Members(t) /\ Row(t, "free") /\ t.gen /\ t.stream /\ ~t.usingAgent
       /\ t.held = S.run[c].held /\ t.relay = S.run[c].relay
  BY <1>6, <1>7, <1>12, MemberFacts DEF Members, Row, Modes
<1> HIDE DEF t
<1>14. Turns(T, {}, {}, c, "free") /\ T.run[c] = t
  BY <1>8, <1>10, <1>11, <1>13, EditTurns
<1>15. Whole(onCascadeMemberTurnStarted(S, c), {})
  BY <1>6, <1>7, <1>11, RestartTurn
<1>16. \A x \in Inputs : Whole(buildAndSendRequest(T, c, x), {})
  BY <1>13, <1>14, BuildTurn
<1>17. QED
  BY <1>9, <1>15, <1>16, BecomeWhole

LEMMA ConfirmTurn ==
  ASSUME NEW c \in Runs, TurnInv, ConfirmerFinished(c)
  PROVE  TurnInv'
<1> DEFINE r == [Sys.run[c] EXCEPT !.confirm = 0]
           S == [Sys EXCEPT !.run[c].confirm = 0]
<1>1. calls = <<>> /\ run[c].confirm # 0
  BY DEF ConfirmerFinished
<1>2. IF run[c].confirm # run[c].req THEN Become(S)
      ELSE \/ Become(postBuild(S, c))
           \/ \E k \in Answers(c), x \in Inputs : Become(finishTurnRouting(S, c, k, x))
  BY DEF ConfirmerFinished
<1>3. Members(Sys.run[c]) /\ Sys.run[c] = run[c]
  BY <1>1, ModeFacts
<1>4. PICK m \in Modes : Turns(Sys, {}, {}, c, m) /\ Row(Sys.run[c], m)
  BY <1>1, ModeFacts
<1>5. m = "confirm" /\ run[c].confirm = run[c].req
  BY <1>1, <1>3, <1>4 DEF Row
<1>6. S = Edit(Sys, c, r)
  BY DEF Edit
<1>7. /\ Members(r) /\ Row(r, "free") /\ r.gen /\ r.inflight /\ r.req # 0 /\ ~r.usingAgent
      /\ r.held = Sys.run[c].held /\ r.relay = Sys.run[c].relay
  <2>1. Members(r)
    BY <1>3, <1>4, <1>5, MemberFacts DEF Members, Row, Modes
  <2>2. /\ Row(r, "free") /\ r.gen /\ r.inflight /\ r.req # 0 /\ ~r.usingAgent
        /\ r.held = Sys.run[c].held /\ r.relay = Sys.run[c].relay
    BY <1>3, <1>4, <1>5, MemberFacts DEF Members, Row, Modes
  <2>3. QED
    BY <2>1, <2>2
<1>8. "confirm" \in Parked /\ "free" \in Parked
  BY DEF Parked
<1> HIDE DEF r, S
<1>9. Turns(S, {}, {}, c, "free") /\ S.run[c] = r
  BY <1>4, <1>5, <1>6, <1>7, <1>8, EditTurns
<1>10. Whole(postBuild(S, c), {})
  BY <1>7, <1>9, PostBuildTurn
<1>11. \A k \in Answers(c), x \in Inputs : Whole(finishTurnRouting(S, c, k, x), {})
  BY <1>7, <1>9, RoutingTurn, AnswerFacts
<1>12. QED
  BY <1>2, <1>5, <1>10, <1>11, BecomeWhole

LEMMA VerdictTurn ==
  ASSUME NEW c \in Runs, TurnInv, VerdictReady(c)
  PROVE  TurnInv'
<1> DEFINE r == [Sys.run[c] EXCEPT !.verdict = 0]
           S == [Sys EXCEPT !.run[c].verdict = 0]
<1>1. calls = <<>> /\ run[c].verdict # 0
  BY DEF VerdictReady
<1>2. \E k \in Answers(c), x \in Inputs : Become(routeOrFinalize(S, c, k, x))
  BY DEF VerdictReady
<1>3. Members(Sys.run[c]) /\ Sys.run[c] = run[c]
  BY <1>1, ModeFacts
<1>4. PICK m \in Modes : Turns(Sys, {}, {}, c, m) /\ Row(Sys.run[c], m)
  BY <1>1, ModeFacts
<1>5. m = "verdict"
  BY <1>1, <1>3, <1>4 DEF Row
<1>6. S = Edit(Sys, c, r)
  BY DEF Edit
<1>7. /\ Members(r) /\ Row(r, "free") /\ r.gen /\ r.inflight /\ r.req # 0 /\ ~r.usingAgent
      /\ r.held = Sys.run[c].held /\ r.relay = Sys.run[c].relay
  <2>1. Members(r)
    BY <1>3, <1>4, <1>5, MemberFacts DEF Members, Row, Modes
  <2>2. /\ Row(r, "free") /\ r.gen /\ r.inflight /\ r.req # 0 /\ ~r.usingAgent
        /\ r.held = Sys.run[c].held /\ r.relay = Sys.run[c].relay
    BY <1>3, <1>4, <1>5, MemberFacts DEF Members, Row, Modes
  <2>3. QED
    BY <2>1, <2>2
<1>8. "verdict" \in Parked /\ "free" \in Parked
  BY DEF Parked
<1> HIDE DEF r, S
<1>9. Turns(S, {}, {}, c, "free") /\ S.run[c] = r
  BY <1>4, <1>5, <1>6, <1>7, <1>8, EditTurns
<1>10. \A k \in Answers(c), x \in Inputs : Whole(routeOrFinalize(S, c, k, x), {})
  BY <1>7, <1>9, RoutingTurn, AnswerFacts
<1>11. QED
  BY <1>2, <1>10, BecomeWhole

\* What users and services start.
LEMMA StartTurn ==
  ASSUME NEW c \in Runs, TurnInv, Send(c) \/ Reaction(c)
  PROVE  TurnInv'
<1>1. Whole(Sys, {})
  BY ModeFacts DEF Send, Reaction, Calm
<1>2. (\E x \in Inputs : Become(sendMessage(Sys, c, x))) \/ Become(dispatchSubagentReaction(Sys, c))
  BY DEF Send, Reaction
<1>3. QED
  BY <1>1, <1>2, SendTurn, ReactionTurn, BecomeWhole

LEMMA ImageTurn ==
  ASSUME NEW c \in Runs, TurnInv, ImageGenerated(c)
  PROVE  TurnInv'
<1> DEFINE r == [Sys.run[c] EXCEPT !.stream = TRUE, !.inflight = TRUE, !.gen = TRUE,
                                   !.stopped = FALSE, !.left = MaxContinuations]
           T == [Sys EXCEPT !.run[c] = r, !.posted = Append(@, [k |-> "build", c |-> c])]
<1>1. Become(T) /\ ~run[c].gen /\ calls = <<>>
  BY DEF ImageGenerated, Calm
<1>2. Shape(Sys) /\ Members(Sys.run[c]) /\ Sys.run[c] = run[c]
  BY <1>1, ModeFacts
<1>3. PICK m \in Modes : Turns(Sys, {}, {}, c, m) /\ Row(Sys.run[c], m)
  BY <1>1, ModeFacts
<1>4. m = "idle"
  BY <1>1, <1>2, <1>3 DEF Row
<1>5. Members(r) /\ Row(r, "build")
  <2>1. Members(r)
    BY <1>2, <1>3, <1>4, MemberFacts DEF Members, Row, Modes
  <2>2. Row(r, "build")
    BY <1>2, <1>3, <1>4, MemberFacts, ZenonT(40) DEF Members, Row, Modes
  <2>3. QED
    BY <2>1, <2>2
<1> HIDE DEF r
<1>6. /\ DOMAIN T = DOMAIN Sys /\ Put(Sys.run, T.run, c, r)
      /\ T.states = Sys.states /\ T.calls = Sys.calls /\ T.wire = Sys.wire
      /\ T.posted = Append(Sys.posted, [k |-> "build", c |-> c])
  BY <1>2, ShapeFacts DEF Put
<1> HIDE DEF T
<1>7. Whole(T, {})
  BY <1>3, <1>4, <1>5, <1>6, PostTurn
<1>8. QED
  BY <1>1, <1>7, BecomeWhole

LEMMA TaskTurn ==
  ASSUME NEW c \in Runs, TurnInv, TaskStarted(c)
  PROVE  TurnInv'
<1> DEFINE r == [Sys.run[c] EXCEPT !.batch = FALSE, !.stream = TRUE, !.gen = TRUE,
                                   !.stopped = FALSE, !.left = MaxContinuations]
           T == [Sys EXCEPT !.run[c] = r, !.anchor = TRUE]
<1>1. PICK x \in Inputs : Become(buildAndSendRequest(T, c, x))
  BY DEF TaskStarted
<1>2. ~run[c].gen /\ calls = <<>>
  BY DEF TaskStarted, Calm
<1>3. /\ Shape(Sys) /\ Members(Sys.run[c]) /\ Sys.run[c] = run[c]
      /\ Frames(Sys.calls) /\ NoReports(Sys.calls)
  BY <1>2, ModeFacts
<1>4. PICK m \in Modes : Turns(Sys, {}, {}, c, m) /\ Row(Sys.run[c], m)
  BY <1>2, ModeFacts
<1>5. m = "idle"
  BY <1>2, <1>3, <1>4 DEF Row
<1>6. /\ Members(r) /\ Row(r, "free") /\ r.gen /\ r.stream /\ ~r.usingAgent
      /\ r.held = Sys.run[c].held /\ r.relay = Sys.run[c].relay
  <2>1. Members(r)
    BY <1>3, <1>4, <1>5, MemberFacts DEF Members, Row, Modes
  <2>2. /\ Row(r, "free") /\ r.gen /\ r.stream /\ ~r.usingAgent
        /\ r.held = Sys.run[c].held /\ r.relay = Sys.run[c].relay
    BY <1>3, <1>4, <1>5, MemberFacts, ZenonT(40) DEF Members, Row, Modes
  <2>3. QED
    BY <2>1, <2>2
<1> HIDE DEF r
<1>7. /\ DOMAIN T = DOMAIN Sys /\ T.states = Sys.states /\ T.calls = Sys.calls
      /\ T.posted = Sys.posted /\ T.wire = Sys.wire /\ Put(Sys.run, T.run, c, r) /\ T.run[c] = r
  BY <1>3, ShapeFacts DEF Put
<1>8. "idle" \in Parked /\ "free" \in Parked
  BY DEF Parked
<1> HIDE DEF T
<1>9. Turns(T, {}, {}, c, "free")
  BY <1>3, <1>4, <1>5, <1>6, <1>7, <1>8, EditTurn
<1>10. Whole(buildAndSendRequest(T, c, x), {})
  BY <1>6, <1>7, <1>9, BuildTurn
<1>11. QED
  BY <1>1, <1>10, BecomeWhole

LEMMA InitTurn == Init => TurnInv
<1> SUFFICES ASSUME Init PROVE Whole(Sys, {})
  BY DEF TurnInv
<1>1. run = [c \in Runs |-> NewRun] /\ states = [p \in Providers |-> ProviderState]
      /\ posted = <<>> /\ calls = <<>> /\ wire = [p \in Providers |-> None]
  BY DEF Init
<1>2. Row(NewRun, "idle") /\ NewRun.held = None /\ NewRun.relay = None
  BY DEF NewRun, Row, Modes
<1>3. ProviderState.inFlight = 0 /\ ProviderState.queue = <<>>
  BY DEF ProviderState
<1>4. Core(Sys, {})
  <2>1. Shape(Sys)
    BY InitInv DEF IInv, Core
  <2>2. ASSUME NEW p \in Providers PROVE Apart(Sys, {}, p)
    <3>1. \A c \in Runs : ~Owns(Sys, {}, c, p)
      BY <1>1, <1>2, SysFacts, RunsAssumption DEF Owns
    <3>2. DOMAIN Sys.posted = {}
      BY <1>1, SysFacts, EmptyIsSeq
    <3>3. QED
      BY <3>1, <3>2 DEF Apart
  <2>3. QED
    BY <2>1, <2>2 DEF Core
<1>5. NoReports(Sys.calls)
  BY <1>1, SysFacts, EmptyIsSeq DEF NoReports
<1>6. Accounted(Sys, {})
  BY <1>1, <1>3, SysFacts DEF Accounted
<1>7. ASSUME NEW d \in Runs PROVE Wired(Sys, d) /\ At(Sys, d, "idle")
  <2>1. Wired(Sys, d)
    BY <1>1, <1>2, SysFacts DEF Wired
  <2>2. Queued(states, run[d], d, "idle")
    BY <1>1, <1>3, EmptyIsSeq DEF Queued
  <2>3. Timed(posted, run[d], d, "idle")
    BY <1>1, EmptyIsSeq DEF Timed
  <2>4. QED
    BY <1>1, <1>2, <2>1, <2>2, <2>3, SysFacts DEF At
<1>8. "idle" \in Modes
  BY DEF Modes
<1>9. QED
  BY <1>4, <1>5, <1>6, <1>7, <1>8 DEF Whole

\* Nobody stops a turn, ends a session or deletes a conversation.
Undisturbed == Features \cap {"stop", "destroy", "delete"} = {}

LEMMA NextTurn == Undisturbed /\ TurnInv /\ [Next]_vars => TurnInv'
<1> SUFFICES ASSUME Undisturbed, TurnInv, [Next]_vars PROVE TurnInv'
  OBVIOUS
<1>1. CASE Return
  BY <1>1, ReturnTurn
<1>2. CASE FireTimer
  BY <1>2, TimerTurn
<1>3. ASSUME NEW p \in Providers, RequestFinished(p) \/ RequestError(p) PROVE TurnInv'
  <2>1. ProviderReports(p, "finished") \/ ProviderReports(p, "errored")
    BY <1>3 DEF RequestFinished, RequestError
  <2>2. QED
    BY <2>1, ReportsTurn
<1>4. ASSUME NEW c \in Runs, WorkerAnswers(c) PROVE TurnInv'
  BY <1>4, AgentTurn, RecallTurn, BatchTurn, ConfirmTurn, VerdictTurn DEF WorkerAnswers
<1>5. ASSUME NEW c \in Runs, Send(c) \/ Reaction(c) PROVE TurnInv'
  BY <1>5, StartTurn
<1>6. ASSUME NEW c \in Runs, ImageGenerated(c) PROVE TurnInv'
  BY <1>6, ImageTurn
<1>7. ASSUME NEW c \in Runs, TaskStarted(c) PROVE TurnInv'
  BY <1>7, TaskTurn
<1>8. ~PlanStopped /\ \A c \in Runs : ~Stop(c) /\ ~AllPlansStopped(c)
  BY DEF Undisturbed, PlanStopped, Stop, AllPlansStopped
<1>9. \A c \in Runs : ~DestroySession(c) /\ ~DeleteConversation(c)
  BY DEF Undisturbed, DestroySession, DeleteConversation
<1>10. CASE UNCHANGED vars
  <2>1. Sys' = Sys /\ calls' = calls /\ run' = run
    BY <1>10 DEF vars, Sys
  <2>2. QED
    BY <2>1 DEF TurnInv
<1>11. QED
  BY <1>1, <1>2, <1>3, <1>4, <1>5, <1>6, <1>7, <1>8, <1>9, <1>10 DEF Next

---------------------------------------------------------------------------
\* What the modes say of turns that nobody stops

\* A generating run that nobody stops is in one mode, which fixes its members,
\* its queue place and its timer; every counted slot has an owner.
THEOREM TurnsKeepModes ==
  ASSUME Undisturbed
  PROVE  Spec => []TurnInv
  BY InitTurn, NextTurn, PTL DEF Spec

\* provider-scheduler.h:33-36: between two events the slots in flight are exactly
\* those a run holds or a posted grant carries, none lost and none shared, as long
\* as nobody stops a turn, ends a session or deletes a conversation.
THEOREM SlotsAreHeld ==
  ASSUME Undisturbed
  PROVE  Spec => []SlotsMatchHolders
<1>1. TurnInv => SlotsMatchHolders
  <2> SUFFICES ASSUME TurnInv, calls = <<>>, NEW p \in Providers
               PROVE  states[p].inFlight
                        = Cardinality(Holders(p)) + Cardinality(PostedGrants(p))
    BY DEF SlotsMatchHolders, AtRest
  <2>1. Whole(Sys, {})
    BY DEF TurnInv
  <2>2. Apart(Sys, {}, p) /\ Bucket(states[p]) /\ Accounted(Sys, {})
    BY <2>1, SysFacts DEF Whole, Core, Shape
  <2>3. \A c \in Holders(p) : c \in Runs /\ Owns(Sys, {}, c, p)
    BY SysFacts DEF Holders, Owns
  <2>4. \A i \in PostedGrants(p) : i \in DOMAIN Sys.posted /\ IsGrant(Sys.posted[i], p)
    BY SysFacts DEF PostedGrants, IsGrant
  <2>5. /\ \A c, d \in Holders(p) : c = d
        /\ \A i, j \in PostedGrants(p) : i = j
        /\ \A c \in Holders(p), i \in PostedGrants(p) : FALSE
        /\ \A c \in Holders(p) : states[p].inFlight = 1
        /\ \A i \in PostedGrants(p) : states[p].inFlight = 1
    BY <2>2, <2>3, <2>4, SysFacts DEF Apart
  <2>6. states[p].inFlight = 1 => Holders(p) # {} \/ PostedGrants(p) # {}
    BY <2>2, SysFacts DEF Accounted, IsGrant, Holders, PostedGrants
  <2>7. states[p].inFlight \in {0, 1}
    BY <2>2, BucketFacts
  <2>8. Holders(p) = {} \/ PostedGrants(p) = {}
    BY <2>5
  <2>9. /\ Cardinality(Holders(p)) \in {0, 1} /\ Cardinality(PostedGrants(p)) \in {0, 1}
        /\ Cardinality(Holders(p)) = 0 <=> Holders(p) = {}
        /\ Cardinality(PostedGrants(p)) = 0 <=> PostedGrants(p) = {}
    BY <2>5, AtMostOne
  <2>10. Holders(p) # {} \/ PostedGrants(p) # {} => states[p].inFlight = 1
    BY <2>5
  <2>11. QED
    BY <2>6, <2>7, <2>8, <2>9, <2>10
<1>2. QED
  BY <1>1, TurnsKeepModes, PTL

\* A queue place that exists is found.
LEMMA FindsPlace ==
  ASSUME NEW q, IsSeq(q), NEW c, \E i \in DOMAIN q : q[i].waiterId = c
  PROVE  QueueIndex(q, c) # 0
<1>1. QueueIndex(q, c) \in DOMAIN q
  BY DEF QueueIndex
<1>2. QED
  BY <1>1, SeqFacts DEF IsSeq

\* A turn that generates has something under way that will end it, as long as
\* nobody stops a turn, ends a session or deletes a conversation: no event it
\* waits for is lost on the way through queues, timers, workers and providers.
THEOREM TurnsHaveWork ==
  ASSUME Undisturbed
  PROVE  Spec => []SomethingPending
<1>1. TurnInv => SomethingPending
  <2> DEFINE Pending(c) ==
        \/ run[c].relay # None /\ wire[run[c].relay] = c
        \/ run[c].exec # None \/ run[c].batch \/ run[c].query # "none"
        \/ run[c].confirm = run[c].req \/ run[c].verdict # 0
        \/ \E i \in DOMAIN posted : posted[i].c = c
        \/ run[c].waiting # None /\ QueueIndex(states[run[c].waiting].queue, c) # 0
  <2> SUFFICES ASSUME TurnInv, calls = <<>>, NEW c \in Runs, run[c].gen
               PROVE  Pending(c)
    BY DEF SomethingPending, AtRest
  <2>1. Whole(Sys, {}) /\ Shape(Sys) /\ Sys.run[c] = run[c]
    BY ModeFacts
  <2>2. PICK m \in Modes : At(Sys, c, m)
    BY <2>1 DEF Whole
  <2>3. Row(run[c], m) /\ Queued(states, run[c], c, m) /\ Timed(posted, run[c], c, m)
    BY <2>2, SysFacts DEF At
  <2>4. m # "idle"
    BY <2>3 DEF Row
  <2>5. Wired(Sys, c)
    BY <2>1 DEF Whole
  <2>6. CASE m \in {"wired", "agent"}
    <3>1. run[c].held \in Providers
      BY <2>3, <2>6 DEF Row
    <3>2. IF m = "wired" THEN run[c].relay = run[c].held ELSE run[c].exec = run[c].held
      BY <2>3, <2>6 DEF Row
    <3>3. run[c].relay # None => wire[run[c].relay] = c
      BY <2>5, SysFacts DEF Wired
    <3>4. QED
      BY <3>1, <3>2, <3>3, RunsAssumption
  <2>7. CASE m = "waits"
    <3>1. run[c].waiting \in Providers
      BY <2>3, <2>7 DEF Row
    <3>2. \E i \in DOMAIN states[run[c].waiting].queue :
            states[run[c].waiting].queue[i].waiterId = c
      BY <2>3, <2>7 DEF Queued
    <3>3. IsSeq(states[run[c].waiting].queue)
      BY <3>1, <2>1, SysFacts DEF Shape, Bucket
    <3>4. QueueIndex(states[run[c].waiting].queue, c) # 0
      BY <3>2, <3>3, FindsPlace
    <3>5. QED
      BY <3>1, <3>4, RunsAssumption
  <2>8. CASE m \in {"granted", "build"}
    BY <2>3, <2>8 DEF Timed, Wakes
  <2>9. CASE m \in {"batch", "query"}
    BY <2>3, <2>9 DEF Row
  <2>10. CASE m \in {"confirm", "verdict"}
    BY <2>3, <2>10 DEF Row
  <2>11. QED
    BY <2>4, <2>6, <2>7, <2>8, <2>9, <2>10 DEF Modes
<1>2. QED
  BY <1>1, TurnsKeepModes, PTL

\* A late recall dispatches no run that is already wired as long as nobody stops
\* a turn, ends a session or deletes a conversation: replies reach one run, with
\* recalls as without.
THEOREM RecallsKeepRepliesApart ==
  ASSUME Undisturbed
  PROVE  Spec => []NoCrossTalk
<1>1. TurnInv => NoCrossTalk
  <2> SUFFICES ASSUME TurnInv, calls = <<>>, NEW c \in Runs, NEW d \in Runs,
                      run[c].relay = run[d].relay, c # d, run[c].relay # None
               PROVE  FALSE
    BY DEF NoCrossTalk, AtRest
  <2>1. Core(Sys, {})
    BY DEF TurnInv, Whole
  <2>2. run[c].relay \in Providers
    BY <2>1, SysFacts, ShapeFacts DEF Core
  <2>3. Apart(Sys, {}, run[c].relay)
    BY <2>1, <2>2 DEF Core
  <2>4. Owns(Sys, {}, c, run[c].relay) /\ Owns(Sys, {}, d, run[c].relay)
    BY SysFacts DEF Owns
  <2>5. QED
    BY <2>3, <2>4 DEF Apart
<1>2. QED
  BY <1>1, TurnsKeepModes, PTL
=============================================================================
