------------------------ MODULE InferenceSidecarProofs ------------------------
(***************************************************************************)
(* That a request of the inference sidecar ends at most once, that its     *)
(* answer was computed by its own model, and that the IO thread only waits *)
(* for what will come: for every set of models, every number of requests   *)
(* and every limit on spawn failures.                                      *)
(***************************************************************************)
EXTENDS InferenceSidecar, SequenceTheorems, TLAPS

Request == [op : {"stream", "call", "warm"}, slot : Slots, gguf : Models]
Held == Models \cup {NoModel}
Outcomes == [ok : BOOLEAN, finish : {"", "cancelled", "stop"}, model : Held]
Post == [call : {"submit", "cancel"}, id : Nat]
Frame == [op : {"load", "request", "cancel"}, id : Nat]
Reports == [op : {"load_result", "result", "error", "chunk"}, id : Nat, ok : BOOLEAN,
            finish : {"", "cancelled", "stop"}, model : Held]
Written == Reports \cup Noise
Host == [queue : Seq(Nat), current : Nat, sent : BOOLEAN, awaiting : BOOLEAN,
         loaded : [Slots -> Held], failures : Nat, running : BOOLEAN, pump : BOOLEAN]
Child == [alive : BOOLEAN, slot : [Slots -> Held], inbox : Seq(Frame), outbox : Seq(Written),
          stream : Nat, said : BOOLEAN]

---------------------------------------------------------------------------
\* The parts of the invariant

\* A request is posted, queued, current or ended: one of them, and once.
Lane(E, q, cur, P) ==
  /\ E \in [Made -> Seq(Outcomes)] /\ \A r \in Made : Len(E[r]) \in {0, 1}
  /\ cur \in Made \cup {0} /\ q \in Seq(Made) /\ P \in Seq(Post)
  /\ cur # 0 => Len(E[cur]) = 0
  /\ \A i \in 1..Len(q) : Len(E[q[i]]) = 0 /\ q[i] # cur
  /\ \A i, j \in 1..Len(q) : q[i] = q[j] => i = j
  /\ \A i \in 1..Len(P) : P[i].call = "submit" =>
       /\ P[i].id \in Made /\ Len(E[P[i].id]) = 0 /\ P[i].id # cur
       /\ \A j \in 1..Len(q) : q[j] # P[i].id
       /\ \A j \in 1..Len(P) : P[j].call = "submit" /\ P[j].id = P[i].id => i = j

\* What a request may be told.
Honest(r, out) ==
  out.ok /\ reqs[r].op # "warm" /\ out.finish # "cancelled" => out.model = reqs[r].gguf

Told(E) == \A r \in Made : \A i \in 1..Len(E[r]) : Honest(r, E[r][i])

InQuiet(c) == \A i \in 1..Len(c.inbox) : c.inbox[i].op = "cancel"
OutQuiet(c) == \A i \in 1..Len(c.outbox) : c.outbox[i].op \in {"unreadable", "malformed"}
OutPieces(c) == \A i \in 1..Len(c.outbox) : c.outbox[i].op \in {"unreadable", "malformed", "chunk"}

\* The child holds in each slot what the host believes, or nothing.
Settled(ld, c) == \A s \in Slots : c.slot[s] \in {ld[s], NoModel}

\* One frame other than a cancel is on its way to the child.
Asked(c, op, id) ==
  /\ c.alive /\ c.stream = 0 /\ OutQuiet(c)
  /\ \E i \in 1..Len(c.inbox) :
       /\ c.inbox[i].op = op /\ c.inbox[i].id = id
       /\ \A j \in 1..Len(c.inbox) : j # i => c.inbox[j].op = "cancel"

\* Nothing is on its way.
Idle(ld, c) == InQuiet(c) /\ OutQuiet(c) /\ c.stream = 0 /\ Settled(ld, c)

\* The answer to a load is on its way, and the slot is as it says.
LoadTold(r, ld, c) ==
  /\ InQuiet(c) /\ c.stream = 0
  /\ \A s \in Slots \ {reqs[r].slot} : c.slot[s] \in {ld[s], NoModel}
  /\ \E i \in 1..Len(c.outbox) :
       /\ c.outbox[i].op \in {"load_result", "error"}
       /\ c.slot[reqs[r].slot] \in IF c.outbox[i].ok THEN {reqs[r].gguf}
                                   ELSE {ld[reqs[r].slot], NoModel}
       /\ \A j \in 1..Len(c.outbox) : j # i => c.outbox[j].op \in {"unreadable", "malformed"}

\* Request r waits for its model.
Loading(r, ld, c) == \/ Asked(c, "load", r) /\ Settled(ld, c)
                     \/ LoadTold(r, ld, c)
                     \/ ~c.alive /\ OutQuiet(c)

Streaming(r, c) == /\ c.alive /\ InQuiet(c) /\ OutPieces(c) /\ c.stream = r
                   /\ reqs[r].op = "stream" /\ c.slot["chat"] = reqs[r].gguf

\* The answer of r is on its way, after the pieces of its text.
Answered(r, c) ==
  /\ InQuiet(c) /\ c.stream = 0
  /\ \E i \in 1..Len(c.outbox) :
       /\ c.outbox[i].op \in {"result", "error"} /\ c.outbox[i].id = r
       /\ Honest(r, c.outbox[i])
       /\ \A j \in 1..Len(c.outbox) :
            j # i => c.outbox[j].op \in {"unreadable", "malformed", "chunk"}
       /\ \A j \in 1..Len(c.outbox) : j > i => c.outbox[j].op \in {"unreadable", "malformed"}

\* Request r waits for its answer, with its model loaded.
Serving(r, ld, c) ==
  /\ reqs[r].gguf = ld[reqs[r].slot]
  /\ \/ Settled(ld, c) /\ (Asked(c, "request", r) \/ Streaming(r, c) \/ Answered(r, c))
     \/ ~c.alive /\ OutPieces(c)

\* What the host knows of the child.
Wire(cur, aw, sent, run, ld, c) ==
  /\ ~c.alive => Len(c.inbox) = 0 /\ c.stream = 0
  /\ ~run => c = NoChild
  /\ cur = 0 => Idle(ld, c)
  /\ cur # 0 => /\ run /\ (aw \/ sent)
                /\ IF aw THEN Loading(cur, ld, c) ELSE Serving(cur, ld, c)

\* The state an IO-thread handler works on.
Shape(S) == S \in [ended : {S.ended}, caller : {S.caller}, host : Host, child : Child,
                   toMain : {S.toMain}]

WireOf(S) == Wire(S.host.current, S.host.awaiting, S.host.sent, S.host.running, S.host.loaded,
                  S.child)

Sound(S, P) == /\ Shape(S) /\ Lane(S.ended, S.host.queue, S.host.current, P) /\ Told(S.ended)
               /\ WireOf(S) /\ (S.host.current = 0 => ~S.host.awaiting)

Requests == /\ reqs \in Seq(Request)
            /\ \A r \in Made : reqs[r].op = "stream" => reqs[r].slot = "chat"

IInv == /\ Requests /\ active \in Nat
        /\ Lane(ended, host.queue, host.current, posts) /\ Told(ended)
        /\ host \in Host /\ child \in Child
        /\ Wire(host.current, host.awaiting, host.sent, host.running, host.loaded, child)
        /\ ~shut => (host.current = 0 => ~host.awaiting)
        /\ shut => ~host.running /\ ~host.pump /\ host.current = 0

---------------------------------------------------------------------------
\* Sequences

LEMMA Appended ==
  ASSUME NEW T, NEW s \in Seq(T), NEW e \in T
  PROVE  /\ Len(s) \in Nat /\ Append(s, e) \in Seq(T) /\ Len(Append(s, e)) = Len(s) + 1
         /\ \A i \in 1..Len(s) : Append(s, e)[i] = s[i]
         /\ Append(s, e)[Len(s) + 1] = e
  BY AppendProperties, LenProperties

LEMMA Tailed ==
  ASSUME NEW T, NEW s \in Seq(T), s # <<>>
  PROVE  /\ Len(s) \in Nat \ {0} /\ Head(s) = s[1] /\ Head(s) \in T
         /\ Tail(s) \in Seq(T) /\ Len(Tail(s)) = Len(s) - 1
         /\ \A i \in 1..(Len(s) - 1) : Tail(s)[i] = s[i + 1]
  BY HeadTailProperties, LenProperties, EmptySeq

\* Taking one element out keeps the others, in their order.
LEMMA Took ==
  ASSUME NEW T, NEW q \in Seq(T), NEW r, NEW k \in 1..Len(q), q[k] = r,
         \A i, j \in 1..Len(q) : q[i] = q[j] => i = j
  PROVE  /\ Without(q, r) \in Seq(T) /\ Len(Without(q, r)) = Len(q) - 1 /\ Len(q) \in Nat
         /\ \A i \in 1..(Len(q) - 1) : Without(q, r)[i] = IF i < k THEN q[i] ELSE q[i + 1]
<1> DEFINE a == SubSeq(q, 1, k - 1)
           b == SubSeq(q, k + 1, Len(q))
<1>1. /\ Len(q) \in Nat /\ DOMAIN q = 1..Len(q) /\ \A i \in 1..Len(q) : q[i] \in T
  BY LenProperties, ElementOfSeq
<1>2. (CHOOSE i \in DOMAIN q : q[i] = r) = k
  BY <1>1
<1>3. Without(q, r) = a \o b
  BY <1>2 DEF Without, RemoveAt
<1>4. a \in Seq(T) /\ Len(a) = k - 1 /\ \A i \in 1..(k - 1) : a[i] = q[i]
  <2>1. \A i \in 1..(k - 1) : q[i] \in T
    BY <1>1
  <2>2. /\ a \in Seq(T) /\ Len(a) = IF 1 <= k - 1 THEN k - 1 - 1 + 1 ELSE 0
        /\ \A i \in 1..(k - 1 - 1 + 1) : a[i] = q[1 + i - 1]
    BY <2>1, SubSeqProperties
  <2> HIDE DEF a
  <2>3. QED
    BY <1>1, <2>2
<1>5. b \in Seq(T) /\ Len(b) = Len(q) - k /\ \A i \in 1..(Len(q) - k) : b[i] = q[k + i]
  <2>1. \A i \in (k + 1)..Len(q) : q[i] \in T
    BY <1>1
  <2>2. /\ b \in Seq(T) /\ Len(b) = IF k + 1 <= Len(q) THEN Len(q) - (k + 1) + 1 ELSE 0
        /\ \A i \in 1..(Len(q) - (k + 1) + 1) : b[i] = q[(k + 1) + i - 1]
    BY <1>1, <2>1, SubSeqProperties
  <2> HIDE DEF b
  <2>3. Len(b) = Len(q) - k
    <3>1. Len(b) = IF k + 1 <= Len(q) THEN Len(q) - (k + 1) + 1 ELSE 0
      BY <2>2
    <3>2. k \in Nat /\ k <= Len(q) /\ Len(q) \in Nat
      BY <1>1
    <3>3. QED
      BY <3>1, <3>2
  <2>4. ASSUME NEW i \in 1..(Len(q) - k) PROVE b[i] = q[k + i]
    <3>1. i \in 1..(Len(q) - (k + 1) + 1) /\ (k + 1) + i - 1 = k + i
      BY <1>1
    <3>2. QED
      BY <2>2, <3>1
  <2>5. QED
    BY <2>2, <2>3, <2>4
<1> HIDE DEF a, b
<1>6. /\ a \o b \in Seq(T) /\ Len(a \o b) = Len(a) + Len(b)
      /\ \A i \in 1..(Len(a) + Len(b)) : (a \o b)[i] = IF i <= Len(a) THEN a[i] ELSE b[i - Len(a)]
  <2>1. a \in Seq(T) /\ b \in Seq(T)
    BY <1>4, <1>5
  <2>2. QED
    BY <2>1, ConcatProperties
<1>7. ASSUME NEW i \in 1..(Len(q) - 1)
      PROVE  (a \o b)[i] = IF i < k THEN q[i] ELSE q[i + 1]
  <2>1. i \in 1..(Len(a) + Len(b))
    BY <1>1, <1>4, <1>5
  <2>2. CASE i < k
    BY <1>1, <1>4, <1>6, <2>1, <2>2
  <2>3. CASE ~(i < k)
    <3>1. i - (k - 1) \in 1..(Len(q) - k) /\ k + (i - (k - 1)) = i + 1
      BY <1>1, <2>3
    <3>2. b[i - (k - 1)] = q[i + 1]
      BY <1>5, <3>1
    <3>3. ~(i <= Len(a))
      BY <1>1, <1>4, <2>3
    <3>4. QED
      BY <1>4, <1>6, <2>1, <2>3, <3>2, <3>3
  <2>4. QED
    BY <2>2, <2>3
<1>8. QED
  BY <1>1, <1>3, <1>4, <1>5, <1>6, <1>7

---------------------------------------------------------------------------
\* The lane

LEMMA MadeFacts == ASSUME Requests PROVE Made = 1..Len(reqs) /\ Len(reqs) \in Nat
  BY LenProperties DEF Requests, Made

\* One more outcome for request r.
More(E, r, out) == [E EXCEPT ![r] = Append(E[r], out)]

\* The first waiting request becomes the current one.
LEMMA LaneTake ==
  ASSUME NEW E, NEW q, NEW P, Lane(E, q, 0, P), q # <<>>
  PROVE  Lane(E, Tail(q), Head(q), P) /\ Head(q) \in Made
<1>1. /\ q \in Seq(Made) /\ \A i \in 1..Len(q) : Len(E[q[i]]) = 0
      /\ \A i, j \in 1..Len(q) : q[i] = q[j] => i = j
  BY DEF Lane
<1>2. /\ Len(q) \in Nat \ {0} /\ Head(q) = q[1] /\ Head(q) \in Made
      /\ Tail(q) \in Seq(Made) /\ Len(Tail(q)) = Len(q) - 1
      /\ \A i \in 1..(Len(q) - 1) : Tail(q)[i] = q[i + 1]
  BY <1>1, Tailed
<1> DEFINE t == Tail(q)
           h == Head(q)
<1> HIDE DEF t, h
<1>3. /\ \A i \in 1..Len(t) : i + 1 \in 1..Len(q) /\ t[i] = q[i + 1] /\ i + 1 # 1
      /\ 1 \in 1..Len(q) /\ h = q[1] /\ h \in Made /\ t \in Seq(Made)
  BY <1>2 DEF t, h
<1>4. \A i, j \in 1..Len(t) : t[i] = t[j] => i = j
  <2> SUFFICES ASSUME NEW i \in 1..Len(t), NEW j \in 1..Len(t), t[i] = t[j] PROVE i = j
    OBVIOUS
  <2>1. i + 1 = j + 1
    BY <1>1, <1>3
  <2>2. QED
    BY <2>1
<1>5. \A i \in 1..Len(t) : Len(E[t[i]]) = 0 /\ t[i] # h
  BY <1>1, <1>3
<1>6. Lane(E, t, h, P)
  BY <1>1, <1>3, <1>4, <1>5 DEF Lane
<1>7. QED
  BY <1>3, <1>6 DEF t, h

\* The current request ends.
LEMMA LaneEnd ==
  ASSUME Requests, NEW E, NEW q, NEW cur, NEW P, Lane(E, q, cur, P), cur # 0, NEW out \in Outcomes
  PROVE  Lane(More(E, cur, out), q, 0, P)
<1> DEFINE F == More(E, cur, out)
<1>1. /\ E \in [Made -> Seq(Outcomes)] /\ cur \in Made /\ Len(E[cur]) = 0 /\ 0 \notin Made
  BY MadeFacts DEF Lane
<1>2. Append(E[cur], out) \in Seq(Outcomes) /\ Len(Append(E[cur], out)) = 1
  BY <1>1, Appended
<1>3. /\ F \in [Made -> Seq(Outcomes)] /\ Len(F[cur]) = 1 /\ \A r \in Made \ {cur} : F[r] = E[r]
  BY <1>1, <1>2 DEF More
<1> HIDE DEF F
<1>4. \A i \in 1..Len(q) : q[i] \in Made
  BY ElementOfSeq DEF Lane
<1>5. ASSUME NEW i \in 1..Len(P), P[i].call = "submit"
      PROVE  /\ P[i].id \in Made /\ Len(F[P[i].id]) = 0 /\ P[i].id # 0
             /\ \A j \in 1..Len(q) : q[j] # P[i].id
             /\ \A j \in 1..Len(P) : P[j].call = "submit" /\ P[j].id = P[i].id => i = j
  <2>1. /\ P[i].id \in Made /\ Len(E[P[i].id]) = 0 /\ P[i].id # cur
        /\ \A j \in 1..Len(q) : q[j] # P[i].id
        /\ \A j \in 1..Len(P) : P[j].call = "submit" /\ P[j].id = P[i].id => i = j
    BY <1>5 DEF Lane
  <2>2. QED
    BY <1>1, <1>3, <2>1
<1>6. /\ \A r \in Made : Len(F[r]) \in {0, 1}
      /\ q \in Seq(Made) /\ P \in Seq(Post)
      /\ \A i \in 1..Len(q) : Len(F[q[i]]) = 0 /\ q[i] # 0
      /\ \A i, j \in 1..Len(q) : q[i] = q[j] => i = j
  BY <1>1, <1>3, <1>4 DEF Lane
<1>7. Lane(F, q, 0, P)
  BY <1>3, <1>5, <1>6 DEF Lane
<1>8. QED
  BY <1>7 DEF F

\* Everything that waits ends.
LEMMA LaneFail ==
  ASSUME Requests, NEW E, NEW q, NEW P, Lane(E, q, 0, P), NEW out \in Outcomes
  PROVE  Lane([r \in DOMAIN E |-> IF r \in ToSet(q) THEN Append(E[r], out) ELSE E[r]], <<>>, 0, P)
<1> DEFINE F == [r \in DOMAIN E |-> IF r \in ToSet(q) THEN Append(E[r], out) ELSE E[r]]
<1>1. /\ E \in [Made -> Seq(Outcomes)] /\ q \in Seq(Made) /\ \A r \in Made : Len(E[r]) \in {0, 1}
      /\ \A i \in 1..Len(q) : Len(E[q[i]]) = 0 /\ q[i] \in Made
  BY ElementOfSeq DEF Lane
<1>2. ASSUME NEW r \in Made
      PROVE  /\ F[r] \in Seq(Outcomes) /\ Len(F[r]) \in {0, 1}
             /\ r \notin ToSet(q) => F[r] = E[r]
  <2>1. CASE r \notin ToSet(q)
    BY <1>1, <2>1
  <2>2. CASE r \in ToSet(q)
    <3>1. E[r] \in Seq(Outcomes) /\ Len(E[r]) = 0
      BY <1>1, <2>2, LenProperties DEF ToSet
    <3>2. F[r] = Append(E[r], out)
      BY <1>1, <2>2
    <3>3. Append(E[r], out) \in Seq(Outcomes) /\ Len(Append(E[r], out)) = 1
      BY <3>1, Appended
    <3> HIDE DEF F
    <3>4. QED
      BY <2>2, <3>2, <3>3
  <2>3. QED
    BY <2>1, <2>2
<1>3. F \in [Made -> Seq(Outcomes)]
  BY <1>1, <1>2
<1> HIDE DEF F
<1> DEFINE e == <<>>
<1>4. e \in Seq(Made) /\ Len(e) = 0
  BY EmptySeq
<1> HIDE DEF e
<1>5. \A i \in 1..Len(P) : P[i].call = "submit" => P[i].id \notin ToSet(q)
  <2>1. DOMAIN q = 1..Len(q)
    BY <1>1, LenProperties
  <2>2. \A i \in 1..Len(P) : P[i].call = "submit" => \A j \in 1..Len(q) : q[j] # P[i].id
    BY DEF Lane
  <2>3. QED
    BY <2>1, <2>2 DEF ToSet
<1>6. P \in Seq(Post) /\ 0 \in Made \cup {0}
  BY DEF Lane
<1>7. \A i \in 1..Len(P) : P[i].call = "submit" =>
        /\ P[i].id \in Made /\ Len(F[P[i].id]) = 0 /\ P[i].id # 0
        /\ \A j \in 1..Len(P) : P[j].call = "submit" /\ P[j].id = P[i].id => i = j
  BY <1>2, <1>5 DEF Lane
<1>8. Lane(F, e, 0, P)
  BY <1>2, <1>3, <1>4, <1>6, <1>7 DEF Lane
<1>9. QED
  BY <1>8 DEF F, e

\* A posted call leaves the event queue.
LEMMA PostsTail ==
  ASSUME NEW P \in Seq(Post), P # <<>>
  PROVE  /\ Tail(P) \in Seq(Post) /\ Len(Tail(P)) \in Nat /\ Head(P) \in Post
         /\ 1 \in 1..Len(P) /\ Head(P) = P[1]
         /\ \A i \in 1..Len(Tail(P)) : i + 1 \in 1..Len(P) /\ Tail(P)[i] = P[i + 1] /\ i + 1 # 1
         /\ \A i, j \in 1..Len(Tail(P)) : i + 1 = j + 1 => i = j
<1>1. /\ Len(P) \in Nat \ {0} /\ Head(P) = P[1] /\ Head(P) \in Post
      /\ Tail(P) \in Seq(Post) /\ Len(Tail(P)) = Len(P) - 1
      /\ \A i \in 1..(Len(P) - 1) : Tail(P)[i] = P[i + 1]
  BY Tailed
<1>2. QED
  BY <1>1

\* A call other than a submit is taken.
LEMMA LaneHandled ==
  ASSUME NEW E, NEW q, NEW cur, NEW P, Lane(E, q, cur, P), P # <<>>
  PROVE  Lane(E, q, cur, Tail(P))
<1> DEFINE t == Tail(P)
<1>1. P \in Seq(Post)
  BY DEF Lane
<1>2. /\ t \in Seq(Post)
      /\ \A i \in 1..Len(t) : i + 1 \in 1..Len(P) /\ t[i] = P[i + 1] /\ i + 1 # 1
      /\ \A i, j \in 1..Len(t) : i + 1 = j + 1 => i = j
  BY <1>1, PostsTail
<1> HIDE DEF t
<1>3. ASSUME NEW i \in 1..Len(t), t[i].call = "submit"
      PROVE  /\ t[i].id \in Made /\ Len(E[t[i].id]) = 0 /\ t[i].id # cur
             /\ \A j \in 1..Len(q) : q[j] # t[i].id
             /\ \A j \in 1..Len(t) : t[j].call = "submit" /\ t[j].id = t[i].id => i = j
  <2>1. i + 1 \in 1..Len(P) /\ t[i] = P[i + 1]
    BY <1>2
  <2>2. \A j \in 1..Len(P) : P[j].call = "submit" /\ P[j].id = P[i + 1].id => i + 1 = j
    BY <1>3, <2>1 DEF Lane
  <2>3. /\ t[i].id \in Made /\ Len(E[t[i].id]) = 0 /\ t[i].id # cur
        /\ \A j \in 1..Len(q) : q[j] # t[i].id
    BY <1>3, <2>1 DEF Lane
  <2>4. ASSUME NEW j \in 1..Len(t), t[j].call = "submit", t[j].id = t[i].id PROVE i = j
    <3>1. j + 1 \in 1..Len(P) /\ t[j] = P[j + 1]
      BY <1>2
    <3>2. i + 1 = j + 1
      BY <2>1, <2>2, <2>4, <3>1
    <3>3. QED
      BY <1>2, <3>2
  <2>5. QED
    BY <2>3, <2>4
<1>4. Lane(E, q, cur, t)
  BY <1>2, <1>3 DEF Lane
<1>5. QED
  BY <1>4 DEF t

\* A submit is taken: its request waits in the queue.
LEMMA LaneSubmit ==
  ASSUME NEW E, NEW q, NEW cur, NEW P, Lane(E, q, cur, P), P # <<>>, Head(P).call = "submit"
  PROVE  Lane(E, Append(q, Head(P).id), cur, Tail(P)) /\ Head(P).id \in Made
<1> DEFINE r == Head(P).id
           t == Tail(P)
           a == Append(q, r)
<1>1. P \in Seq(Post) /\ q \in Seq(Made)
  BY DEF Lane
<1>2. /\ 1 \in 1..Len(P) /\ Head(P) = P[1] /\ Len(t) \in Nat
      /\ \A i \in 1..Len(t) : i + 1 \in 1..Len(P) /\ t[i] = P[i + 1] /\ i + 1 # 1
  BY <1>1, PostsTail
<1>3. /\ r \in Made /\ Len(E[r]) = 0 /\ r # cur /\ \A j \in 1..Len(q) : q[j] # r
      /\ \A j \in 1..Len(P) : P[j].call = "submit" /\ P[j].id = r => j = 1
  BY <1>2 DEF Lane
<1>4. Lane(E, q, cur, t)
  BY LaneHandled
<1> HIDE DEF r, t
<1>5. /\ Len(q) \in Nat /\ a \in Seq(Made) /\ Len(a) = Len(q) + 1
      /\ \A i \in 1..Len(q) : a[i] = q[i]
      /\ a[Len(q) + 1] = r
  BY <1>1, <1>3, Appended
<1> HIDE DEF a
<1>6. \A i \in 1..Len(a) : (i \in 1..Len(q) /\ a[i] = q[i]) \/ (i = Len(q) + 1 /\ a[i] = r)
  BY <1>5
<1>7. \A i \in 1..Len(t) : t[i].call = "submit" => t[i].id # r
  BY <1>2, <1>3
<1>8. /\ \A i \in 1..Len(a) : Len(E[a[i]]) = 0 /\ a[i] # cur
      /\ \A i, j \in 1..Len(a) : a[i] = a[j] => i = j
  <2>1. /\ \A i \in 1..Len(q) : Len(E[q[i]]) = 0 /\ q[i] # cur
        /\ \A i, j \in 1..Len(q) : q[i] = q[j] => i = j
    BY <1>4 DEF Lane
  <2>2. \A i \in 1..Len(a) : Len(E[a[i]]) = 0 /\ a[i] # cur
    BY <1>3, <1>6, <2>1
  <2>3. ASSUME NEW i \in 1..Len(a), NEW j \in 1..Len(a), a[i] = a[j] PROVE i = j
    BY <1>3, <1>6, <2>1, <2>3
  <2>4. QED
    BY <2>2, <2>3
<1>9. \A i \in 1..Len(t) : t[i].call = "submit" => \A j \in 1..Len(a) : a[j] # t[i].id
  BY <1>4, <1>6, <1>7 DEF Lane
<1>10. Lane(E, a, cur, t)
  BY <1>4, <1>5, <1>8, <1>9 DEF Lane
<1>11. QED
  BY <1>3, <1>10 DEF r, t, a

\* A waiting request is taken out of the queue and ends.
LEMMA LaneCancel ==
  ASSUME NEW E, NEW q, NEW cur, NEW P, Lane(E, q, cur, P), NEW r \in ToSet(q),
         NEW out \in Outcomes
  PROVE  Lane(More(E, r, out), Without(q, r), cur, P) /\ r \in Made
<1> DEFINE F == More(E, r, out)
           w == Without(q, r)
<1>1. /\ q \in Seq(Made) /\ E \in [Made -> Seq(Outcomes)]
      /\ \A i, j \in 1..Len(q) : q[i] = q[j] => i = j
      /\ \A i \in 1..Len(q) : Len(E[q[i]]) = 0 /\ q[i] # cur
  BY DEF Lane
<1>2. PICK k \in 1..Len(q) : q[k] = r
  BY <1>1, LenProperties DEF ToSet
<1>3. r \in Made /\ Len(E[r]) = 0 /\ r # cur
  BY <1>1, <1>2, ElementOfSeq
<1>4. /\ w \in Seq(Made) /\ Len(w) = Len(q) - 1 /\ Len(q) \in Nat
      /\ \A i \in 1..(Len(q) - 1) : w[i] = IF i < k THEN q[i] ELSE q[i + 1]
  <2>1. q \in Seq(Made) /\ \A i, j \in 1..Len(q) : q[i] = q[j] => i = j
    BY <1>1
  <2>2. QED
    BY <1>2, <2>1, Took
<1>5. Append(E[r], out) \in Seq(Outcomes) /\ Len(Append(E[r], out)) = 1
  BY <1>1, <1>3, Appended
<1>6. /\ F \in [Made -> Seq(Outcomes)] /\ Len(F[r]) = 1 /\ \A x \in Made \ {r} : F[x] = E[x]
  BY <1>1, <1>3, <1>5 DEF More
<1> HIDE DEF F, w
<1> DEFINE at(i) == IF i < k THEN i ELSE i + 1
<1>7. \A i \in 1..Len(w) : at(i) \in 1..Len(q) /\ at(i) # k /\ w[i] = q[at(i)]
  BY <1>4
<1>8. \A i, j \in 1..Len(w) : at(i) = at(j) => i = j
  BY <1>4
<1> HIDE DEF at
<1>9. \A i, j \in 1..Len(w) : w[i] = w[j] => i = j
  BY <1>1, <1>7, <1>8
<1>10. \A i \in 1..Len(w) : w[i] # r /\ w[i] \in Made
  <2>1. \A i \in 1..Len(w) : w[i] \in Made
    BY <1>4, ElementOfSeq
  <2>2. \A i \in 1..Len(w) : w[i] # r
    BY <1>1, <1>2, <1>7
  <2>3. QED
    BY <2>1, <2>2
<1>11. \A i \in 1..Len(w) : Len(F[w[i]]) = 0 /\ w[i] # cur
  <2> SUFFICES ASSUME NEW i \in 1..Len(w) PROVE Len(F[w[i]]) = 0 /\ w[i] # cur
    OBVIOUS
  <2>1. F[w[i]] = E[w[i]] /\ w[i] = q[at(i)] /\ at(i) \in 1..Len(q)
    BY <1>6, <1>7, <1>10
  <2>2. QED
    BY <1>1, <2>1
<1>12. \A i \in 1..Len(P) : P[i].call = "submit" =>
         /\ P[i].id \in Made /\ Len(F[P[i].id]) = 0 /\ P[i].id # cur
         /\ \A j \in 1..Len(w) : w[j] # P[i].id
         /\ \A j \in 1..Len(P) : P[j].call = "submit" /\ P[j].id = P[i].id => i = j
  <2> SUFFICES ASSUME NEW i \in 1..Len(P), P[i].call = "submit"
               PROVE  /\ P[i].id \in Made /\ Len(F[P[i].id]) = 0 /\ P[i].id # cur
                      /\ \A j \in 1..Len(w) : w[j] # P[i].id
                      /\ \A j \in 1..Len(P) : P[j].call = "submit" /\ P[j].id = P[i].id => i = j
    OBVIOUS
  <2>1. /\ P[i].id \in Made /\ Len(E[P[i].id]) = 0 /\ P[i].id # cur
        /\ \A j \in 1..Len(q) : q[j] # P[i].id
        /\ \A j \in 1..Len(P) : P[j].call = "submit" /\ P[j].id = P[i].id => i = j
    BY DEF Lane
  <2>2. P[i].id # r
    BY <1>2, <2>1
  <2>3. QED
    BY <1>6, <1>7, <2>1, <2>2
<1>13. \A x \in Made : Len(F[x]) \in {0, 1}
  BY <1>6 DEF Lane
<1>14. Lane(F, w, cur, P)
  BY <1>3, <1>4, <1>6, <1>9, <1>11, <1>12, <1>13 DEF Lane
<1>15. QED
  BY <1>3, <1>14 DEF F, w

\* A cancel is posted.
LEMMA LanePost ==
  ASSUME NEW E, NEW q, NEW cur, NEW P, Lane(E, q, cur, P), NEW r \in Nat
  PROVE  Lane(E, q, cur, Append(P, [call |-> "cancel", id |-> r]))
<1> DEFINE e == [call |-> "cancel", id |-> r]
           a == Append(P, e)
<1>1. P \in Seq(Post) /\ e \in Post /\ e.call = "cancel"
  BY DEF Lane, Post
<1> HIDE DEF e
<1>2. /\ Len(P) \in Nat /\ a \in Seq(Post) /\ Len(a) = Len(P) + 1
      /\ \A i \in 1..Len(P) : a[i] = P[i]
      /\ a[Len(P) + 1] = e
  BY <1>1, Appended
<1> HIDE DEF a
<1>3. \A i \in 1..Len(a) : a[i].call = "submit" => i \in 1..Len(P) /\ a[i] = P[i]
  BY <1>1, <1>2
<1>4. Lane(E, q, cur, a)
  BY <1>2, <1>3 DEF Lane
<1>5. QED
  BY <1>4 DEF a, e

\* A request is made and its submit is posted behind P.
LEMMA LaneNew ==
  ASSUME Requests, NEW op \in {"stream", "call", "warm"}, NEW slot \in Slots, NEW gguf \in Models,
         op = "stream" => slot = "chat", NewRequest(op, slot, gguf),
         NEW P, Lane(ended, host.queue, host.current, P), posts' = Append(P, Submit),
         UNCHANGED host
  PROVE  /\ Requests' /\ Lane(ended, host.queue, host.current, posts)'
         /\ Made' = Made \cup {Len(reqs) + 1} /\ Len(reqs) \in Nat
         /\ \A r \in Made : reqs'[r] = reqs[r] /\ ended'[r] = ended[r]
         /\ Len(ended'[Len(reqs) + 1]) = 0
<1> DEFINE n == Len(reqs) + 1
           x == [op |-> op, slot |-> slot, gguf |-> gguf]
           q == host.queue
           cur == host.current
<1>1. /\ reqs \in Seq(Request) /\ Made = 1..Len(reqs) /\ Len(reqs) \in Nat /\ x \in Request
  BY MadeFacts DEF Requests, Request
<1>2. /\ reqs' \in Seq(Request) /\ Len(reqs') = n /\ \A r \in 1..Len(reqs) : reqs'[r] = reqs[r]
      /\ reqs'[n] = x
  <2>1. reqs' = Append(reqs, x)
    BY DEF NewRequest
  <2> HIDE DEF x
  <2>2. QED
    BY <1>1, <2>1, Appended
<1>3. Made' = Made \cup {n} /\ n \notin Made /\ n # 0 /\ Made' = 1..n
  <2>1. Made' = 1..n
    BY <1>2, LenProperties DEF Made
  <2>2. QED
    BY <1>1, <2>1
<1>4. Requests'
  <2>1. x.op = "stream" => x.slot = "chat"
    OBVIOUS
  <2>2. QED
    BY <1>1, <1>2, <1>3, <2>1 DEF Requests
<1>5. /\ ended \in Seq(Seq(Outcomes)) /\ Len(ended) = Len(reqs) /\ <<>> \in Seq(Outcomes)
  <2>1. ended \in [1..Len(reqs) -> Seq(Outcomes)]
    BY <1>1 DEF Lane
  <2>2. ended \in Seq(Seq(Outcomes)) /\ Len(ended) = Len(reqs)
    BY <1>1, <2>1, IsASeq, LenProperties
  <2>3. QED
    BY <2>2, EmptySeq
<1> DEFINE none == <<>>
<1>6. none \in Seq(Outcomes) /\ Len(none) = 0 /\ ended' = Append(ended, none)
  BY <1>5, EmptySeq DEF NewRequest
<1> HIDE DEF none
<1>7. /\ ended' \in Seq(Seq(Outcomes)) /\ Len(ended') = n
      /\ \A r \in 1..Len(reqs) : ended'[r] = ended[r]
      /\ ended'[n] = none
  BY <1>5, <1>6, Appended
<1>8. /\ ended' \in [Made' -> Seq(Outcomes)] /\ \A r \in Made : ended'[r] = ended[r]
      /\ Len(ended'[n]) = 0
  <2>1. ended' \in [1..Len(ended') -> Seq(Outcomes)]
    BY <1>7, LenProperties
  <2>2. ended' \in [Made' -> Seq(Outcomes)]
    BY <1>3, <1>7, <2>1
  <2>3. QED
    BY <1>1, <1>6, <1>7, <2>2
<1>9. \A r \in Made : reqs'[r] = reqs[r]
  BY <1>1, <1>2
<1> DEFINE e == [call |-> "submit", id |-> n]
<1>10. e \in Post /\ e.call = "submit" /\ e.id = n /\ posts' = Append(P, e)
  BY <1>1 DEF Post, Submit
<1> HIDE DEF e, n, x
<1>11. /\ P \in Seq(Post) /\ q \in Seq(Made) /\ cur \in Made \cup {0}
       /\ \A i \in 1..Len(P) : P[i].call = "submit" => P[i].id \in Made
       /\ \A i \in 1..Len(q) : q[i] \in Made
  BY ElementOfSeq DEF Lane
<1>12. /\ Len(P) \in Nat /\ posts' \in Seq(Post) /\ Len(posts') = Len(P) + 1
       /\ \A i \in 1..Len(P) : posts'[i] = P[i]
       /\ posts'[Len(P) + 1] = e
  BY <1>10, <1>11, Appended
<1>13. \A i \in 1..Len(posts') : \/ i \in 1..Len(P) /\ posts'[i] = P[i]
                                 \/ i = Len(P) + 1 /\ posts'[i] = e
  BY <1>12
<1>14. q \in Seq(Made') /\ cur \in Made' \cup {0}
  <2>1. Made \subseteq Made'
    BY <1>3
  <2>2. QED
    BY <1>11, <2>1, IsASeq, LenProperties
<1>15. /\ \A r \in Made' : Len(ended'[r]) \in {0, 1}
       /\ cur # 0 => Len(ended'[cur]) = 0
       /\ \A i \in 1..Len(q) : Len(ended'[q[i]]) = 0 /\ q[i] # cur
       /\ \A i, j \in 1..Len(q) : q[i] = q[j] => i = j
  BY <1>3, <1>8, <1>11 DEF Lane
<1>16. ASSUME NEW i \in 1..Len(posts'), posts'[i].call = "submit"
       PROVE  /\ posts'[i].id \in Made' /\ Len(ended'[posts'[i].id]) = 0 /\ posts'[i].id # cur
              /\ \A j \in 1..Len(q) : q[j] # posts'[i].id
              /\ \A j \in 1..Len(posts') :
                   posts'[j].call = "submit" /\ posts'[j].id = posts'[i].id => i = j
  <2>1. CASE i \in 1..Len(P) /\ posts'[i] = P[i]
    <3>1. /\ P[i].id \in Made /\ Len(ended[P[i].id]) = 0 /\ P[i].id # cur /\ P[i].id # n
          /\ \A j \in 1..Len(q) : q[j] # P[i].id
          /\ \A j \in 1..Len(P) : P[j].call = "submit" /\ P[j].id = P[i].id => i = j
      BY <1>3, <1>16, <2>1 DEF Lane
    <3>2. \A j \in 1..Len(posts') :
            posts'[j].call = "submit" /\ posts'[j].id = posts'[i].id => i = j
      BY <1>10, <1>13, <2>1, <3>1
    <3>3. QED
      BY <1>3, <1>8, <2>1, <3>1, <3>2
  <2>2. CASE i = Len(P) + 1 /\ posts'[i] = e
    <3>1. \A j \in 1..Len(posts') :
            posts'[j].call = "submit" /\ posts'[j].id = posts'[i].id => i = j
      BY <1>3, <1>10, <1>11, <1>13, <2>2
    <3>2. QED
      BY <1>3, <1>8, <1>10, <1>11, <2>2, <3>1
  <2>3. QED
    BY <1>13, <2>1, <2>2
<1>17. Lane(ended, host.queue, host.current, posts)'
  BY <1>8, <1>12, <1>14, <1>15, <1>16 DEF Lane
<1>18. QED
  BY <1>1, <1>3, <1>4, <1>8, <1>9, <1>17 DEF n

---------------------------------------------------------------------------
\* Outcomes

\* What does not depend on the child.
Base(S, P) == /\ Shape(S) /\ Lane(S.ended, S.host.queue, S.host.current, P) /\ Told(S.ended)

\* Host g differs from h in its lane only.
SameBelief(g, h) == /\ g.awaiting = h.awaiting /\ g.loaded = h.loaded /\ g.failures = h.failures
                    /\ g.running = h.running /\ g.pump = h.pump

\* Nothing is on its way, and nothing is waited for.
Rest(h, c) == /\ Idle(h.loaded, c) /\ (~c.alive => Len(c.inbox) = 0 /\ c.stream = 0)
              /\ (~h.running => c = NoChild) /\ ~h.awaiting

LEMMA FailedHonest == Failed \in Outcomes /\ \A r : Honest(r, Failed)
  BY DEF Failed, Outcome, Outcomes, Held, Honest

LEMMA ToldMore ==
  ASSUME NEW E \in [Made -> Seq(Outcomes)], Told(E), NEW r \in Made, NEW out \in Outcomes,
         Honest(r, out)
  PROVE  \A i \in 1..Len(Append(E[r], out)) : Honest(r, Append(E[r], out)[i])
<1> DEFINE a == Append(E[r], out)
<1>1. /\ Len(E[r]) \in Nat /\ Len(a) = Len(E[r]) + 1
      /\ \A i \in 1..Len(E[r]) : a[i] = E[r][i]
      /\ a[Len(E[r]) + 1] = out
  BY Appended
<1> HIDE DEF a
<1>2. \A i \in 1..Len(a) : Honest(r, a[i])
  <2> SUFFICES ASSUME NEW i \in 1..Len(a) PROVE Honest(r, a[i])
    OBVIOUS
  <2>1. CASE i \in 1..Len(E[r])
    BY <1>1, <2>1 DEF Told
  <2>2. CASE i = Len(E[r]) + 1
    BY <1>1, <2>2
  <2>3. QED
    BY <1>1, <2>1, <2>2
<1>3. QED
  BY <1>2 DEF a

LEMMA ToldEnd ==
  ASSUME NEW E \in [Made -> Seq(Outcomes)], Told(E), NEW r \in Made, NEW out \in Outcomes,
         Honest(r, out)
  PROVE  Told(More(E, r, out))
<1> DEFINE F == More(E, r, out)
<1>1. F[r] = Append(E[r], out) /\ \A x \in Made \ {r} : F[x] = E[x]
  BY DEF More
<1> HIDE DEF F
<1>2. \A i \in 1..Len(F[r]) : Honest(r, F[r][i])
  BY <1>1, ToldMore
<1>3. Told(F)
  BY <1>1, <1>2 DEF Told
<1>4. QED
  BY <1>3 DEF F

LEMMA ToldFail ==
  ASSUME NEW E \in [Made -> Seq(Outcomes)], Told(E), NEW W
  PROVE  Told([r \in DOMAIN E |-> IF r \in W THEN Append(E[r], Failed) ELSE E[r]])
<1> DEFINE F == [r \in DOMAIN E |-> IF r \in W THEN Append(E[r], Failed) ELSE E[r]]
<1>1. ASSUME NEW r \in Made
      PROVE  F[r] = IF r \in W THEN Append(E[r], Failed) ELSE E[r]
  OBVIOUS
<1> HIDE DEF F
<1>2. ASSUME NEW r \in Made PROVE \A i \in 1..Len(F[r]) : Honest(r, F[r][i])
  <2>1. CASE r \in W
    BY <1>1, <2>1, FailedHonest, ToldMore
  <2>2. CASE r \notin W
    BY <1>1, <2>2 DEF Told
  <2>3. QED
    BY <2>1, <2>2
<1>3. Told(F)
  BY <1>2 DEF Told
<1>4. QED
  BY <1>3 DEF F

LEMMA TellEffect ==
  ASSUME NEW S, Shape(S), NEW r, NEW out
  PROVE  LET T == Tell(S, r, out)
         IN  /\ Shape(T) /\ T.ended = More(S.ended, r, out)
             /\ T.host = S.host /\ T.child = S.child
  BY DEF Tell, Shape, More

LEMMA FinishBase ==
  ASSUME Requests, NEW S, NEW P, Base(S, P), S.host.current # 0, NEW out \in Outcomes,
         Honest(S.host.current, out)
  PROVE  LET T == finishCurrent(S, out)
         IN  /\ Base(T, P) /\ T.host.current = 0 /\ T.host.queue = S.host.queue
             /\ SameBelief(T.host, S.host) /\ T.child = S.child
<1> DEFINE cur == S.host.current
           U == Tell(S, cur, out)
           T == [U EXCEPT !.host.current = 0, !.host.sent = FALSE]
<1>1. finishCurrent(S, out) = T
  BY DEF finishCurrent
<1>2. /\ Shape(U) /\ U.ended = More(S.ended, cur, out)
      /\ U.host = S.host /\ U.child = S.child
  <2>1. Shape(S)
    BY DEF Base
  <2> HIDE DEF cur
  <2>2. QED
    BY <2>1, TellEffect
<1> HIDE DEF U
<1>3. /\ Shape(T) /\ T.ended = U.ended /\ T.child = S.child
      /\ T.host = [S.host EXCEPT !.current = 0, !.sent = FALSE]
  BY <1>2 DEF Shape, Host
<1>4. /\ T.host.current = 0 /\ T.host.queue = S.host.queue /\ SameBelief(T.host, S.host)
  <2>1. S.host \in Host
    BY DEF Base, Shape
  <2> HIDE DEF T
  <2>2. QED
    BY <1>3, <2>1 DEF Host, SameBelief
<1> HIDE DEF T
<1>5. Lane(S.ended, S.host.queue, cur, P) /\ Told(S.ended)
  BY DEF Base
<1>6. cur \in Made /\ S.ended \in [Made -> Seq(Outcomes)] /\ cur # 0 /\ Honest(cur, out)
      /\ T.ended = More(S.ended, cur, out)
  BY <1>2, <1>3, <1>5 DEF Lane
<1> HIDE DEF cur
<1>7. Lane(T.ended, S.host.queue, 0, P)
  BY <1>5, <1>6, LaneEnd
<1>8. Told(T.ended)
  BY <1>5, <1>6, ToldEnd
<1>9. Base(T, P)
  BY <1>3, <1>4, <1>7, <1>8 DEF Base
<1>10. QED
  BY <1>1, <1>3, <1>4, <1>9

LEMMA FailAllBase ==
  ASSUME Requests, NEW S, NEW P, Base(S, P)
  PROVE  LET T == failAll(S)
         IN  /\ Base(T, P) /\ T.host.current = 0
             /\ SameBelief(T.host, S.host) /\ T.child = S.child
<1> DEFINE U == finishCurrent(S, Failed)
           q == U.host.queue
           F == [r \in DOMAIN U.ended |-> IF r \in ToSet(q) THEN Append(U.ended[r], Failed)
                                          ELSE U.ended[r]]
           T == [U EXCEPT !.ended = F, !.caller = IF @ \in ToSet(q) THEN 0 ELSE @,
                          !.toMain = @ \o StreamEnds(q), !.host.queue = <<>>]
<1>1. failAll(S) = T
  BY DEF failAll
<1>2. /\ Base(U, P) /\ U.host.current = 0
      /\ SameBelief(U.host, S.host) /\ U.child = S.child
  <2>1. CASE S.host.current = 0
    BY <2>1 DEF finishCurrent, SameBelief
  <2>2. CASE S.host.current # 0
    BY <2>2, FailedHonest, FinishBase
  <2>3. QED
    BY <2>1, <2>2
<1> HIDE DEF U
<1>3. /\ U.host \in Host /\ Lane(U.ended, q, 0, P) /\ Told(U.ended) /\ Shape(U)
      /\ U.ended \in [Made -> Seq(Outcomes)]
  BY <1>2 DEF Base, Shape, Lane
<1>4. Lane(F, <<>>, 0, P)
  BY <1>3, LaneFail, FailedHonest
<1>5. Told(F)
  BY <1>3, ToldFail
<1> HIDE DEF F
<1> DEFINE e == <<>>
<1>6. e \in Seq(Nat) /\ e = <<>>
  BY EmptySeq
<1>7. T.ended = F /\ T.child = U.child /\ T.host = [U.host EXCEPT !.queue = e]
      /\ Shape(T)
  BY <1>3, <1>6 DEF Shape, Host
<1> HIDE DEF e, T
<1>8. /\ T.host \in Host /\ T.host.queue = e /\ T.host.current = 0
      /\ SameBelief(T.host, U.host)
  BY <1>2, <1>3, <1>6, <1>7 DEF Host, SameBelief
<1>9. Base(T, P)
  BY <1>3, <1>4, <1>5, <1>6, <1>7, <1>8 DEF Base, Shape
<1>10. QED
  BY <1>1, <1>2, <1>7, <1>8, <1>9 DEF SameBelief

LEMMA RestSound ==
  ASSUME NEW S, NEW P, Base(S, P), S.host.current = 0, Rest(S.host, S.child)
  PROVE  Sound(S, P)
  BY DEF Base, Rest, Sound, WireOf, Wire

\* Whether the pump turns is no concern of the rest.
LEMMA PumpSound ==
  ASSUME NEW S, NEW P, Sound(S, P), NEW b \in BOOLEAN
  PROVE  Sound([S EXCEPT !.host.pump = b], P)
<1> DEFINE T == [S EXCEPT !.host.pump = b]
<1>1. /\ Shape(T) /\ T.ended = S.ended /\ T.child = S.child
      /\ T.host = [S.host EXCEPT !.pump = b] /\ S.host \in Host
  BY DEF Sound, Shape, Host
<1> HIDE DEF T
<1>2. /\ T.host.queue = S.host.queue /\ T.host.current = S.host.current
      /\ T.host.awaiting = S.host.awaiting /\ T.host.sent = S.host.sent
      /\ T.host.running = S.host.running /\ T.host.loaded = S.host.loaded
  BY <1>1 DEF Host
<1>3. Sound(T, P)
  BY <1>1, <1>2 DEF Sound, WireOf
<1>4. QED
  BY <1>3 DEF T

---------------------------------------------------------------------------
\* The pipe to the child

\* Child d is c with other input.
InputOnly(d, c) == /\ d \in Child /\ d.alive = c.alive /\ d.slot = c.slot /\ d.outbox = c.outbox
                   /\ d.stream = c.stream /\ d.said = c.said
\* Child d is c with other output.
OutputOnly(d, c) == /\ d \in Child /\ d.alive = c.alive /\ d.slot = c.slot /\ d.inbox = c.inbox
                    /\ d.stream = c.stream /\ d.said = c.said

LEMMA SetInput ==
  ASSUME NEW c \in Child, NEW s \in Seq(Frame)
  PROVE  LET d == [c EXCEPT !.inbox = s] IN InputOnly(d, c) /\ d.inbox = s
  BY DEF Child, InputOnly

LEMMA SetOutput ==
  ASSUME NEW c \in Child, NEW s \in Seq(Written)
  PROVE  LET d == [c EXCEPT !.outbox = s] IN OutputOnly(d, c) /\ d.outbox = s
  BY DEF Child, OutputOnly

LEMMA ChildFacts ==
  ASSUME NEW c \in Child
  PROVE  /\ c.inbox \in Seq(Frame) /\ Len(c.inbox) \in Nat
         /\ c.outbox \in Seq(Written) /\ Len(c.outbox) \in Nat
         /\ c.slot \in [Slots -> Held] /\ c.alive \in BOOLEAN
         /\ c.stream \in Nat /\ c.said \in BOOLEAN
  BY LenProperties DEF Child

LEMMA NoChildFacts ==
  /\ NoChild \in Child /\ ~NoChild.alive /\ Len(NoChild.inbox) = 0 /\ NoChild.stream = 0
  /\ Empty \in [Slots -> Held] /\ \A s \in Slots : NoChild.slot[s] = NoModel
  /\ InQuiet(NoChild) /\ OutQuiet(NoChild)
<1>1. <<>> \in Seq(Frame) /\ <<>> \in Seq(Written) /\ Len(<<>>) = 0
  BY EmptySeq
<1>2. Empty \in [Slots -> Held] /\ \A s \in Slots : Empty[s] = NoModel
  BY DEF Empty, Held
<1> DEFINE e == <<>>
<1>3. NoChild = [alive |-> FALSE, slot |-> Empty, inbox |-> e, outbox |-> e, stream |-> 0,
                 said |-> FALSE]
  BY DEF NoChild
<1>4. e \in Seq(Frame) /\ e \in Seq(Written) /\ Len(e) = 0
  BY <1>1
<1> HIDE DEF e
<1>5. /\ NoChild \in Child /\ NoChild.inbox = e /\ NoChild.outbox = e /\ ~NoChild.alive
      /\ NoChild.stream = 0 /\ NoChild.slot = Empty
  BY <1>2, <1>3, <1>4 DEF Child
<1>6. QED
  BY <1>2, <1>4, <1>5 DEF InQuiet, OutQuiet

LEMMA NewInput ==
  ASSUME NEW c \in Child, NEW f \in Frame
  PROVE  LET d == [c EXCEPT !.inbox = Append(c.inbox, f)]
         IN  /\ InputOnly(d, c) /\ Len(c.inbox) \in Nat /\ Len(d.inbox) = Len(c.inbox) + 1
             /\ \A i \in 1..Len(c.inbox) : d.inbox[i] = c.inbox[i]
             /\ d.inbox[Len(c.inbox) + 1] = f
<1> DEFINE s == Append(c.inbox, f)
<1>1. /\ Len(c.inbox) \in Nat /\ s \in Seq(Frame) /\ Len(s) = Len(c.inbox) + 1
      /\ \A i \in 1..Len(c.inbox) : s[i] = c.inbox[i]
      /\ s[Len(c.inbox) + 1] = f
  BY ChildFacts, Appended
<1> HIDE DEF s
<1>2. LET d == [c EXCEPT !.inbox = s]
      IN  /\ InputOnly(d, c) /\ Len(c.inbox) \in Nat /\ Len(d.inbox) = Len(c.inbox) + 1
          /\ \A i \in 1..Len(c.inbox) : d.inbox[i] = c.inbox[i]
          /\ d.inbox[Len(c.inbox) + 1] = f
  BY <1>1, SetInput
<1>3. QED
  BY <1>2 DEF s

LEMMA NewOutput ==
  ASSUME NEW c \in Child, NEW f \in Written
  PROVE  LET d == [c EXCEPT !.outbox = Append(c.outbox, f)]
         IN  /\ OutputOnly(d, c) /\ Len(c.outbox) \in Nat /\ Len(d.outbox) = Len(c.outbox) + 1
             /\ \A i \in 1..Len(c.outbox) : d.outbox[i] = c.outbox[i]
             /\ d.outbox[Len(c.outbox) + 1] = f
<1> DEFINE s == Append(c.outbox, f)
<1>1. /\ Len(c.outbox) \in Nat /\ s \in Seq(Written) /\ Len(s) = Len(c.outbox) + 1
      /\ \A i \in 1..Len(c.outbox) : s[i] = c.outbox[i]
      /\ s[Len(c.outbox) + 1] = f
  BY ChildFacts, Appended
<1> HIDE DEF s
<1>2. LET d == [c EXCEPT !.outbox = s]
      IN  /\ OutputOnly(d, c) /\ Len(c.outbox) \in Nat /\ Len(d.outbox) = Len(c.outbox) + 1
          /\ \A i \in 1..Len(c.outbox) : d.outbox[i] = c.outbox[i]
          /\ d.outbox[Len(c.outbox) + 1] = f
  BY <1>1, SetOutput
<1>3. QED
  BY <1>2 DEF s

\* The child reads a frame.
LEMMA ReadInput ==
  ASSUME NEW c \in Child, c.inbox # <<>>
  PROVE  LET d == [c EXCEPT !.inbox = Tail(c.inbox)]
         IN  /\ InputOnly(d, c) /\ 1 \in 1..Len(c.inbox) /\ Head(c.inbox) = c.inbox[1]
             /\ Head(c.inbox) \in Frame
             /\ \A i \in 1..Len(d.inbox) : i + 1 \in 1..Len(c.inbox) /\ d.inbox[i] = c.inbox[i + 1]
             /\ \A i \in 1..Len(c.inbox) : i # 1 =>
                  i - 1 \in 1..Len(d.inbox) /\ d.inbox[i - 1] = c.inbox[i]
<1> DEFINE s == Tail(c.inbox)
<1>1. /\ Len(c.inbox) \in Nat \ {0} /\ Head(c.inbox) = c.inbox[1] /\ Head(c.inbox) \in Frame
      /\ s \in Seq(Frame) /\ Len(s) = Len(c.inbox) - 1
      /\ \A i \in 1..(Len(c.inbox) - 1) : s[i] = c.inbox[i + 1]
  BY ChildFacts, Tailed
<1> HIDE DEF s
<1>2. /\ \A i \in 1..Len(s) : i + 1 \in 1..Len(c.inbox) /\ s[i] = c.inbox[i + 1]
      /\ \A i \in 1..Len(c.inbox) : i # 1 => i - 1 \in 1..Len(s) /\ s[i - 1] = c.inbox[i]
      /\ 1 \in 1..Len(c.inbox)
  <2>1. ASSUME NEW i \in 1..Len(c.inbox), i # 1
        PROVE  i - 1 \in 1..Len(s) /\ s[i - 1] = c.inbox[i]
    <3>1. i - 1 \in 1..(Len(c.inbox) - 1) /\ (i - 1) + 1 = i
      BY <1>1, <2>1
    <3>2. s[i - 1] = c.inbox[(i - 1) + 1]
      BY <1>1, <3>1
    <3>3. QED
      BY <1>1, <3>1, <3>2
  <2>2. QED
    BY <1>1, <2>1
<1>3. LET d == [c EXCEPT !.inbox = s]
      IN  InputOnly(d, c) /\ d.inbox = s
  BY <1>1, SetInput
<1>4. QED
  BY <1>1, <1>2, <1>3 DEF s

\* The host reads a frame.
LEMMA ReadOutput ==
  ASSUME NEW c \in Child, c.outbox # <<>>
  PROVE  LET d == [c EXCEPT !.outbox = Tail(c.outbox)]
         IN  /\ OutputOnly(d, c) /\ 1 \in 1..Len(c.outbox) /\ Head(c.outbox) = c.outbox[1]
             /\ Head(c.outbox) \in Written
             /\ \A i \in 1..Len(d.outbox) : /\ i + 1 \in 1..Len(c.outbox) /\ i + 1 > 1
                                            /\ d.outbox[i] = c.outbox[i + 1]
             /\ \A i \in 1..Len(c.outbox) : i # 1 =>
                  i - 1 \in 1..Len(d.outbox) /\ d.outbox[i - 1] = c.outbox[i]
<1> DEFINE s == Tail(c.outbox)
<1>1. /\ Len(c.outbox) \in Nat \ {0} /\ Head(c.outbox) = c.outbox[1] /\ Head(c.outbox) \in Written
      /\ s \in Seq(Written) /\ Len(s) = Len(c.outbox) - 1
      /\ \A i \in 1..(Len(c.outbox) - 1) : s[i] = c.outbox[i + 1]
  BY ChildFacts, Tailed
<1> HIDE DEF s
<1>2. /\ \A i \in 1..Len(s) : i + 1 \in 1..Len(c.outbox) /\ i + 1 > 1 /\ s[i] = c.outbox[i + 1]
      /\ \A i \in 1..Len(c.outbox) : i # 1 => i - 1 \in 1..Len(s) /\ s[i - 1] = c.outbox[i]
      /\ 1 \in 1..Len(c.outbox)
  <2>1. ASSUME NEW i \in 1..Len(c.outbox), i # 1
        PROVE  i - 1 \in 1..Len(s) /\ s[i - 1] = c.outbox[i]
    <3>1. i - 1 \in 1..(Len(c.outbox) - 1) /\ (i - 1) + 1 = i
      BY <1>1, <2>1
    <3>2. s[i - 1] = c.outbox[(i - 1) + 1]
      BY <1>1, <3>1
    <3>3. QED
      BY <1>1, <3>1, <3>2
  <2>2. QED
    BY <1>1, <2>1
<1>3. LET d == [c EXCEPT !.outbox = s]
      IN  OutputOnly(d, c) /\ d.outbox = s
  BY <1>1, SetOutput
<1>4. QED
  BY <1>1, <1>2, <1>3 DEF s

---------------------------------------------------------------------------
\* What becomes of the wire

LEMMA OutSame ==
  ASSUME NEW c, NEW d, d.outbox = c.outbox, d.slot = c.slot, d.stream = c.stream
  PROVE  /\ OutQuiet(c) => OutQuiet(d)
         /\ OutPieces(c) => OutPieces(d)
         /\ \A ld : Settled(ld, c) => Settled(ld, d)
  BY DEF OutQuiet, OutPieces, Settled

\* Frame d.inbox[n + 1] has joined the n frames of c.
Joined(d, c, f) == /\ InputOnly(d, c) /\ Len(c.inbox) \in Nat /\ Len(d.inbox) = Len(c.inbox) + 1
                   /\ \A i \in 1..Len(c.inbox) : d.inbox[i] = c.inbox[i]
                   /\ d.inbox[Len(c.inbox) + 1] = f

LEMMA JoinedIndex ==
  ASSUME NEW c, NEW d, NEW f, Joined(d, c, f)
  PROVE  /\ \A i \in 1..Len(d.inbox) : \/ i \in 1..Len(c.inbox) /\ d.inbox[i] = c.inbox[i]
                                       \/ i = Len(c.inbox) + 1 /\ d.inbox[i] = f
         /\ \A i \in 1..Len(c.inbox) : i \in 1..Len(d.inbox) /\ i # Len(c.inbox) + 1
         /\ Len(c.inbox) + 1 \in 1..Len(d.inbox)
  BY DEF Joined

\* A cancel in the pipe hides nothing.
LEMMA WireCancel ==
  ASSUME NEW cur, NEW aw, NEW sent, NEW run, NEW ld, NEW c \in Child, NEW d, NEW f \in Frame,
         Wire(cur, aw, sent, run, ld, c), c.alive, Joined(d, c, f), f.op = "cancel"
  PROVE  Wire(cur, aw, sent, run, ld, d)
<1>1. /\ d.alive /\ d.slot = c.slot /\ d.outbox = c.outbox /\ d.stream = c.stream
  BY DEF Joined, InputOnly
<1>2. run
  BY NoChildFacts DEF Wire
<1>3. InQuiet(c) => InQuiet(d)
  BY JoinedIndex DEF InQuiet
<1>4. ASSUME NEW op, NEW id, Asked(c, op, id), op # "cancel" PROVE Asked(d, op, id)
  <2>1. PICK i \in 1..Len(c.inbox) : /\ c.inbox[i].op = op /\ c.inbox[i].id = id
                                     /\ \A j \in 1..Len(c.inbox) : j # i => c.inbox[j].op = "cancel"
    BY <1>4 DEF Asked
  <2>2. i \in 1..Len(d.inbox) /\ d.inbox[i] = c.inbox[i]
    BY JoinedIndex DEF Joined
  <2>3. \A j \in 1..Len(d.inbox) : j # i => d.inbox[j].op = "cancel"
    BY <2>1, JoinedIndex
  <2>4. QED
    BY <1>1, <1>4, <2>1, <2>2, <2>3 DEF Asked, OutQuiet
<1>5. /\ OutQuiet(c) => OutQuiet(d)
      /\ OutPieces(c) => OutPieces(d)
      /\ Settled(ld, c) => Settled(ld, d)
  BY <1>1, OutSame
<1>6. Idle(ld, c) => Idle(ld, d)
  BY <1>1, <1>3, <1>5 DEF Idle
<1>7. Loading(cur, ld, c) => Loading(cur, ld, d)
  <2>1. LoadTold(cur, ld, c) => LoadTold(cur, ld, d)
    BY <1>1, <1>3 DEF LoadTold
  <2>2. QED
    BY <1>1, <1>4, <1>5, <2>1 DEF Loading
<1>8. Serving(cur, ld, c) => Serving(cur, ld, d)
  <2>1. Answered(cur, c) => Answered(cur, d)
    BY <1>1, <1>3 DEF Answered
  <2>2. Streaming(cur, c) => Streaming(cur, d)
    BY <1>1, <1>3, <1>5 DEF Streaming
  <2>3. QED
    BY <1>1, <1>4, <1>5, <2>1, <2>2 DEF Serving
<1>9. QED
  BY <1>1, <1>2, <1>6, <1>7, <1>8 DEF Wire

\* A frame sent to a child that rests is the only one on its way.
LEMMA AskedNow ==
  ASSUME NEW ld, NEW c \in Child, NEW d, NEW f \in Frame, Idle(ld, c), c.alive, Joined(d, c, f)
  PROVE  Asked(d, f.op, f.id) /\ Settled(ld, d)
<1>1. /\ d.alive /\ d.slot = c.slot /\ d.outbox = c.outbox /\ d.stream = c.stream
  BY DEF Joined, InputOnly
<1>2. Settled(ld, d) /\ OutQuiet(d) /\ d.stream = 0
  BY <1>1, OutSame DEF Idle
<1> DEFINE k == Len(c.inbox) + 1
<1>3. k \in 1..Len(d.inbox) /\ d.inbox[k] = f
      /\ \A j \in 1..Len(d.inbox) : j # k => d.inbox[j].op = "cancel"
  BY JoinedIndex DEF Joined, Idle, InQuiet
<1> HIDE DEF k
<1>4. QED
  BY <1>1, <1>2, <1>3 DEF Asked


\* Frame f has joined the output of c.
Grown(d, c, f) == /\ Len(c.outbox) \in Nat /\ Len(d.outbox) = Len(c.outbox) + 1
                  /\ \A i \in 1..Len(c.outbox) : d.outbox[i] = c.outbox[i]
                  /\ d.outbox[Len(c.outbox) + 1] = f

LEMMA GrownIndex ==
  ASSUME NEW c, NEW d, NEW f, Grown(d, c, f)
  PROVE  /\ \A i \in 1..Len(d.outbox) : \/ i \in 1..Len(c.outbox) /\ d.outbox[i] = c.outbox[i]
                                        \/ i = Len(c.outbox) + 1 /\ d.outbox[i] = f
         /\ \A i \in 1..Len(c.outbox) : /\ i \in 1..Len(d.outbox) /\ i # Len(c.outbox) + 1
                                        /\ d.outbox[i] = c.outbox[i]
         /\ Len(c.outbox) + 1 \in 1..Len(d.outbox) /\ d.outbox[Len(c.outbox) + 1] = f
         /\ \A i \in 1..Len(d.outbox) : ~(i > Len(c.outbox) + 1)
  BY DEF Grown

LEMMA Replied ==
  ASSUME NEW c \in Child, NEW f \in Written
  PROVE  OutputOnly(Reply(c, f), c) /\ Grown(Reply(c, f), c, f)
  BY NewOutput DEF Reply, Grown

\* Something unreadable hides nothing.
LEMMA WireGarble ==
  ASSUME NEW cur, NEW aw, NEW sent, NEW run, NEW ld, NEW c \in Child, NEW d,
         Wire(cur, aw, sent, run, ld, c), c.alive, OutputOnly(d, c), NEW f \in Noise,
         Grown(d, c, f)
  PROVE  Wire(cur, aw, sent, run, ld, d)
<1>1. /\ d.alive /\ d.slot = c.slot /\ d.inbox = c.inbox /\ d.stream = c.stream
  BY DEF OutputOnly
<1>2. run
  BY NoChildFacts DEF Wire
<1>3. f.op \in {"unreadable", "malformed"}
  BY DEF Noise
<1>4. /\ OutQuiet(c) => OutQuiet(d)
      /\ OutPieces(c) => OutPieces(d)
  BY <1>3, GrownIndex DEF OutQuiet, OutPieces
<1>5. /\ InQuiet(c) => InQuiet(d)
      /\ Settled(ld, c) => Settled(ld, d)
      /\ \A op, id : Asked(c, op, id) => Asked(d, op, id)
  BY <1>1, <1>4 DEF InQuiet, Settled, Asked
<1>6. Idle(ld, c) => Idle(ld, d)
  BY <1>1, <1>4, <1>5 DEF Idle
<1>7. ASSUME LoadTold(cur, ld, c) PROVE LoadTold(cur, ld, d)
  <2>1. PICK i \in 1..Len(c.outbox) :
          /\ c.outbox[i].op \in {"load_result", "error"}
          /\ c.slot[reqs[cur].slot] \in IF c.outbox[i].ok THEN {reqs[cur].gguf}
                                        ELSE {ld[reqs[cur].slot], NoModel}
          /\ \A j \in 1..Len(c.outbox) : j # i => c.outbox[j].op \in {"unreadable", "malformed"}
    BY <1>7 DEF LoadTold
  <2>2. i \in 1..Len(d.outbox) /\ d.outbox[i] = c.outbox[i]
    BY GrownIndex
  <2>3. \A j \in 1..Len(d.outbox) : j # i => d.outbox[j].op \in {"unreadable", "malformed"}
    BY <1>3, <2>1, GrownIndex
  <2>4. QED
    BY <1>1, <1>5, <1>7, <2>1, <2>2, <2>3 DEF LoadTold
<1>8. ASSUME Answered(cur, c) PROVE Answered(cur, d)
  <2>1. PICK i \in 1..Len(c.outbox) :
          /\ c.outbox[i].op \in {"result", "error"} /\ c.outbox[i].id = cur
          /\ Honest(cur, c.outbox[i])
          /\ \A j \in 1..Len(c.outbox) :
               j # i => c.outbox[j].op \in {"unreadable", "malformed", "chunk"}
          /\ \A j \in 1..Len(c.outbox) : j > i => c.outbox[j].op \in {"unreadable", "malformed"}
    BY <1>8 DEF Answered
  <2>2. i \in 1..Len(d.outbox) /\ d.outbox[i] = c.outbox[i]
    BY GrownIndex
  <2>3. ASSUME NEW j \in 1..Len(d.outbox)
        PROVE  /\ j # i => d.outbox[j].op \in {"unreadable", "malformed", "chunk"}
               /\ j > i => d.outbox[j].op \in {"unreadable", "malformed"}
    <3>1. \/ j \in 1..Len(c.outbox) /\ d.outbox[j] = c.outbox[j]
          \/ d.outbox[j] = f
      BY GrownIndex
    <3>2. QED
      BY <1>3, <2>1, <3>1
  <2>4. QED
    BY <1>1, <1>5, <1>8, <2>1, <2>2, <2>3 DEF Answered
<1>9. Loading(cur, ld, c) => Loading(cur, ld, d)
  BY <1>1, <1>4, <1>5, <1>7 DEF Loading
<1>10. Streaming(cur, c) => Streaming(cur, d)
  BY <1>1, <1>4, <1>5 DEF Streaming
<1>11. Serving(cur, ld, c) => Serving(cur, ld, d)
  BY <1>1, <1>4, <1>5, <1>8, <1>10 DEF Serving
<1>12. QED
  BY <1>1, <1>2, <1>6, <1>9, <1>11 DEF Wire

\* What the child has written survives it.
LEMMA WireCrash ==
  ASSUME NEW cur, NEW aw, NEW sent, NEW run, NEW ld, NEW c \in Child, NEW d \in Child,
         Wire(cur, aw, sent, run, ld, c), c.alive,
         ~d.alive, Len(d.inbox) = 0, d.stream = 0, d.slot = c.slot, d.outbox = c.outbox
  PROVE  Wire(cur, aw, sent, run, ld, d)
<1>1. run
  BY NoChildFacts DEF Wire
<1>2. InQuiet(d) /\ (OutQuiet(c) => OutQuiet(d)) /\ (OutPieces(c) => OutPieces(d))
      /\ (OutQuiet(c) => OutPieces(c)) /\ (Settled(ld, c) => Settled(ld, d))
  BY DEF InQuiet, OutQuiet, OutPieces, Settled
<1>3. Idle(ld, c) => Idle(ld, d)
  BY <1>2 DEF Idle
<1>4. Loading(cur, ld, c) => Loading(cur, ld, d)
  <2>1. LoadTold(cur, ld, c) => LoadTold(cur, ld, d)
    BY <1>2 DEF LoadTold
  <2>2. QED
    BY <1>2, <2>1 DEF Loading, Asked
<1>5. Serving(cur, ld, c) => Serving(cur, ld, d)
  <2>1. Answered(cur, c) => Answered(cur, d)
    BY <1>2 DEF Answered
  <2>2. QED
    BY <1>2, <2>1 DEF Serving, Asked, Streaming
<1>6. QED
  BY <1>1, <1>3, <1>4, <1>5 DEF Wire


---------------------------------------------------------------------------
\* The child's steps

\* Child e is c after reading its first frame.
Reading(e, c) ==
  /\ InputOnly(e, c) /\ 1 \in 1..Len(c.inbox) /\ Head(c.inbox) = c.inbox[1]
  /\ \A i \in 1..Len(e.inbox) : i + 1 \in 1..Len(c.inbox) /\ e.inbox[i] = c.inbox[i + 1]
  /\ \A i \in 1..Len(c.inbox) : i # 1 => i - 1 \in 1..Len(e.inbox) /\ e.inbox[i - 1] = c.inbox[i]

LEMMA ReadQuiet ==
  ASSUME NEW e, NEW c, Reading(e, c), InQuiet(c)
  PROVE  InQuiet(e) /\ Head(c.inbox).op = "cancel"
<1>1. \A i \in 1..Len(c.inbox) : c.inbox[i].op = "cancel"
  BY DEF InQuiet
<1>2. \A i \in 1..Len(e.inbox) : e.inbox[i].op = "cancel"
  BY <1>1 DEF Reading
<1>3. QED
  BY <1>1, <1>2 DEF Reading, InQuiet

\* The frame on its way is the first, or stays the only one.
LEMMA ReadAsked ==
  ASSUME NEW e, NEW c, Reading(e, c), NEW op, NEW id, Asked(c, op, id), op # "cancel"
  PROVE  \/ Head(c.inbox).op = op /\ Head(c.inbox).id = id /\ InQuiet(e)
         \/ Head(c.inbox).op = "cancel" /\ Asked(e, op, id)
<1>1. PICK i \in 1..Len(c.inbox) : /\ c.inbox[i].op = op /\ c.inbox[i].id = id
                                   /\ \A j \in 1..Len(c.inbox) : j # i => c.inbox[j].op = "cancel"
  BY DEF Asked
<1>2. CASE i = 1
  <2>1. \A j \in 1..Len(e.inbox) : j + 1 # 1
    OBVIOUS
  <2>2. QED
    BY <1>1, <1>2, <2>1 DEF Reading, InQuiet
<1>3. CASE i # 1
  <2>1. /\ i - 1 \in 1..Len(e.inbox) /\ e.inbox[i - 1] = c.inbox[i]
        /\ Head(c.inbox).op = "cancel"
    BY <1>1, <1>3 DEF Reading
  <2>2. ASSUME NEW j \in 1..Len(e.inbox), j # i - 1 PROVE e.inbox[j].op = "cancel"
    <3>1. j + 1 \in 1..Len(c.inbox) /\ e.inbox[j] = c.inbox[j + 1] /\ j + 1 # i
      BY <2>2 DEF Reading
    <3>2. QED
      BY <1>1, <3>1
  <2>3. Asked(e, op, id)
    BY <1>1, <2>1, <2>2 DEF Asked, Reading, InputOnly, OutQuiet
  <2>4. QED
    BY <2>1, <2>3
<1>4. QED
  BY <1>2, <1>3

\* A cancel outside a stream is dropped.
LEMMA WireDropped ==
  ASSUME NEW cur, NEW aw, NEW sent, NEW run, NEW ld, NEW c \in Child, NEW e,
         Wire(cur, aw, sent, run, ld, c), c.alive, Reading(e, c), Head(c.inbox).op = "cancel"
  PROVE  Wire(cur, aw, sent, run, ld, e)
<1>1. /\ e.alive /\ e.slot = c.slot /\ e.outbox = c.outbox /\ e.stream = c.stream
  BY DEF Reading, InputOnly
<1>2. run
  BY NoChildFacts DEF Wire
<1>3. InQuiet(c) => InQuiet(e)
  BY ReadQuiet
<1>4. ASSUME NEW op \in {"load", "request"}, NEW id, Asked(c, op, id) PROVE Asked(e, op, id)
  BY <1>4, ReadAsked
<1>5. /\ OutQuiet(c) => OutQuiet(e)
      /\ OutPieces(c) => OutPieces(e)
      /\ Settled(ld, c) => Settled(ld, e)
  BY <1>1, OutSame
<1>6. Idle(ld, c) => Idle(ld, e)
  BY <1>1, <1>3, <1>5 DEF Idle
<1>7. Loading(cur, ld, c) => Loading(cur, ld, e)
  <2>1. LoadTold(cur, ld, c) => LoadTold(cur, ld, e)
    BY <1>1, <1>3 DEF LoadTold
  <2>2. QED
    BY <1>1, <1>4, <1>5, <2>1 DEF Loading
<1>8. Serving(cur, ld, c) => Serving(cur, ld, e)
  <2>1. Answered(cur, c) => Answered(cur, e)
    BY <1>1, <1>3 DEF Answered
  <2>2. Streaming(cur, c) => Streaming(cur, e)
    BY <1>1, <1>3, <1>5 DEF Streaming
  <2>3. QED
    BY <1>1, <1>4, <1>5, <2>1, <2>2 DEF Serving
<1>9. QED
  BY <1>1, <1>2, <1>6, <1>7, <1>8 DEF Wire

LEMMA AnswerFacts ==
  ASSUME NEW op \in {"load_result", "result", "error", "chunk"}, NEW id \in Nat,
         NEW ok \in BOOLEAN, NEW finish \in {"", "cancelled", "stop"}, NEW model \in Held
  PROVE  LET a == Answer(op, id, ok, finish, model)
         IN  /\ a \in Reports /\ a \in Written /\ a.op = op /\ a.id = id /\ a.ok = ok
             /\ a.finish = finish /\ a.model = model
  BY DEF Answer, Reports, Written

\* A load is answered once, and the answer tells what the slot holds.
LEMMA LoadAnswer ==
  ASSUME Requests, NEW r \in Made, NEW ld, NEW e \in Child, e.alive, e.stream = 0, InQuiet(e),
         OutQuiet(e), Settled(ld, e), NEW d \in load(e, r)
  PROVE  d \in Child /\ d.alive /\ LoadTold(r, ld, d)
<1> DEFINE slot == reqs[r].slot
           gguf == reqs[r].gguf
           a == Answer("error", 0, FALSE, "", NoModel)
           b == Answer("load_result", 0, TRUE, "", NoModel)
<1>1. reqs[r] \in Request
  BY MadeFacts, ElementOfSeq DEF Requests
<1>2. slot \in Slots /\ gguf \in Held /\ NoModel \in Held
  BY <1>1 DEF Request, Held
<1>3. /\ a \in Written /\ a.op = "error" /\ a.ok = FALSE
      /\ b \in Written /\ b.op = "load_result" /\ b.ok = TRUE
  BY <1>2 DEF Answer, Reports, Written
<1>4. PICK v \in Held, f \in {a, b} :
        /\ d = Reply([e EXCEPT !.slot[slot] = v], f)
        /\ f = a => v \in {e.slot[slot], NoModel}
        /\ f = b => v = gguf
  <2>1. \/ d = Reply(e, a)
        \/ d = Reply([e EXCEPT !.slot[slot] = NoModel], a)
        \/ d = Reply([e EXCEPT !.slot[slot] = gguf], b)
    BY DEF load
  <2>2. [e EXCEPT !.slot[slot] = e.slot[slot]] = e /\ e.slot[slot] \in Held
    BY <1>2 DEF Child
  <2> HIDE DEF a, b, slot, gguf
  <2>3. a # b
    BY <1>3
  <2>4. CASE d = Reply(e, a)
    BY <2>2, <2>3, <2>4
  <2>5. CASE d = Reply([e EXCEPT !.slot[slot] = NoModel], a)
    BY <1>2, <2>3, <2>5
  <2>6. CASE d = Reply([e EXCEPT !.slot[slot] = gguf], b)
    BY <1>2, <2>3, <2>6
  <2>7. QED
    BY <2>1, <2>4, <2>5, <2>6
<1> DEFINE x == [e EXCEPT !.slot[slot] = v]
<1> HIDE DEF a, b
<1>5. /\ x \in Child /\ x.alive = e.alive /\ x.inbox = e.inbox /\ x.outbox = e.outbox
      /\ x.stream = e.stream /\ x.slot = [e.slot EXCEPT ![slot] = v]
  BY <1>2 DEF Child
<1>6. OutputOnly(d, x) /\ Grown(d, x, f)
  <2> HIDE DEF x, slot, gguf
  <2>1. d = Reply(x, f) /\ f \in Written
    BY <1>3, <1>4 DEF x
  <2>2. QED
    BY <1>5, <2>1, Replied
<1>7. e.slot \in [Slots -> Held]
  BY DEF Child
<1>8. d.slot[slot] = v /\ \A s \in Slots \ {slot} : d.slot[s] = e.slot[s]
  BY <1>2, <1>5, <1>6, <1>7 DEF OutputOnly
<1> HIDE DEF x
<1> DEFINE k == Len(x.outbox) + 1
<1>9. /\ k \in 1..Len(d.outbox) /\ d.outbox[k] = f
      /\ \A j \in 1..Len(d.outbox) : j # k => d.outbox[j].op \in {"unreadable", "malformed"}
  <2>1. \A j \in 1..Len(x.outbox) : x.outbox[j].op \in {"unreadable", "malformed"}
    BY <1>5 DEF OutQuiet
  <2>2. QED
    BY <1>6, <2>1, GrownIndex
<1> HIDE DEF k
<1>10. d \in Child /\ d.alive /\ d.stream = 0 /\ InQuiet(d)
  BY <1>5, <1>6 DEF OutputOnly, InQuiet
<1>11. e.slot[slot] \in {ld[slot], NoModel}
  BY <1>2 DEF Settled
<1>12. v \in IF d.outbox[k].ok THEN {gguf} ELSE {ld[slot], NoModel}
  BY <1>3, <1>4, <1>9, <1>11
<1>13. \A s \in Slots \ {slot} : d.slot[s] \in {ld[s], NoModel}
  BY <1>8 DEF Settled
<1>14. d.outbox[k].op \in {"load_result", "error"}
  BY <1>3, <1>9
<1>15. QED
  BY <1>8, <1>9, <1>10, <1>12, <1>13, <1>14 DEF LoadTold


LEMMA AnswerHonest ==
  ASSUME NEW r, NEW a, \/ a.ok = FALSE
                       \/ reqs[r].op = "warm"
                       \/ a.model = reqs[r].gguf
  PROVE  Honest(r, a)
  BY DEF Honest

\* One frame of a silent child, or one after its pieces, is the answer.
LEMMA AnsweredNow ==
  ASSUME NEW r, NEW c, NEW d, NEW a, Grown(d, c, a), OutPieces(c), InQuiet(d), d.stream = 0,
         a.op \in {"result", "error"}, a.id = r, Honest(r, a)
  PROVE  Answered(r, d)
<1> DEFINE k == Len(c.outbox) + 1
<1>1. /\ k \in 1..Len(d.outbox) /\ d.outbox[k] = a
      /\ \A j \in 1..Len(d.outbox) :
           j # k => d.outbox[j].op \in {"unreadable", "malformed", "chunk"}
      /\ \A j \in 1..Len(d.outbox) : ~(j > k)
  BY GrownIndex DEF OutPieces
<1> HIDE DEF k
<1>2. QED
  BY <1>1 DEF Answered

\* A request is answered at once, or its stream starts.
LEMMA ServeAnswer ==
  ASSUME Requests, NEW r \in Made, NEW ld, NEW e \in Child, e.alive, e.stream = 0, InQuiet(e),
         OutQuiet(e), Settled(ld, e), reqs[r].gguf = ld[reqs[r].slot], NEW d \in serve(e, r)
  PROVE  /\ d \in Child /\ d.alive /\ Settled(ld, d)
         /\ Answered(r, d) \/ Streaming(r, d)
<1> DEFINE model == e.slot[reqs[r].slot]
           x == Answer("error", r, FALSE, "", NoModel)
           y == Answer("result", r, TRUE, "", model)
<1>1. reqs[r] \in Request /\ r \in Nat
  BY MadeFacts, ElementOfSeq DEF Requests
<1>2. model \in Held /\ NoModel \in Held /\ model \in {reqs[r].gguf, NoModel}
  BY <1>1 DEF Request, Held, Child, Settled
<1>3. /\ x \in Written /\ x.op = "error" /\ x.id = r /\ x.ok = FALSE
      /\ y \in Written /\ y.op = "result" /\ y.id = r /\ y.model = model
  <2> HIDE DEF model
  <2>1. QED
    BY <1>1, <1>2 DEF Answer, Reports, Written
<1>4. \/ d = Reply(e, x)
      \/ d = Reply(e, y) /\ (reqs[r].op = "warm" \/ model # NoModel)
      \/ d = [e EXCEPT !.stream = r, !.said = FALSE] /\ model # NoModel /\ reqs[r].op = "stream"
  <2> HIDE DEF model
  <2>0. reqs[r].op \in {"stream", "call", "warm"}
    BY <1>1 DEF Request
  <2>1. CASE reqs[r].op = "warm"
    <3>1. serve(e, r) = {Reply(e, y)}
      BY <2>1 DEF serve, model
    <3>2. QED
      BY <2>1, <3>1
  <2>2. CASE reqs[r].op = "call"
    <3>1. serve(e, r) = IF model = NoModel THEN {Reply(e, x)} ELSE {Reply(e, x), Reply(e, y)}
      BY <2>2 DEF serve, model
    <3>2. QED
      BY <3>1
  <2>3. CASE reqs[r].op = "stream"
    <3>1. serve(e, r) = IF model = NoModel THEN {Reply(e, x)}
                        ELSE {Reply(e, x), [e EXCEPT !.stream = r, !.said = FALSE]}
      BY <2>3 DEF serve, model
    <3>2. QED
      BY <2>3, <3>1
  <2>4. QED
    BY <2>0, <2>1, <2>2, <2>3
<1>5. OutPieces(e)
  BY DEF OutPieces, OutQuiet
<1>6. ASSUME NEW a \in Written, a.op \in {"result", "error"}, a.id = r, Honest(r, a),
             d = Reply(e, a)
      PROVE  d \in Child /\ d.alive /\ Settled(ld, d) /\ Answered(r, d)
  <2>1. OutputOnly(d, e) /\ Grown(d, e, a)
    BY <1>6, Replied
  <2>2. /\ d \in Child /\ d.alive = e.alive /\ d.slot = e.slot /\ d.inbox = e.inbox
        /\ d.stream = e.stream
    BY <2>1 DEF OutputOnly
  <2>3. InQuiet(d) /\ Settled(ld, d) /\ d.stream = 0 /\ d.alive
    BY <2>2 DEF InQuiet, Settled
  <2>4. Answered(r, d)
    BY <1>5, <1>6, <2>1, <2>3, AnsweredNow
  <2>5. QED
    BY <2>2, <2>3, <2>4
<1>7. CASE d = Reply(e, x)
  <2>1. Honest(r, x)
    BY <1>3, AnswerHonest
  <2> HIDE DEF x
  <2>2. QED
    BY <1>3, <1>6, <1>7, <2>1
<1>8. CASE d = Reply(e, y) /\ (reqs[r].op = "warm" \/ model # NoModel)
  <2>1. Honest(r, y)
    <3> HIDE DEF y, model
    <3>1. QED
      BY <1>2, <1>3, <1>8, AnswerHonest
  <2> HIDE DEF y
  <2>2. QED
    BY <1>3, <1>6, <1>8, <2>1
<1>9. CASE d = [e EXCEPT !.stream = r, !.said = FALSE] /\ model # NoModel /\ reqs[r].op = "stream"
  <2>1. /\ d \in Child /\ d.alive = e.alive /\ d.slot = e.slot /\ d.inbox = e.inbox
        /\ d.outbox = e.outbox /\ d.stream = r
    BY <1>1, <1>9 DEF Child
  <2>2. InQuiet(d) /\ OutPieces(d) /\ Settled(ld, d) /\ d.alive
    BY <1>5, <2>1 DEF InQuiet, OutPieces, Settled
  <2>3. d.slot["chat"] = reqs[r].gguf
    BY <1>2, <1>9, <2>1 DEF Requests
  <2>4. Streaming(r, d)
    BY <1>9, <2>1, <2>2, <2>3 DEF Streaming
  <2>5. QED
    BY <2>1, <2>2, <2>4
<1>10. QED
  BY <1>4, <1>7, <1>8, <1>9

\* The frame loop reads one frame.
LEMMA WireDispatch ==
  ASSUME Requests, NEW cur \in Made \cup {0}, NEW aw, NEW sent, NEW run, NEW ld, NEW c \in Child,
         Wire(cur, aw, sent, run, ld, c), c.alive, c.stream = 0, NEW e, Reading(e, c),
         Head(c.inbox) \in Frame,
         NEW d \in CASE Head(c.inbox).op = "load" -> load(e, Head(c.inbox).id)
                     [] Head(c.inbox).op = "request" -> serve(e, Head(c.inbox).id)
                     [] Head(c.inbox).op = "cancel" -> {e}
  PROVE  d \in Child /\ Wire(cur, aw, sent, run, ld, d)
<1> DEFINE f == Head(c.inbox)
<1>1. /\ e \in Child /\ e.alive /\ e.slot = c.slot /\ e.outbox = c.outbox /\ e.stream = 0
  BY DEF Reading, InputOnly
<1>2. run /\ 0 \notin Made
  BY NoChildFacts, MadeFacts DEF Wire
<1>3. CASE f.op = "cancel"
  <2>1. d = e
    BY <1>3
  <2>2. Wire(cur, aw, sent, run, ld, e)
    BY <1>3, WireDropped
  <2>3. QED
    BY <1>1, <2>1, <2>2
<1>4. CASE f.op # "cancel"
  <2>1. ~InQuiet(c)
    BY <1>4, ReadQuiet
  <2>2. cur # 0
    BY <2>1 DEF Wire, Idle
  <2>3. CASE aw
    <3>1. Asked(c, "load", cur) /\ Settled(ld, c)
      BY <2>1, <2>2, <2>3 DEF Wire, Loading, LoadTold
    <3>2. f.op = "load" /\ f.id = cur /\ InQuiet(e)
      BY <1>4, <3>1, ReadAsked
    <3>3. OutQuiet(e) /\ Settled(ld, e)
      BY <1>1, <3>1 DEF Asked, OutQuiet, Settled
    <3>4. d \in load(e, cur)
      BY <3>2
    <3>5. d \in Child /\ d.alive /\ LoadTold(cur, ld, d)
      BY <1>1, <2>2, <3>2, <3>3, <3>4, LoadAnswer
    <3>6. QED
      BY <1>2, <2>2, <2>3, <3>5 DEF Wire, Loading
  <2>4. CASE ~aw
    <3>1. /\ Asked(c, "request", cur) /\ Settled(ld, c) /\ sent
          /\ reqs[cur].gguf = ld[reqs[cur].slot]
      BY <2>1, <2>2, <2>4 DEF Wire, Serving, Streaming, Answered
    <3>2. f.op = "request" /\ f.id = cur /\ InQuiet(e)
      BY <1>4, <3>1, ReadAsked
    <3>3. OutQuiet(e) /\ Settled(ld, e)
      BY <1>1, <3>1 DEF Asked, OutQuiet, Settled
    <3>4. d \in serve(e, cur)
      BY <3>2
    <3>5. d \in Child /\ d.alive /\ Settled(ld, d) /\ (Answered(cur, d) \/ Streaming(cur, d))
      BY <1>1, <2>2, <3>1, <3>2, <3>3, <3>4, ServeAnswer
    <3>6. QED
      BY <1>2, <2>2, <2>4, <3>1, <3>5 DEF Wire, Serving
  <2>5. QED
    BY <2>3, <2>4
<1>5. QED
  BY <1>3, <1>4


\* Only the current request's stream is ever generated.
LEMMA Generating ==
  ASSUME NEW cur, NEW aw, NEW sent, NEW run, NEW ld, NEW c \in Child,
         Wire(cur, aw, sent, run, ld, c), c.alive, c.stream # 0
  PROVE  /\ cur # 0 /\ ~aw /\ sent /\ run /\ Streaming(cur, c) /\ Settled(ld, c)
         /\ c.stream = cur /\ reqs[cur].gguf = ld[reqs[cur].slot]
<1>1. run
  BY NoChildFacts DEF Wire
<1>2. QED
  BY <1>1 DEF Wire, Idle, Loading, Asked, LoadTold, Serving, Answered, Streaming

\* The stream ends.
LEMMA WireEnd ==
  ASSUME NEW cur, NEW aw, NEW sent, NEW run, NEW ld, NEW c \in Child,
         Wire(cur, aw, sent, run, ld, c), c.alive, c.stream # 0,
         NEW a, a.op \in {"result", "error"}, a.id = cur, Honest(cur, a),
         NEW d, d.alive, d.slot = c.slot, Len(d.inbox) = 0, d.stream = 0, Grown(d, c, a)
  PROVE  Wire(cur, aw, sent, run, ld, d)
<1>1. /\ cur # 0 /\ ~aw /\ sent /\ run /\ Streaming(cur, c) /\ Settled(ld, c)
      /\ reqs[cur].gguf = ld[reqs[cur].slot]
  BY Generating
<1>2. InQuiet(d) /\ OutPieces(c) /\ Settled(ld, d)
  BY <1>1 DEF InQuiet, Streaming, Settled
<1>3. Answered(cur, d)
  BY <1>2, AnsweredNow
<1>4. QED
  BY <1>1, <1>2, <1>3 DEF Wire, Serving

\* The stream goes on.
LEMMA WirePiece ==
  ASSUME NEW cur, NEW aw, NEW sent, NEW run, NEW ld, NEW c \in Child,
         Wire(cur, aw, sent, run, ld, c), c.alive, c.stream # 0, NEW a, a.op = "chunk",
         NEW d, d.alive, d.slot = c.slot, Len(d.inbox) = 0, d.stream = c.stream, Grown(d, c, a)
  PROVE  Wire(cur, aw, sent, run, ld, d)
<1>1. /\ cur # 0 /\ ~aw /\ sent /\ run /\ Streaming(cur, c) /\ Settled(ld, c)
      /\ c.stream = cur /\ reqs[cur].gguf = ld[reqs[cur].slot]
  BY Generating
<1>2. InQuiet(d) /\ OutPieces(c) /\ Settled(ld, d)
  BY <1>1 DEF InQuiet, Streaming, Settled
<1>3. OutPieces(d)
  BY <1>2, GrownIndex DEF OutPieces
<1>4. Streaming(cur, d)
  BY <1>1, <1>2, <1>3 DEF Streaming
<1>5. QED
  BY <1>1, <1>2, <1>4 DEF Wire, Serving

\* What generating a token leaves of the child.
Output(c, a, n) == [Reply([c EXCEPT !.inbox = <<>>], a) EXCEPT !.stream = n, !.said = (n # 0)]

LEMMA Produced ==
  ASSUME NEW c \in Child, NEW a \in Written, NEW n \in Nat, NEW d, d = Output(c, a, n), c.alive
  PROVE  /\ d \in Child /\ d.alive /\ d.slot = c.slot /\ Len(d.inbox) = 0
         /\ d.stream = n /\ Grown(d, c, a)
<1> DEFINE s == <<>>
           e == [c EXCEPT !.inbox = s]
           g == Reply(e, a)
<1>1. s \in Seq(Frame) /\ Len(s) = 0
  BY EmptySeq
<1>2. d = [g EXCEPT !.stream = n, !.said = (n # 0)]
  BY DEF Output
<1> HIDE DEF s
<1>3. InputOnly(e, c) /\ e.inbox = s
  BY <1>1, SetInput
<1> HIDE DEF e
<1>4. e \in Child /\ e.alive = c.alive /\ e.slot = c.slot /\ e.outbox = c.outbox
  BY <1>3 DEF InputOnly
<1>5. OutputOnly(g, e) /\ Grown(g, e, a)
  BY <1>4, Replied
<1> HIDE DEF g
<1>6. g \in Child /\ g.alive = e.alive /\ g.slot = e.slot /\ g.inbox = e.inbox
  BY <1>5 DEF OutputOnly
<1>7. /\ d \in Child /\ d.alive = g.alive /\ d.slot = g.slot /\ d.inbox = g.inbox
      /\ d.outbox = g.outbox /\ d.stream = n
  BY <1>2, <1>6 DEF Child
<1>8. Grown(d, c, a)
  BY <1>4, <1>5, <1>7 DEF Grown
<1>9. QED
  BY <1>1, <1>3, <1>4, <1>6, <1>7, <1>8


---------------------------------------------------------------------------
\* Steps

\* A step that makes no request keeps the invariant when what it leaves is
\* sound.
LEMMA StepSound ==
  ASSUME IInv, reqs' = reqs, active' \in Nat, NEW S, NEW P, Base(S, P), WireOf(S),
         posts' = P, ended' = S.ended, host' = S.host, child' = S.child,
         ~shut' => (S.host.current = 0 => ~S.host.awaiting),
         shut' => ~S.host.running /\ ~S.host.pump /\ S.host.current = 0
  PROVE  IInv'
<1>1. Requests' /\ Made' = Made
  BY DEF IInv, Requests, Made
<1>2. Lane(ended, host.queue, host.current, posts)'
  BY <1>1 DEF Base, Lane
<1>3. Told(ended)'
  BY <1>1 DEF Base, Told, Honest
<1>4. (host \in Host /\ child \in Child)'
  BY DEF Base, Shape
<1> DEFINE r == S.host.current
           ld == S.host.loaded
           c == S.child
<1>5. Idle(ld, c) => Idle(host.loaded, child)'
  BY DEF Idle, InQuiet, OutQuiet, Settled
<1>6. Loading(r, ld, c) => Loading(host.current, host.loaded, child)'
  BY DEF Loading, Asked, LoadTold, Settled, InQuiet, OutQuiet
<1>7. Serving(r, ld, c) => Serving(host.current, host.loaded, child)'
  <2>1. Answered(r, c) => Answered(host.current, child)'
    BY DEF Answered, InQuiet, Honest
  <2>2. Asked(c, "request", r) => Asked(child, "request", host.current)'
    BY DEF Asked, OutQuiet
  <2>3. Streaming(r, c) => Streaming(host.current, child)'
    BY DEF Streaming, InQuiet, OutPieces
  <2>4. /\ Settled(ld, c) => Settled(host.loaded, child)'
        /\ OutPieces(c) => OutPieces(child)'
    BY DEF Settled, OutPieces
  <2>5. QED
    BY <2>1, <2>2, <2>3, <2>4 DEF Serving
<1>8. Wire(host.current, host.awaiting, host.sent, host.running, host.loaded, child)'
  BY <1>5, <1>6, <1>7 DEF WireOf, Wire
<1>9. (~shut => (host.current = 0 => ~host.awaiting))'
  OBVIOUS
<1>10. QED
  BY <1>1, <1>2, <1>3, <1>4, <1>8, <1>9 DEF IInv


LEMMA SysSound ==
  ASSUME IInv
  PROVE  /\ Base(Sys, posts) /\ WireOf(Sys) /\ (~shut => Sound(Sys, posts))
         /\ Sys.ended = ended /\ Sys.caller = caller /\ Sys.host = host /\ Sys.child = child
         /\ Sys.toMain = toMain
<1>1. /\ Sys.ended = ended /\ Sys.caller = caller /\ Sys.host = host /\ Sys.child = child
      /\ Sys.toMain = toMain /\ Shape(Sys)
  BY DEF IInv, Sys, Shape
<1>2. QED
  BY <1>1 DEF IInv, Base, WireOf, Sound

LEMMA Became ==
  ASSUME NEW S, Become(S)
  PROVE  ended' = S.ended /\ host' = S.host /\ child' = S.child
  BY DEF Become

\* A step of the child that keeps the wire in order.
LEMMA ChildStep ==
  ASSUME IInv, UNCHANGED <<reqs, ended, caller, posts, host, toMain, active, fresh, shut>>,
         child' \in Child,
         Wire(host.current, host.awaiting, host.sent, host.running, host.loaded, child')
  PROVE  IInv'
<1> DEFINE S == [Sys EXCEPT !.child = child']
<1>1. S.ended = ended /\ S.host = host /\ S.child = child' /\ Shape(S)
  BY DEF Sys, Shape, IInv
<1> HIDE DEF S
<1>2. Base(S, posts) /\ WireOf(S)
  BY <1>1 DEF IInv, Base, WireOf
<1>3. QED
  BY <1>1, <1>2, StepSound DEF IInv

LEMMA DispatchStep == ASSUME IInv, Dispatch PROVE IInv'
<1> DEFINE e == [child EXCEPT !.inbox = Tail(child.inbox)]
<1>1. child \in Child /\ child.inbox # <<>> /\ host.current \in Made \cup {0} /\ Requests
  BY DEF IInv, Dispatch, Lane
<1>2. Reading(e, child) /\ Head(child.inbox) \in Frame
  BY <1>1, ReadInput DEF Reading
<1>3. child' \in CASE Head(child.inbox).op = "load" -> load(e, Head(child.inbox).id)
                   [] Head(child.inbox).op = "request" -> serve(e, Head(child.inbox).id)
                   [] Head(child.inbox).op = "cancel" -> {e}
  BY DEF Dispatch
<1> HIDE DEF e
<1>4. /\ Wire(host.current, host.awaiting, host.sent, host.running, host.loaded, child)
      /\ child.alive /\ child.stream = 0
  BY DEF IInv, Dispatch
<1>5. /\ child' \in Child
      /\ Wire(host.current, host.awaiting, host.sent, host.running, host.loaded, child')
  BY <1>1, <1>2, <1>3, <1>4, WireDispatch
<1>6. QED
  BY <1>5, ChildStep DEF Dispatch

LEMMA CrashStep == ASSUME IInv, Crash PROVE IInv'
<1> DEFINE s == <<>>
<1>1. s \in Seq(Frame) /\ Len(s) = 0 /\ s = <<>>
  BY EmptySeq
<1> HIDE DEF s
<1>2. child \in Child /\ child.alive
      /\ Wire(host.current, host.awaiting, host.sent, host.running, host.loaded, child)
      /\ child' = [child EXCEPT !.alive = FALSE, !.inbox = s, !.stream = 0, !.said = FALSE]
  BY <1>1 DEF IInv, Crash
<1>3. /\ child' \in Child /\ ~child'.alive /\ child'.inbox = s /\ child'.stream = 0
      /\ child'.slot = child.slot /\ child'.outbox = child.outbox
  BY <1>1, <1>2 DEF Child
<1>4. Wire(host.current, host.awaiting, host.sent, host.running, host.loaded, child')
  BY <1>1, <1>2, <1>3, WireCrash
<1>5. QED
  BY <1>3, <1>4, ChildStep DEF Crash

LEMMA GarbleStep == ASSUME IInv, Garble PROVE IInv'
<1>0. PICK f \in Noise : child' = Reply(child, f)
  BY DEF Garble
<1>1. /\ child \in Child /\ child.alive
      /\ Wire(host.current, host.awaiting, host.sent, host.running, host.loaded, child)
      /\ f \in Written
  BY DEF IInv, Garble, Written
<1>2. OutputOnly(child', child) /\ Grown(child', child, f)
  BY <1>0, <1>1, Replied
<1>3. Wire(host.current, host.awaiting, host.sent, host.running, host.loaded, child')
  BY <1>1, <1>2, WireGarble
<1>4. child' \in Child
  BY <1>2 DEF OutputOnly
<1>5. QED
  BY <1>3, <1>4, ChildStep DEF Garble

LEMMA GenerateStep == ASSUME IInv, Generate PROVE IInv'
<1> DEFINE m == child.slot["chat"]
           r == child.stream
           C == [child EXCEPT !.inbox = <<>>]
           x(finish) == Answer("result", r, TRUE, finish, m)
           y == Answer("error", r, FALSE, "", NoModel)
           z == Answer("chunk", r, TRUE, "", NoModel)
<1>1. /\ child \in Child /\ child.alive /\ r # 0 /\ r \in Nat
      /\ Wire(host.current, host.awaiting, host.sent, host.running, host.loaded, child)
  BY ChildFacts DEF IInv, Generate
<1>2. /\ Streaming(host.current, child) /\ r = host.current
  BY <1>1, Generating
<1>3. m \in Held /\ m = reqs[r].gguf /\ NoModel \in Held
  BY <1>1, <1>2 DEF Child, Slots, Streaming, Held
<1>4. /\ \A f \in {"cancelled", "stop"} : x(f) \in Written /\ x(f).op = "result" /\ x(f).id = r
                                          /\ x(f).model = m
      /\ y \in Written /\ y.op = "error" /\ y.id = r /\ y.ok = FALSE
      /\ z \in Written /\ z.op = "chunk"
  <2> HIDE DEF m, r
  <2>1. QED
    BY <1>1, <1>3 DEF Answer, Reports, Written
<1>5. \/ \E f \in {"cancelled", "stop"} :
           child' = [Reply(C, x(f)) EXCEPT !.stream = 0, !.said = FALSE]
      \/ child' = [Reply(C, y) EXCEPT !.stream = 0, !.said = FALSE]
      \/ child' = [Reply(C, z) EXCEPT !.said = TRUE]
  BY DEF Generate
<1>6. (\A f \in {"cancelled", "stop"} : Honest(r, x(f))) /\ Honest(r, y)
  <2> HIDE DEF x, y, m, r
  <2>1. QED
    BY <1>3, <1>4, AnswerHonest
<1>7. ASSUME NEW a \in Written, a.op \in {"result", "error"}, a.id = r, Honest(r, a),
             child' = [Reply(C, a) EXCEPT !.stream = 0, !.said = FALSE]
      PROVE  IInv'
  <2>1. /\ child' \in Child /\ child'.alive /\ child'.slot = child.slot
        /\ Len(child'.inbox) = 0 /\ child'.stream = 0 /\ Grown(child', child, a)
    <3>1. child' = Output(child, a, 0) /\ 0 \in Nat
      BY <1>7 DEF Output
    <3>2. QED
      BY <1>1, <3>1, Produced
  <2>2. Wire(host.current, host.awaiting, host.sent, host.running, host.loaded, child')
    <3>1. /\ a.op \in {"result", "error"} /\ a.id = host.current /\ Honest(host.current, a)
          /\ child.stream # 0 /\ child'.alive
      BY <1>1, <1>2, <1>7, <2>1
    <3>2. QED
      BY <1>1, <2>1, <3>1, WireEnd
  <2>3. QED
    BY <2>1, <2>2, ChildStep DEF Generate
<1>8. CASE child' = [Reply(C, z) EXCEPT !.said = TRUE]
  <2>1. /\ child' \in Child /\ child'.alive /\ child'.slot = child.slot
        /\ Len(child'.inbox) = 0 /\ child'.stream = child.stream /\ Grown(child', child, z)
    <3> DEFINE g == Reply(C, z)
    <3> HIDE DEF z
    <3>1. InputOnly(C, child)
      BY <1>1, EmptySeq, SetInput
    <3>2. OutputOnly(g, C)
      BY <1>4, <3>1, Replied DEF InputOnly
    <3>3. g \in Child /\ g.stream = r
      BY <3>1, <3>2 DEF InputOnly, OutputOnly
    <3> HIDE DEF g
    <3>4. [g EXCEPT !.said = TRUE] = [g EXCEPT !.stream = r, !.said = (r # 0)]
      BY <1>1, <3>3 DEF Child
    <3>5. child' = Output(child, z, r)
      BY <1>8, <3>4 DEF g, Output
    <3>6. z \in Written
      BY <1>4
    <3>7. QED
      BY <1>1, <3>5, <3>6, Produced
  <2>2. Wire(host.current, host.awaiting, host.sent, host.running, host.loaded, child')
    <3> HIDE DEF z, r
    <3>1. z.op = "chunk" /\ r = child.stream
      BY <1>4 DEF r
    <3>2. QED
      BY <1>1, <2>1, <3>1, WirePiece
  <2>3. QED
    BY <2>1, <2>2, ChildStep DEF Generate
<1>9. CASE child' = [Reply(C, y) EXCEPT !.stream = 0, !.said = FALSE]
  <2> HIDE DEF y, r, C
  <2>1. QED
    BY <1>4, <1>6, <1>7, <1>9
<1>10. ASSUME NEW f \in {"cancelled", "stop"},
              child' = [Reply(C, x(f)) EXCEPT !.stream = 0, !.said = FALSE]
       PROVE  IInv'
  <2> HIDE DEF x, r, C
  <2>1. QED
    BY <1>4, <1>6, <1>7, <1>10
<1>11. QED
  BY <1>5, <1>8, <1>9, <1>10


---------------------------------------------------------------------------
\* The IO worker's steps

LEMMA Sent ==
  ASSUME NEW S, Shape(S), NEW f \in Frame
  PROVE  LET T == sendFrame(S, f)
         IN  /\ Shape(T) /\ T.ended = S.ended /\ T.host = S.host
             /\ S.child.alive => Joined(T.child, S.child, f)
             /\ ~S.child.alive => T.child = S.child
<1> DEFINE T == sendFrame(S, f)
           d == [S.child EXCEPT !.inbox = Append(S.child.inbox, f)]
<1>1. S.child \in Child
  BY DEF Shape
<1>2. Joined(d, S.child, f) /\ d \in Child
  BY <1>1, NewInput DEF Joined, InputOnly
<1>3. T.ended = S.ended /\ T.host = S.host /\ T.child = IF S.child.alive THEN d ELSE S.child
  BY <1>1 DEF sendFrame, Shape, Child
<1>4. Shape(T)
  <2>1. T.child \in Child
    BY <1>1, <1>2, <1>3
  <2>2. DOMAIN T = DOMAIN S /\ T.caller = S.caller /\ T.toMain = S.toMain
    BY DEF sendFrame, Shape
  <2>3. T = [ended |-> T.ended, caller |-> T.caller, host |-> T.host, child |-> T.child,
             toMain |-> T.toMain]
    BY DEF sendFrame, Shape
  <2> HIDE DEF T
  <2>4. QED
    BY <1>3, <2>1, <2>3 DEF Shape
<1> HIDE DEF T, d
<1>5. QED
  BY <1>2, <1>3, <1>4 DEF T

\* Hosts whose beliefs and lane agree wait for the same.
SameHost(g, h) == /\ g.queue = h.queue /\ g.current = h.current /\ g.sent = h.sent
                  /\ g.awaiting = h.awaiting /\ g.loaded = h.loaded /\ g.running = h.running

LEMMA SameSound ==
  ASSUME NEW S, NEW T, NEW P, Sound(S, P), Shape(T), T.ended = S.ended, T.child = S.child,
         SameHost(T.host, S.host)
  PROVE  Sound(T, P)
  BY DEF Sound, WireOf, SameHost

\* A request is cancelled.
LEMMA CancelSound ==
  ASSUME Requests, NEW S, NEW P, Sound(S, P), NEW r \in Nat
  PROVE  Sound(cancelStream(S, r), P)
<1>1. /\ Shape(S) /\ S.host \in Host /\ S.child \in Child
      /\ Lane(S.ended, S.host.queue, S.host.current, P) /\ Told(S.ended) /\ WireOf(S)
  BY DEF Sound, Shape
<1>2. CASE S.host.current = r
  <2> DEFINE f == [op |-> "cancel", id |-> IF S.host.sent THEN r ELSE 0]
             T == sendFrame(S, f)
  <2>1. f \in Frame /\ f.op = "cancel"
    BY DEF Frame
  <2>2. cancelStream(S, r) = T
    BY <1>2 DEF cancelStream
  <2> HIDE DEF f
  <2>3. /\ Shape(T) /\ T.ended = S.ended /\ T.host = S.host
        /\ S.child.alive => Joined(T.child, S.child, f)
        /\ ~S.child.alive => T.child = S.child
    BY <1>1, <2>1, Sent
  <2> HIDE DEF T
  <2>4. WireOf(T)
    <3>1. CASE S.child.alive
      BY <1>1, <2>1, <2>3, <3>1, WireCancel DEF WireOf
    <3>2. CASE ~S.child.alive
      BY <1>1, <2>3, <3>2 DEF WireOf
    <3>3. QED
      BY <3>1, <3>2
  <2>5. Sound(T, P)
    BY <2>3, <2>4 DEF Sound
  <2>6. QED
    BY <2>2, <2>5
<1>3. CASE S.host.current # r /\ r \in ToSet(S.host.queue)
  <2> DEFINE out == Outcome(TRUE, "cancelled", NoModel)
             w == Without(S.host.queue, r)
             U == [S EXCEPT !.host.queue = w]
             T == Tell(U, r, out)
  <2>1. cancelStream(S, r) = T
    BY <1>3 DEF cancelStream
  <2>2. out \in Outcomes /\ Honest(r, out)
    BY DEF Outcome, Outcomes, Held, Honest
  <2> HIDE DEF out
  <2>3. Lane(More(S.ended, r, out), w, S.host.current, P) /\ r \in Made
    BY <1>1, <1>3, <2>2, LaneCancel
  <2>4. w \in Seq(Nat)
    <3>1. w \in Seq(Made) /\ Made \subseteq Nat
      BY <2>3, MadeFacts DEF Lane
    <3> HIDE DEF w
    <3>2. \A i \in 1..Len(w) : w[i] \in Nat
      BY <3>1, ElementOfSeq
    <3>3. QED
      BY <3>1, <3>2, SeqMonotonic
  <2> HIDE DEF w
  <2>5. /\ Shape(U) /\ U.ended = S.ended /\ U.child = S.child
        /\ U.host = [S.host EXCEPT !.queue = w]
    BY <1>1, <2>4 DEF Shape, Host
  <2> HIDE DEF U
  <2>6. /\ Shape(T) /\ T.ended = More(U.ended, r, out) /\ T.host = U.host /\ T.child = U.child
    BY <2>5, TellEffect
  <2> HIDE DEF T
  <2>7. Told(T.ended)
    <3>1. S.ended \in [Made -> Seq(Outcomes)]
      BY <1>1 DEF Lane
    <3>2. QED
      BY <1>1, <2>2, <2>3, <2>5, <2>6, <3>1, ToldEnd
  <2>8. /\ T.host.queue = w /\ T.host.current = S.host.current
        /\ T.host.awaiting = S.host.awaiting /\ T.host.sent = S.host.sent
        /\ T.host.running = S.host.running /\ T.host.loaded = S.host.loaded
    BY <1>1, <2>5, <2>6 DEF Host
  <2>9. Sound(T, P)
    BY <1>1, <2>3, <2>5, <2>6, <2>7, <2>8 DEF Sound, WireOf
  <2>10. QED
    BY <2>1, <2>9
<1>4. CASE S.host.current # r /\ r \notin ToSet(S.host.queue)
  <2>1. cancelStream(S, r) = S
    BY <1>4 DEF cancelStream
  <2>2. QED
    BY <2>1
<1>5. QED
  BY <1>2, <1>3, <1>4

\* A request joins the lane.
LEMMA SubmitSound ==
  ASSUME Requests, NEW S, NEW P, Sound(S, P), P # <<>>, Head(P).call = "submit"
  PROVE  Sound(submit(S, Head(P).id), Tail(P))
<1> DEFINE r == Head(P).id
           a == Append(S.host.queue, r)
           T == [S EXCEPT !.host.queue = a, !.host.pump = TRUE]
<1>1. /\ Shape(S) /\ S.host \in Host
      /\ Lane(S.ended, S.host.queue, S.host.current, P)
  BY DEF Sound, Shape
<1>2. Lane(S.ended, a, S.host.current, Tail(P)) /\ r \in Made
  BY <1>1, LaneSubmit
<1>3. a \in Seq(Nat)
  <2>1. S.host.queue \in Seq(Nat) /\ r \in Nat
    BY <1>1, <1>2, MadeFacts DEF Host
  <2> HIDE DEF r
  <2>2. QED
    BY <2>1, Appended
<1> HIDE DEF r
<1>4. submit(S, r) = T
  BY DEF submit
<1> HIDE DEF a
<1>5. /\ Shape(T) /\ T.ended = S.ended /\ T.child = S.child
      /\ T.host = [S.host EXCEPT !.queue = a, !.pump = TRUE]
  BY <1>1, <1>3 DEF Shape, Host
<1> HIDE DEF T
<1>6. /\ T.host.queue = a /\ T.host.current = S.host.current
      /\ T.host.awaiting = S.host.awaiting /\ T.host.sent = S.host.sent
      /\ T.host.running = S.host.running /\ T.host.loaded = S.host.loaded
  BY <1>1, <1>5 DEF Host
<1>7. Sound(T, Tail(P))
  BY <1>2, <1>5, <1>6 DEF Sound, WireOf
<1>8. QED
  BY <1>4, <1>7 DEF r


\* Everything S says of the lane, with a current request not sent yet.
Ready(S, P) == /\ Base(S, P) /\ Rest(S.host, S.child) /\ S.host.current # 0

LEMMA EndedRest ==
  ASSUME Requests, NEW S, NEW P, Ready(S, P), NEW out \in Outcomes, Honest(S.host.current, out)
  PROVE  LET T == finishCurrent(S, out)
         IN  Base(T, P) /\ T.host.current = 0 /\ Rest(T.host, T.child) /\ Sound(T, P)
<1> DEFINE T == finishCurrent(S, out)
<1>1. /\ Base(T, P) /\ T.host.current = 0 /\ SameBelief(T.host, S.host) /\ T.child = S.child
  BY FinishBase DEF Ready
<1> HIDE DEF T
<1>2. Rest(T.host, T.child)
  BY <1>1 DEF Ready, Rest, SameBelief
<1>3. Sound(T, P)
  BY <1>1, <1>2, RestSound
<1>4. QED
  BY <1>1, <1>2, <1>3 DEF T

\* The frame of the current request goes to the child, or is refused.
LEMMA DispatchSound ==
  ASSUME Requests, NEW S, NEW P, Ready(S, P), S.host.running,
         reqs[S.host.current].gguf = S.host.loaded[reqs[S.host.current].slot],
         NEW T \in dispatchCurrent(S)
  PROVE  Sound(T, P)
<1> DEFINE f == [op |-> "request", id |-> S.host.current]
           U == sendFrame(S, f)
           V == [U EXCEPT !.host.sent = TRUE, !.host.pump = FALSE]
           W == finishCurrent(S, Failed)
<1>1. T = V \/ T = [W EXCEPT !.host.pump = TRUE]
  BY DEF dispatchCurrent
<1>2. Shape(S) /\ S.host \in Host /\ S.child \in Child /\ S.host.current \in Nat
  BY DEF Ready, Base, Shape, Host
<1>3. CASE T = V
  <2>1. f \in Frame /\ f.op = "request" /\ f.id = S.host.current
    BY <1>2 DEF Frame
  <2> HIDE DEF f
  <2>2. /\ Shape(U) /\ U.ended = S.ended /\ U.host = S.host
        /\ S.child.alive => Joined(U.child, S.child, f)
        /\ ~S.child.alive => U.child = S.child
    BY <1>2, <2>1, Sent
  <2> HIDE DEF U
  <2>3. /\ Shape(V) /\ V.ended = S.ended /\ V.child = U.child
        /\ V.host = [S.host EXCEPT !.sent = TRUE, !.pump = FALSE]
    BY <1>2, <2>2 DEF Shape, Host
  <2> HIDE DEF V
  <2>4. /\ V.host.queue = S.host.queue /\ V.host.current = S.host.current
        /\ V.host.awaiting = S.host.awaiting /\ V.host.sent
        /\ V.host.running /\ V.host.loaded = S.host.loaded
    BY <1>2, <2>3 DEF Host
  <2>5. Idle(S.host.loaded, S.child) /\ ~S.host.awaiting /\ S.host.current # 0
    BY DEF Ready, Rest
  <2>6. CASE S.child.alive
    <3>1. Asked(U.child, "request", S.host.current) /\ Settled(S.host.loaded, U.child)
      BY <1>2, <2>1, <2>2, <2>5, <2>6, AskedNow
    <3>2. Serving(S.host.current, S.host.loaded, U.child) /\ U.child.alive
      BY <3>1 DEF Serving, Asked
    <3>3. WireOf(V)
      BY <2>3, <2>4, <2>5, <3>2 DEF WireOf, Wire
    <3>4. QED
      BY <1>3, <2>3, <2>4, <2>5, <3>3 DEF Sound, Ready, Base
  <2>7. CASE ~S.child.alive
    <3>1. Serving(S.host.current, S.host.loaded, S.child)
      BY <2>5, <2>7 DEF Serving, Idle, OutQuiet, OutPieces
    <3>2. Len(S.child.inbox) = 0 /\ S.child.stream = 0
      BY <2>7 DEF Ready, Rest
    <3>3. WireOf(V)
      BY <2>2, <2>3, <2>4, <2>5, <2>7, <3>1, <3>2 DEF WireOf, Wire
    <3>4. QED
      BY <1>3, <2>3, <2>4, <2>5, <3>3 DEF Sound, Ready, Base
  <2>8. QED
    BY <2>6, <2>7
<1>4. CASE T = [W EXCEPT !.host.pump = TRUE]
  <2>1. Sound(W, P)
    BY FailedHonest, EndedRest
  <2> HIDE DEF W
  <2>2. QED
    BY <1>4, <2>1, PumpSound
<1>5. QED
  BY <1>1, <1>3, <1>4

\* pumpQueue with a running process.
LEMMA SendSound ==
  ASSUME Requests, NEW S, NEW P, Ready(S, P), S.host.running, NEW T \in Send(S)
  PROVE  Sound(T, P)
<1> DEFINE r == reqs[S.host.current]
           f == [op |-> "load", id |-> S.host.current]
           U == sendFrame(S, f)
           V == [U EXCEPT !.host.awaiting = TRUE, !.host.pump = FALSE]
           W == finishCurrent(S, Failed)
<1>1. CASE r.gguf = S.host.loaded[r.slot]
  BY <1>1, DispatchSound DEF Send
<1>2. CASE r.gguf # S.host.loaded[r.slot] /\ T = [W EXCEPT !.host.pump = TRUE]
  <2>1. Sound(W, P)
    BY FailedHonest, EndedRest
  <2> HIDE DEF W
  <2>2. QED
    BY <1>2, <2>1, PumpSound
<1>3. CASE r.gguf # S.host.loaded[r.slot] /\ T = V
  <2>0. T = V
    BY <1>3
  <2>1. Shape(S) /\ S.host \in Host /\ S.child \in Child /\ S.host.current \in Nat
    BY DEF Ready, Base, Shape, Host
  <2>2. f \in Frame /\ f.op = "load" /\ f.id = S.host.current
    BY <2>1 DEF Frame
  <2> HIDE DEF f
  <2>3. /\ Shape(U) /\ U.ended = S.ended /\ U.host = S.host
        /\ S.child.alive => Joined(U.child, S.child, f)
        /\ ~S.child.alive => U.child = S.child
    BY <2>1, <2>2, Sent
  <2> HIDE DEF U
  <2>4. /\ Shape(V) /\ V.ended = S.ended /\ V.child = U.child
        /\ V.host = [S.host EXCEPT !.awaiting = TRUE, !.pump = FALSE]
    BY <2>1, <2>3 DEF Shape, Host
  <2> HIDE DEF V
  <2>5. /\ V.host.queue = S.host.queue /\ V.host.current = S.host.current
        /\ V.host.awaiting /\ V.host.running /\ V.host.loaded = S.host.loaded
    BY <2>1, <2>4 DEF Host
  <2>6. Idle(S.host.loaded, S.child) /\ S.host.current # 0
    BY DEF Ready, Rest
  <2>7. WireOf(V)
    <3>1. CASE S.child.alive
      <4>1. Asked(U.child, "load", S.host.current) /\ Settled(S.host.loaded, U.child)
        BY <2>1, <2>2, <2>3, <2>6, <3>1, AskedNow
      <4>2. Loading(S.host.current, S.host.loaded, U.child) /\ U.child.alive
        BY <4>1 DEF Loading, Asked
      <4>3. QED
        BY <2>4, <2>5, <2>6, <4>2 DEF WireOf, Wire
    <3>2. CASE ~S.child.alive
      <4>1. Loading(S.host.current, S.host.loaded, S.child)
        BY <2>6, <3>2 DEF Loading, Idle
      <4>2. Len(S.child.inbox) = 0 /\ S.child.stream = 0
        BY <3>2 DEF Ready, Rest
      <4>3. QED
        BY <2>3, <2>4, <2>5, <2>6, <3>2, <4>1, <4>2 DEF WireOf, Wire
    <3>3. QED
      BY <3>1, <3>2
  <2>8. QED
    BY <2>0, <2>4, <2>5, <2>6, <2>7 DEF Sound, Ready, Base
<1>4. r.gguf # S.host.loaded[r.slot] => T = V \/ T = [W EXCEPT !.host.pump = TRUE]
  BY DEF Send, requestLoad
<1>5. QED
  BY <1>1, <1>2, <1>3, <1>4

\* The process is there, starts, or does not.
LEMMA EnsureReady ==
  ASSUME NEW S, NEW P, Ready(S, P), NEW T \in ensureProcess(S)
  PROVE  Ready(T, P) /\ T.host.current = S.host.current
<1> DEFINE B == [S EXCEPT !.host.loaded = Empty]
           new == [NoChild EXCEPT !.alive = TRUE]
           V == [B EXCEPT !.host.failures = 0, !.host.running = TRUE, !.child = new]
           W == [B EXCEPT !.host.failures = @ + 1]
<1>1. CASE S.host.running \/ latchedUnavailable(S)
  BY <1>1 DEF ensureProcess
<1>2. CASE ~S.host.running /\ ~latchedUnavailable(S)
  <2>1. T = V \/ T = W
    BY <1>2 DEF ensureProcess
  <2>2. Shape(S) /\ S.host \in Host /\ S.child = NoChild
    BY <1>2 DEF Ready, Base, Shape, Rest
  <2>3. Empty \in [Slots -> Held]
    BY NoChildFacts
  <2>4. /\ Shape(B) /\ B.ended = S.ended /\ B.child = S.child /\ B.host \in Host
        /\ B.host = [S.host EXCEPT !.loaded = Empty]
    BY <2>2, <2>3 DEF Shape, Host
  <2>5. /\ new \in Child /\ new.alive /\ new.inbox = NoChild.inbox /\ new.stream = 0
        /\ new.outbox = NoChild.outbox /\ new.slot = NoChild.slot
    BY NoChildFacts DEF Child
  <2>6. \A ld : Idle(ld, new) /\ Idle(ld, NoChild)
    BY <2>5, NoChildFacts DEF Idle, InQuiet, OutQuiet, Settled
  <2> HIDE DEF B, new
  <2>7. CASE T = V
    <3>1. /\ Shape(V) /\ V.ended = S.ended /\ V.child = new
          /\ V.host = [B.host EXCEPT !.failures = 0, !.running = TRUE]
      BY <2>4, <2>5 DEF Shape, Host
    <3> HIDE DEF V
    <3>2. /\ V.host.queue = S.host.queue /\ V.host.current = S.host.current
          /\ V.host.awaiting = S.host.awaiting /\ V.host.running
      BY <2>2, <2>4, <3>1 DEF Host
    <3>3. Rest(V.host, V.child)
      BY <2>5, <2>6, <3>1, <3>2 DEF Rest, Ready
    <3>4. QED
      BY <2>7, <3>1, <3>2, <3>3 DEF Ready, Base
  <2>8. CASE T = W
    <3>1. B.host.failures + 1 \in Nat
      BY <2>4 DEF Host
    <3>2. /\ Shape(W) /\ W.ended = S.ended /\ W.child = NoChild
          /\ W.host = [B.host EXCEPT !.failures = B.host.failures + 1]
      BY <2>2, <2>4, <3>1 DEF Shape, Host
    <3> HIDE DEF W
    <3>3. /\ W.host.queue = S.host.queue /\ W.host.current = S.host.current
          /\ W.host.awaiting = S.host.awaiting
      BY <2>2, <2>4, <3>2 DEF Host
    <3>4. Rest(W.host, W.child)
      BY <2>6, <3>2, <3>3, NoChildFacts DEF Rest, Ready
    <3>5. QED
      BY <2>8, <3>2, <3>3, <3>4 DEF Ready, Base
  <2>9. QED
    BY <2>1, <2>7, <2>8
<1>3. QED
  BY <1>1, <1>2


\* A step of the IO worker that ends in a sound state, before the shutdown.
LEMMA WorkerStep ==
  ASSUME IInv, ~shut', NEW S, Sound(S, posts'), Become(S), UNCHANGED <<reqs, active>>
  PROVE  IInv'
<1>1. Base(S, posts') /\ WireOf(S) /\ (S.host.current = 0 => ~S.host.awaiting)
  BY DEF Sound, Base
<1>2. active' \in Nat
  BY DEF IInv
<1>3. QED
  BY <1>1, <1>2, Became, StepSound

LEMMA PumpStep == ASSUME IInv, pumpQueue PROVE IInv'
<1> DEFINE q == host.queue
           T == [Sys EXCEPT !.host.current = Head(q), !.host.sent = FALSE, !.host.queue = Tail(q)]
<1>1. Requests /\ ~shut /\ ~shut' /\ UNCHANGED <<reqs, active>> /\ posts' = posts
  BY DEF IInv, pumpQueue
<1>2. Sound(Sys, posts) /\ Sys.host = host /\ Sys.child = child /\ Sys.ended = ended
  BY <1>1, SysSound
<1>3. CASE host.current # 0 \/ q = <<>>
  <2>1. Become([Sys EXCEPT !.host.pump = FALSE])
    BY <1>3 DEF pumpQueue
  <2>2. Sound([Sys EXCEPT !.host.pump = FALSE], posts)
    BY <1>2, PumpSound
  <2>3. QED
    BY <1>1, <2>1, <2>2, WorkerStep
<1>4. CASE host.current = 0 /\ q # <<>>
  <2>1. Lane(ended, q, 0, posts) /\ host \in Host /\ Shape(Sys) /\ Told(ended)
    BY <1>2, <1>4 DEF Sound, Shape
  <2>2. Lane(ended, Tail(q), Head(q), posts) /\ Head(q) \in Made
    BY <1>4, <2>1, LaneTake
  <2>3. Head(q) \in Nat \ {0} /\ Tail(q) \in Seq(Nat)
    <3>1. q \in Seq(Nat)
      BY <2>1 DEF Host
    <3>2. QED
      BY <1>1, <1>4, <2>2, <3>1, MadeFacts, Tailed
  <2> DEFINE h == Head(q)
             t == Tail(q)
  <2> HIDE DEF h, t
  <2>4. T = [Sys EXCEPT !.host.current = h, !.host.sent = FALSE, !.host.queue = t]
    BY DEF h, t
  <2>5. h \in Nat \ {0} /\ t \in Seq(Nat)
    BY <2>3 DEF h, t
  <2>6. /\ Shape(T) /\ T.ended = ended /\ T.child = child
        /\ T.host = [host EXCEPT !.current = h, !.sent = FALSE, !.queue = t]
    <3> DEFINE Y == [Sys EXCEPT !.host.current = h, !.host.sent = FALSE, !.host.queue = t]
    <3>1. /\ Shape(Y) /\ Y.ended = ended /\ Y.child = child
          /\ Y.host = [host EXCEPT !.current = h, !.sent = FALSE, !.queue = t]
      BY <1>2, <2>1, <2>5 DEF Shape, Host
    <3> HIDE DEF Y, T
    <3>2. QED
      BY <2>4, <3>1 DEF Y
  <2>7. \E S \in ensureProcess(T) :
          IF S.host.running THEN \E U \in Send(S) : Become(U)
          ELSE Become(IF latchedUnavailable(finishCurrent(S, Failed))
                      THEN failAll(finishCurrent(S, Failed)) ELSE finishCurrent(S, Failed))
    BY <1>2, <1>4 DEF pumpQueue
  <2> HIDE DEF T
  <2>8. /\ T.host.current = h /\ T.host.queue = t /\ T.host.awaiting = host.awaiting
        /\ T.host.running = host.running /\ T.host.loaded = host.loaded
    BY <2>1, <2>6 DEF Host
  <2>9. Rest(T.host, T.child)
    BY <1>2, <1>4, <2>6, <2>8 DEF Sound, WireOf, Wire, Rest
  <2>10. Ready(T, posts)
    <3>1. Lane(T.ended, T.host.queue, T.host.current, posts)
      BY <2>2, <2>6, <2>8 DEF h, t
    <3>2. QED
      BY <2>1, <2>5, <2>6, <2>8, <2>9, <3>1 DEF Ready, Base
  <2>11. PICK S \in ensureProcess(T) :
           IF S.host.running THEN \E U \in Send(S) : Become(U)
           ELSE Become(IF latchedUnavailable(finishCurrent(S, Failed))
                       THEN failAll(finishCurrent(S, Failed)) ELSE finishCurrent(S, Failed))
    BY <2>7
  <2>12. Ready(S, posts)
    BY <2>10, EnsureReady
  <2>13. CASE S.host.running
    <3>1. PICK U \in Send(S) : Become(U)
      BY <2>11, <2>13
    <3>2. Sound(U, posts)
      BY <1>1, <2>12, <2>13, SendSound
    <3>3. QED
      BY <1>1, <3>1, <3>2, WorkerStep
  <2>14. CASE ~S.host.running
    <3> DEFINE U == finishCurrent(S, Failed)
               V == failAll(U)
    <3>1. Base(U, posts) /\ Rest(U.host, U.child) /\ Sound(U, posts)
      BY <1>1, <2>12, FailedHonest, EndedRest
    <3>2. Become(U) \/ Become(V)
      BY <2>11, <2>14
    <3> HIDE DEF U
    <3>3. Sound(V, posts)
      <4>1. /\ Base(V, posts) /\ V.host.current = 0 /\ SameBelief(V.host, U.host)
            /\ V.child = U.child
        BY <1>1, <3>1, FailAllBase
      <4> HIDE DEF V
      <4>2. Rest(V.host, V.child)
        BY <3>1, <4>1 DEF Rest, SameBelief
      <4>3. QED
        BY <4>1, <4>2, RestSound
    <3>4. QED
      BY <1>1, <3>1, <3>2, <3>3, WorkerStep
  <2>15. QED
    BY <2>13, <2>14
<1>5. QED
  BY <1>3, <1>4

LEMMA PostedStep == ASSUME IInv, Posted PROVE IInv'
<1> DEFINE p == Head(posts)
<1>1. /\ Requests /\ ~shut /\ ~shut' /\ UNCHANGED <<reqs, active>> /\ posts' = Tail(posts)
      /\ posts # <<>> /\ posts \in Seq(Post)
  BY DEF IInv, Posted, Lane
<1>2. Sound(Sys, posts)
  BY <1>1, SysSound
<1>3. p \in Post
  BY <1>1, PostsTail
<1>4. CASE p.call = "submit"
  <2>1. Become(submit(Sys, p.id))
    BY <1>4 DEF Posted
  <2>2. Sound(submit(Sys, p.id), Tail(posts))
    BY <1>1, <1>2, <1>4, SubmitSound
  <2>3. QED
    BY <1>1, <2>1, <2>2, WorkerStep
<1>5. CASE p.call = "cancel"
  <2>1. Become(cancelStream(Sys, p.id))
    BY <1>5 DEF Posted
  <2>2. Sound(Sys, Tail(posts))
    BY <1>1, <1>2, LaneHandled DEF Sound
  <2>3. p.id \in Nat
    BY <1>3 DEF Post
  <2>4. Sound(cancelStream(Sys, p.id), Tail(posts))
    BY <1>1, <2>2, <2>3, CancelSound
  <2>5. QED
    BY <1>1, <2>1, <2>4, WorkerStep
<1>6. QED
  BY <1>3, <1>4, <1>5 DEF Post

\* The process is gone: everything fails, and nothing is on its way.
LEMMA ForgetSound ==
  ASSUME Requests, NEW S, NEW P, Base(S, P)
  PROVE  Sound(Forget(S), P)
<1> DEFINE U == [S EXCEPT !.host.loaded = Empty, !.host.awaiting = FALSE,
                          !.host.running = FALSE, !.child = NoChild]
           T == failAll(U)
<1>1. Shape(S) /\ S.host \in Host /\ Empty \in [Slots -> Held] /\ NoChild \in Child
  BY NoChildFacts DEF Base, Shape
<1>2. Forget(S) = T
  BY DEF Forget
<1>3. /\ Shape(U) /\ U.ended = S.ended /\ U.child = NoChild
      /\ U.host = [S.host EXCEPT !.loaded = Empty, !.awaiting = FALSE, !.running = FALSE]
  BY <1>1 DEF Shape, Host
<1> HIDE DEF U
<1>4. /\ U.host.queue = S.host.queue /\ U.host.current = S.host.current
      /\ U.host.awaiting = FALSE /\ U.host.running = FALSE /\ U.host.loaded = Empty
  BY <1>1, <1>3 DEF Host
<1>5. Base(U, P)
  BY <1>3, <1>4 DEF Base
<1>6. /\ Base(T, P) /\ T.host.current = 0 /\ SameBelief(T.host, U.host) /\ T.child = U.child
  BY <1>5, FailAllBase
<1> HIDE DEF T
<1>7. Idle(T.host.loaded, NoChild)
  BY NoChildFacts DEF Idle, Settled
<1>8. Rest(T.host, T.child)
  BY <1>3, <1>4, <1>6, <1>7, NoChildFacts DEF Rest, SameBelief
<1>9. QED
  BY <1>2, <1>6, <1>8, RestSound

LEMMA FinishedStep == ASSUME IInv, onFinished PROVE IInv'
<1>1. /\ Requests /\ ~shut' /\ UNCHANGED <<reqs, active>> /\ posts' = posts
      /\ Become(Forget(Sys))
  BY DEF IInv, onFinished
<1>2. Sound(Forget(Sys), posts)
  BY <1>1, SysSound, ForgetSound
<1>3. QED
  BY <1>1, <1>2, WorkerStep


\* Child d is c after the host has read its first frame.
ReadBy(d, c) ==
  /\ OutputOnly(d, c) /\ 1 \in 1..Len(c.outbox) /\ Head(c.outbox) = c.outbox[1]
  /\ \A i \in 1..Len(d.outbox) : i + 1 \in 1..Len(c.outbox) /\ i + 1 > 1
                                 /\ d.outbox[i] = c.outbox[i + 1]
  /\ \A i \in 1..Len(c.outbox) : i # 1 => i - 1 \in 1..Len(d.outbox)
                                          /\ d.outbox[i - 1] = c.outbox[i]

\* What the host believes to be loaded once frame f has answered r's load.
Learned(ld, r, f) == IF f.ok THEN [ld EXCEPT ![reqs[r].slot] = reqs[r].gguf] ELSE ld

\* A skipped frame was nothing to wait for.
LEMMA WireSkip ==
  ASSUME NEW cur, NEW aw, NEW sent, NEW run, NEW ld, NEW c \in Child, NEW d, run,
         Wire(cur, aw, sent, run, ld, c), ReadBy(d, c), Head(c.outbox).op = "malformed"
  PROVE  Wire(cur, aw, sent, run, ld, d)
<1>1. d.slot = c.slot /\ d.inbox = c.inbox /\ d.stream = c.stream /\ (d.alive <=> c.alive)
  BY DEF ReadBy, OutputOnly
<1>2. /\ OutQuiet(c) => OutQuiet(d)
      /\ OutPieces(c) => OutPieces(d)
  BY DEF OutQuiet, OutPieces, ReadBy
<1>3. /\ InQuiet(c) => InQuiet(d)
      /\ Settled(ld, c) => Settled(ld, d)
      /\ \A op, id : Asked(c, op, id) => Asked(d, op, id)
  BY <1>1, <1>2 DEF InQuiet, Settled, Asked
<1>4. Idle(ld, c) => Idle(ld, d)
  BY <1>1, <1>2, <1>3 DEF Idle
<1>5. ASSUME LoadTold(cur, ld, c) PROVE LoadTold(cur, ld, d)
  <2>1. PICK i \in 1..Len(c.outbox) :
          /\ c.outbox[i].op \in {"load_result", "error"}
          /\ c.slot[reqs[cur].slot] \in IF c.outbox[i].ok THEN {reqs[cur].gguf}
                                        ELSE {ld[reqs[cur].slot], NoModel}
          /\ \A j \in 1..Len(c.outbox) : j # i => c.outbox[j].op \in {"unreadable", "malformed"}
    BY <1>5 DEF LoadTold
  <2>2. i - 1 \in 1..Len(d.outbox) /\ d.outbox[i - 1] = c.outbox[i]
    BY <2>1 DEF ReadBy
  <2>3. ASSUME NEW j \in 1..Len(d.outbox), j # i - 1
        PROVE  d.outbox[j].op \in {"unreadable", "malformed"}
    <3>1. /\ j + 1 \in 1..Len(c.outbox) /\ d.outbox[j] = c.outbox[j + 1] /\ j + 1 # i
      BY <2>3 DEF ReadBy
    <3>2. QED
      BY <2>1, <3>1
  <2>4. QED
    BY <1>1, <1>3, <1>5, <2>1, <2>2, <2>3 DEF LoadTold
<1>6. ASSUME Answered(cur, c) PROVE Answered(cur, d)
  <2>1. PICK i \in 1..Len(c.outbox) :
          /\ c.outbox[i].op \in {"result", "error"} /\ c.outbox[i].id = cur
          /\ Honest(cur, c.outbox[i])
          /\ \A j \in 1..Len(c.outbox) :
               j # i => c.outbox[j].op \in {"unreadable", "malformed", "chunk"}
          /\ \A j \in 1..Len(c.outbox) : j > i => c.outbox[j].op \in {"unreadable", "malformed"}
    BY <1>6 DEF Answered
  <2>2. i - 1 \in 1..Len(d.outbox) /\ d.outbox[i - 1] = c.outbox[i]
    BY <2>1 DEF ReadBy
  <2>3. ASSUME NEW j \in 1..Len(d.outbox)
        PROVE  /\ j # i - 1 => d.outbox[j].op \in {"unreadable", "malformed", "chunk"}
               /\ j > i - 1 => d.outbox[j].op \in {"unreadable", "malformed"}
    <3>1. /\ j + 1 \in 1..Len(c.outbox) /\ d.outbox[j] = c.outbox[j + 1]
          /\ j # i - 1 => j + 1 # i
          /\ j > i - 1 => j + 1 > i
      BY DEF ReadBy
    <3>2. QED
      BY <2>1, <3>1
  <2>4. QED
    BY <1>1, <1>3, <1>6, <2>1, <2>2, <2>3 DEF Answered
<1>7. Loading(cur, ld, c) => Loading(cur, ld, d)
  BY <1>1, <1>2, <1>3, <1>5 DEF Loading
<1>8. Streaming(cur, c) => Streaming(cur, d)
  BY <1>1, <1>2, <1>3 DEF Streaming
<1>9. Serving(cur, ld, c) => Serving(cur, ld, d)
  BY <1>1, <1>2, <1>3, <1>6, <1>8 DEF Serving
<1>10. QED
  BY <1>1, <1>4, <1>7, <1>9 DEF Wire

\* The answer to a load is the first readable frame; the slot is as it says.
LEMMA WireLoaded ==
  ASSUME NEW cur, NEW ld \in [Slots -> Held], NEW c \in Child, NEW d, Loading(cur, ld, c),
         ~c.alive => Len(c.inbox) = 0 /\ c.stream = 0, ReadBy(d, c),
         Head(c.outbox).op \notin {"unreadable", "malformed"}, reqs[cur].slot \in Slots
  PROVE  /\ ~d.alive => Len(d.inbox) = 0 /\ d.stream = 0
         /\ Idle(Learned(ld, cur, Head(c.outbox)), d)
<1> DEFINE f == Head(c.outbox)
           slot == reqs[cur].slot
           new == Learned(ld, cur, f)
<1>1. d.slot = c.slot /\ d.inbox = c.inbox /\ d.stream = c.stream /\ (d.alive <=> c.alive)
  BY DEF ReadBy, OutputOnly
<1>2. ~OutQuiet(c)
  BY DEF ReadBy, OutQuiet
<1>3. LoadTold(cur, ld, c)
  BY <1>2 DEF Loading, Asked
<1>4. PICK i \in 1..Len(c.outbox) :
        /\ c.slot[slot] \in IF c.outbox[i].ok THEN {reqs[cur].gguf} ELSE {ld[slot], NoModel}
        /\ \A j \in 1..Len(c.outbox) : j # i => c.outbox[j].op \in {"unreadable", "malformed"}
  BY <1>3 DEF LoadTold
<1>5. i = 1
  BY <1>4 DEF ReadBy
<1>6. OutQuiet(d)
  <2> SUFFICES ASSUME NEW j \in 1..Len(d.outbox)
      PROVE  d.outbox[j].op \in {"unreadable", "malformed"}
    BY DEF OutQuiet
  <2>1. j + 1 \in 1..Len(c.outbox) /\ d.outbox[j] = c.outbox[j + 1] /\ j + 1 # 1
    BY DEF ReadBy
  <2>2. QED
    BY <1>4, <1>5, <2>1
<1>7. /\ c.slot[slot] \in IF f.ok THEN {reqs[cur].gguf} ELSE {ld[slot], NoModel}
      /\ \A s \in Slots \ {slot} : c.slot[s] \in {ld[s], NoModel}
  BY <1>3, <1>4, <1>5 DEF LoadTold, ReadBy
<1>8. \A s \in Slots : new[s] = IF f.ok /\ s = slot THEN reqs[cur].gguf ELSE ld[s]
  BY DEF Learned
<1> HIDE DEF new
<1>9. Settled(new, d)
  BY <1>1, <1>7, <1>8 DEF Settled
<1>10. InQuiet(d) /\ d.stream = 0
  BY <1>1, <1>3 DEF LoadTold, InQuiet
<1>11. Idle(new, d)
  BY <1>6, <1>9, <1>10 DEF Idle
<1>12. ~d.alive => Len(d.inbox) = 0 /\ d.stream = 0
  BY <1>1
<1>13. QED
  BY <1>11, <1>12 DEF new

\* While an answer is awaited the child's frames are pieces of the text or
\* that answer, after which nothing is left.
LEMMA WireFrame ==
  ASSUME NEW cur, NEW sent, NEW run, NEW ld, NEW c \in Child, NEW d,
         Wire(cur, FALSE, sent, run, ld, c), ReadBy(d, c),
         Head(c.outbox).op \notin {"unreadable", "malformed"}
  PROVE  /\ cur # 0 /\ run /\ sent
         /\ \/ Head(c.outbox).op = "chunk" /\ Wire(cur, FALSE, sent, run, ld, d)
            \/ /\ Head(c.outbox).op \in {"result", "error"} /\ Head(c.outbox).id = cur
               /\ Honest(cur, Head(c.outbox)) /\ Idle(ld, d)
               /\ ~d.alive => Len(d.inbox) = 0 /\ d.stream = 0
<1> DEFINE f == Head(c.outbox)
<1>1. d.slot = c.slot /\ d.inbox = c.inbox /\ d.stream = c.stream /\ (d.alive <=> c.alive)
  BY DEF ReadBy, OutputOnly
<1>2. ~OutQuiet(c)
  BY DEF ReadBy, OutQuiet
<1>3. cur # 0 /\ Serving(cur, ld, c) /\ run /\ sent
      /\ (~d.alive => Len(d.inbox) = 0 /\ d.stream = 0)
  BY <1>1, <1>2 DEF Wire, Idle
<1>4. OutPieces(c) => OutPieces(d) /\ f.op = "chunk"
  BY DEF OutPieces, ReadBy
<1>5. /\ InQuiet(c) => InQuiet(d)
      /\ Settled(ld, c) => Settled(ld, d)
  BY <1>1 DEF InQuiet, Settled
<1>6. ASSUME Answered(cur, c), Settled(ld, c)
      PROVE  \/ f.op = "chunk" /\ Answered(cur, d)
             \/ f.op \in {"result", "error"} /\ f.id = cur /\ Honest(cur, f) /\ Idle(ld, d)
  <2>1. PICK i \in 1..Len(c.outbox) :
          /\ c.outbox[i].op \in {"result", "error"} /\ c.outbox[i].id = cur
          /\ Honest(cur, c.outbox[i])
          /\ \A j \in 1..Len(c.outbox) :
               j # i => c.outbox[j].op \in {"unreadable", "malformed", "chunk"}
          /\ \A j \in 1..Len(c.outbox) : j > i => c.outbox[j].op \in {"unreadable", "malformed"}
    BY <1>6 DEF Answered
  <2>2. InQuiet(d) /\ d.stream = 0
    BY <1>1, <1>5, <1>6 DEF Answered
  <2>3. CASE i = 1
    <3>1. OutQuiet(d)
      <4>1. \A j \in 1..Len(d.outbox) : d.outbox[j].op \in {"unreadable", "malformed"}
        BY <2>1, <2>3 DEF ReadBy
      <4>2. QED
        BY <4>1 DEF OutQuiet
    <3>2. QED
      BY <1>5, <1>6, <2>1, <2>2, <2>3, <3>1 DEF Idle, ReadBy
  <2>4. CASE i # 1
    <3>1. i - 1 \in 1..Len(d.outbox) /\ d.outbox[i - 1] = c.outbox[i] /\ f.op = "chunk"
      BY <2>1, <2>4 DEF ReadBy
    <3>2. ASSUME NEW j \in 1..Len(d.outbox)
          PROVE  /\ j # i - 1 => d.outbox[j].op \in {"unreadable", "malformed", "chunk"}
                 /\ j > i - 1 => d.outbox[j].op \in {"unreadable", "malformed"}
      <4>1. /\ j + 1 \in 1..Len(c.outbox) /\ d.outbox[j] = c.outbox[j + 1]
            /\ j # i - 1 => j + 1 # i
            /\ j > i - 1 => j + 1 > i
        BY DEF ReadBy
      <4>2. QED
        BY <2>1, <4>1
    <3>3. QED
      BY <2>1, <2>2, <3>1, <3>2 DEF Answered
  <2>5. QED
    BY <2>3, <2>4
<1>7. Streaming(cur, c) => Streaming(cur, d) /\ f.op = "chunk"
  BY <1>1, <1>4, <1>5 DEF Streaming
<1>8. \/ f.op = "chunk" /\ Serving(cur, ld, d)
      \/ f.op \in {"result", "error"} /\ f.id = cur /\ Honest(cur, f) /\ Idle(ld, d)
  <2>1. CASE ~c.alive /\ OutPieces(c)
    BY <1>1, <1>3, <1>4, <2>1 DEF Serving
  <2>2. CASE Settled(ld, c) /\ Streaming(cur, c)
    BY <1>3, <1>5, <1>7, <2>2 DEF Serving
  <2>3. CASE Settled(ld, c) /\ Answered(cur, c)
    BY <1>3, <1>5, <1>6, <2>3 DEF Serving
  <2>4. QED
    BY <1>2, <1>3, <2>1, <2>2, <2>3 DEF Serving, Asked
<1>9. QED
  BY <1>3, <1>8 DEF Wire


\* The load is answered: the request goes on, or fails.
LEMMA LoadAnsweredSound ==
  ASSUME Requests, NEW S, NEW P, Base(S, P), S.host.current # 0, S.host.running, NEW frame,
         ~S.child.alive => Len(S.child.inbox) = 0 /\ S.child.stream = 0,
         Idle(Learned(S.host.loaded, S.host.current, frame), S.child),
         NEW T \in LoadAnswered(S, frame)
  PROVE  Sound(T, P)
<1> DEFINE cur == S.host.current
           slot == reqs[cur].slot
           gguf == reqs[cur].gguf
           A == [S EXCEPT !.host.awaiting = FALSE]
           B == [A EXCEPT !.host.loaded[slot] = gguf]
<1>1. Shape(S) /\ S.host \in Host /\ S.child \in Child /\ cur \in Made
  BY DEF Base, Shape, Lane
<1>2. slot \in Slots /\ gguf \in Held
  <2>1. reqs[cur] \in Request
    BY <1>1, MadeFacts, ElementOfSeq DEF Requests
  <2>2. QED
    BY <2>1 DEF Request, Held
<1>3. /\ Shape(A) /\ A.ended = S.ended /\ A.child = S.child
      /\ A.host = [S.host EXCEPT !.awaiting = FALSE]
  BY <1>1 DEF Shape, Host
<1>4. T \in IF frame.ok THEN dispatchCurrent(B)
            ELSE {[finishCurrent(A, Failed) EXCEPT !.host.pump = TRUE]}
  BY DEF LoadAnswered
<1> HIDE DEF A
<1>5. /\ A.host \in Host /\ A.host.queue = S.host.queue /\ A.host.current = S.host.current
      /\ A.host.awaiting = FALSE /\ A.host.running /\ A.host.loaded = S.host.loaded
  BY <1>1, <1>3 DEF Host
<1>6. CASE frame.ok
  <2> HIDE DEF slot, gguf
  <2> DEFINE ld == [S.host.loaded EXCEPT ![slot] = gguf]
  <2>1. ld \in [Slots -> Held] /\ ld[slot] = gguf
    BY <1>1, <1>2 DEF Host
  <2>2. /\ Shape(B) /\ B.ended = A.ended /\ B.child = A.child
        /\ B.host = [A.host EXCEPT !.loaded = ld]
    BY <1>3, <1>5, <2>1 DEF Shape, Host
  <2>3. Idle(ld, S.child)
    BY <1>6 DEF slot, gguf, Learned
  <2> HIDE DEF B, ld
  <2>4. /\ B.host.queue = S.host.queue /\ B.host.current = cur
        /\ B.host.awaiting = FALSE /\ B.host.running /\ B.host.loaded = ld
    BY <1>5, <2>2 DEF Host
  <2>5. Ready(B, P)
    <3>1. Base(B, P)
      BY <1>3, <2>2, <2>4 DEF Base
    <3>2. Rest(B.host, B.child)
      BY <1>3, <2>2, <2>3, <2>4 DEF Rest
    <3>3. QED
      BY <2>4, <3>1, <3>2 DEF Ready
  <2>6. reqs[B.host.current].gguf = B.host.loaded[reqs[B.host.current].slot]
    BY <2>1, <2>4 DEF slot, gguf
  <2>7. QED
    BY <1>4, <1>6, <2>4, <2>5, <2>6, DispatchSound
<1>7. CASE ~frame.ok
  <2>1. Ready(A, P)
    <3>1. Base(A, P)
      BY <1>3, <1>5 DEF Base
    <3>2. Idle(S.host.loaded, S.child)
      BY <1>7 DEF Learned
    <3>3. Rest(A.host, A.child)
      BY <1>3, <1>5, <3>2 DEF Rest
    <3>4. QED
      BY <1>5, <3>1, <3>3 DEF Ready
  <2> DEFINE U == finishCurrent(A, Failed)
  <2>2. Sound(U, P)
    BY <2>1, FailedHonest, EndedRest
  <2>3. T = [U EXCEPT !.host.pump = TRUE]
    BY <1>4, <1>7
  <2> HIDE DEF U
  <2>4. QED
    BY <2>2, <2>3, PumpSound
<1>8. QED
  BY <1>6, <1>7

LEMMA StdoutStep == ASSUME IInv, onStdout PROVE IInv'
<1> DEFINE frame == Head(child.outbox)
           d == [child EXCEPT !.outbox = Tail(child.outbox)]
           S == [Sys EXCEPT !.child.outbox = Tail(child.outbox)]
<1>1. /\ Requests /\ ~shut /\ ~shut' /\ UNCHANGED <<reqs, active>> /\ posts' = posts
      /\ child \in Child /\ child.outbox # <<>> /\ host \in Host /\ host.running
  BY DEF IInv, onStdout
<1>2. /\ Sound(Sys, posts) /\ Base(Sys, posts) /\ Sys.host = host /\ Sys.child = child
      /\ Sys.ended = ended
  BY <1>1, SysSound
<1>3. ReadBy(d, child) /\ d \in Child /\ frame \in Written
  BY <1>1, ReadOutput DEF ReadBy, OutputOnly
<1>4. IF frame.op = "unreadable" THEN Become(Forget(failAll(S)))
      ELSE IF frame.op = "malformed" THEN Become(S)
      ELSE \E T \in onFrame(S, frame) : Become(T)
  BY <1>2 DEF onStdout
<1>5. /\ Shape(S) /\ S.ended = ended /\ S.host = host /\ S.child = d
  <2>1. S = [Sys EXCEPT !.child = d]
    BY <1>2 DEF Sys
  <2>2. Shape(Sys)
    BY <1>2 DEF Base
  <2> HIDE DEF d, S
  <2>3. QED
    BY <1>2, <1>3, <2>1, <2>2 DEF Shape
<1> HIDE DEF S, d
<1>6. Base(S, posts)
  BY <1>2, <1>5 DEF Base
<1>7. CASE frame.op = "unreadable"
  <2>1. Base(failAll(S), posts)
    BY <1>1, <1>6, FailAllBase
  <2>2. Sound(Forget(failAll(S)), posts)
    BY <1>1, <2>1, ForgetSound
  <2>3. QED
    BY <1>1, <1>4, <1>7, <2>2, WorkerStep
<1>8. CASE frame.op = "malformed"
  <2>1. /\ Wire(host.current, host.awaiting, host.sent, host.running, host.loaded, child)
        /\ host.current = 0 => ~host.awaiting
    BY <1>2 DEF Sound, WireOf
  <2>2. Wire(host.current, host.awaiting, host.sent, host.running, host.loaded, d)
    BY <1>1, <1>3, <1>8, <2>1, WireSkip
  <2>3. Sound(S, posts)
    BY <1>5, <1>6, <2>1, <2>2 DEF Sound, Base, WireOf
  <2>4. Become(S)
    BY <1>4, <1>8
  <2>5. QED
    BY <1>1, <2>3, <2>4, WorkerStep
<1>9. CASE frame.op \notin {"unreadable", "malformed"}
  <2>1. PICK T \in onFrame(S, frame) : Become(T)
    BY <1>4, <1>9
  <2>2. /\ Wire(host.current, host.awaiting, host.sent, host.running, host.loaded, child)
        /\ host.current = 0 => ~host.awaiting
        /\ host.current \in Made \cup {0} /\ host.loaded \in [Slots -> Held]
        /\ host.awaiting \in BOOLEAN
    BY <1>1, <1>2 DEF Sound, WireOf, Lane, Host
  <2>3. CASE host.awaiting
    <3>1. host.current # 0 /\ host.current \in Made /\ host.awaiting = TRUE
      BY <2>2, <2>3
    <3>2. reqs[host.current].slot \in Slots
      <4>1. reqs[host.current] \in Request
        BY <1>1, <3>1, MadeFacts, ElementOfSeq DEF Requests
      <4>2. QED
        BY <4>1 DEF Request
    <3>3. Head(child.outbox).op \notin {"unreadable", "malformed"}
      BY <1>9
    <3>4. /\ ~d.alive => Len(d.inbox) = 0 /\ d.stream = 0
          /\ Idle(Learned(host.loaded, host.current, frame), d)
      <4>1. /\ child \in Child /\ ReadBy(d, child) /\ host.loaded \in [Slots -> Held]
            /\ Loading(host.current, host.loaded, child)
            /\ ~child.alive => Len(child.inbox) = 0 /\ child.stream = 0
        BY <1>1, <1>3, <2>2, <2>3, <3>1 DEF Wire
      <4>2. /\ ~d.alive => Len(d.inbox) = 0 /\ d.stream = 0
            /\ Idle(Learned(host.loaded, host.current, Head(child.outbox)), d)
        BY <3>2, <3>3, <4>1, WireLoaded
      <4>3. QED
        BY <4>2
    <3>5. T \in LoadAnswered(S, frame)
      BY <1>5, <2>1, <2>3 DEF onFrame
    <3>6. Sound(T, posts)
      <4> HIDE DEF frame
      <4>1. QED
        BY <1>1, <1>5, <1>6, <3>1, <3>4, <3>5, LoadAnsweredSound
    <3>7. QED
      BY <1>1, <2>1, <3>6, WorkerStep
  <2>4. CASE ~host.awaiting
    <3>1. Wire(host.current, FALSE, host.sent, host.running, host.loaded, child)
      BY <2>2, <2>4
    <3>2. /\ host.current # 0 /\ host.sent
          /\ \/ /\ frame.op = "chunk"
                /\ Wire(host.current, FALSE, host.sent, host.running, host.loaded, d)
             \/ /\ frame.op \in {"result", "error"} /\ frame.id = host.current
                /\ Honest(host.current, frame) /\ Idle(host.loaded, d)
                /\ ~d.alive => Len(d.inbox) = 0 /\ d.stream = 0
      BY <1>1, <1>3, <1>9, <3>1, WireFrame
    <3>3. CASE /\ frame.op = "chunk"
               /\ Wire(host.current, FALSE, host.sent, host.running, host.loaded, d)
      <4> DEFINE U == [S EXCEPT !.toMain = Append(@, [kind |-> "chunk", id |-> frame.id])]
      <4>1. T = S \/ T = U
        BY <1>5, <2>1, <2>4, <3>2, <3>3 DEF onFrame
      <4>2. Sound(S, posts)
        BY <1>5, <1>6, <2>2, <2>4, <3>2, <3>3 DEF Sound, Base, WireOf
      <4>3. Shape(U) /\ U.ended = S.ended /\ U.host = S.host /\ U.child = S.child
        BY <1>5 DEF Shape
      <4> HIDE DEF U
      <4>4. Sound(U, posts)
        BY <4>2, <4>3, SameSound DEF SameHost
      <4>5. QED
        BY <1>1, <2>1, <4>1, <4>2, <4>4, WorkerStep
    <3>4. CASE /\ frame.op \in {"result", "error"} /\ frame.id = host.current
               /\ Honest(host.current, frame) /\ Idle(host.loaded, d)
               /\ ~d.alive => Len(d.inbox) = 0 /\ d.stream = 0
      <4> DEFINE out == Outcome(frame.ok, frame.finish, frame.model)
                 U == finishCurrent(S, out)
      <4>1. T = [U EXCEPT !.host.pump = TRUE]
        BY <1>5, <2>1, <2>4, <3>2, <3>4 DEF onFrame
      <4>2. frame \in Reports
        BY <1>3, <3>4 DEF Written, Noise
      <4> HIDE DEF frame
      <4>3. out \in Outcomes
        BY <4>2 DEF Outcome, Outcomes, Reports
      <4>4. Honest(host.current, out)
        BY <3>4 DEF Honest, Outcome
      <4> HIDE DEF out
      <4>5. Ready(S, posts)
        <5>1. Rest(S.host, S.child)
          BY <1>1, <1>5, <2>4, <3>4 DEF Rest
        <5>2. QED
          BY <1>5, <1>6, <3>2, <5>1 DEF Ready
      <4>6. Sound(U, posts)
        BY <1>1, <1>5, <4>3, <4>4, <4>5, EndedRest
      <4> HIDE DEF U
      <4>7. Sound(T, posts)
        BY <4>1, <4>6, PumpSound
      <4>8. QED
        BY <1>1, <2>1, <4>7, WorkerStep
    <3>5. QED
      BY <3>2, <3>3, <3>4
  <2>5. QED
    BY <2>3, <2>4
<1>10. QED
  BY <1>7, <1>8, <1>9


\* The destructor.
LEMMA ShutdownStep == ASSUME IInv, Shutdown PROVE IInv'
<1> DEFINE U == failAll(Sys)
           T == [U EXCEPT !.host.running = FALSE, !.child = NoChild, !.toMain = <<>>]
<1>1. /\ Requests /\ shut' /\ UNCHANGED <<reqs, active>> /\ posts' = posts /\ Become(T)
      /\ ~host.pump /\ active' \in Nat
  BY DEF IInv, Shutdown
<1>2. /\ Base(U, posts) /\ U.host.current = 0 /\ SameBelief(U.host, Sys.host)
  BY <1>1, SysSound, FailAllBase
<1> HIDE DEF U
<1>3. ~U.host.pump
  BY <1>1, <1>2, SysSound DEF SameBelief
<1>4. /\ Shape(T) /\ T.ended = U.ended /\ T.child = NoChild /\ U.host \in Host
      /\ T.host = [U.host EXCEPT !.running = FALSE]
  BY <1>2, NoChildFacts DEF Base, Shape, Host
<1> HIDE DEF T
<1>5. /\ T.host.queue = U.host.queue /\ T.host.current = 0 /\ T.host.running = FALSE
      /\ ~T.host.pump
  BY <1>2, <1>3, <1>4 DEF Host
<1>6. Base(T, posts)
  BY <1>2, <1>4, <1>5 DEF Base
<1>7. WireOf(T)
  <2>1. Idle(T.host.loaded, NoChild)
    BY NoChildFacts DEF Idle, Settled
  <2>2. QED
    BY <1>4, <1>5, <2>1, NoChildFacts DEF WireOf, Wire
<1>8. QED
  BY <1>1, <1>5, <1>6, <1>7, Became, StepSound

LEMMA OverrideStep == ASSUME IInv, OverrideBinary PROVE IInv'
<1> DEFINE T == setBinaryOverride(Sys)
<1>1. ~shut /\ ~shut' /\ UNCHANGED <<reqs, active>> /\ posts' = posts /\ Become(T)
  BY DEF OverrideBinary
<1>2. Sound(Sys, posts)
  BY <1>1, SysSound
<1>3. /\ Shape(T) /\ T.ended = Sys.ended /\ T.child = Sys.child /\ Sys.host \in Host
      /\ T.host = [Sys.host EXCEPT !.failures = 0]
  BY <1>2 DEF setBinaryOverride, Sound, Shape, Host
<1> HIDE DEF T
<1>4. SameHost(T.host, Sys.host)
  BY <1>3 DEF Host, SameHost
<1>5. Sound(T, posts)
  BY <1>2, <1>3, <1>4, SameSound
<1>6. QED
  BY <1>1, <1>5, WorkerStep

\* Steps of the callers that leave the lane and the child alone.
LEMMA QuietStep ==
  ASSUME IInv, UNCHANGED <<reqs, ended, host, child, shut>>, active' \in Nat,
         Lane(ended, host.queue, host.current, posts')
  PROVE  IInv'
<1>1. /\ Base(Sys, posts) /\ WireOf(Sys)
      /\ Sys.ended = ended /\ Sys.host = host /\ Sys.child = child
  BY SysSound
<1>2. Base(Sys, posts')
  BY <1>1 DEF Base
<1>3. QED
  BY <1>1, <1>2, StepSound DEF IInv

LEMMA CallerStep == ASSUME IInv, TimeOut \/ Deliver \/ cancelRequest PROVE IInv'
<1>1. CASE TimeOut
  BY <1>1, QuietStep DEF TimeOut, IInv
<1>2. CASE Deliver
  <2>1. UNCHANGED <<reqs, ended, posts, host, child, shut>> /\ active' \in Nat
    BY <1>2 DEF Deliver, IInv
  <2>2. QED
    BY <2>1, QuietStep DEF IInv
<1>3. CASE cancelRequest
  <2>1. /\ UNCHANGED <<reqs, ended, host, child, shut, active>>
        /\ posts' = Append(posts, [call |-> "cancel", id |-> active])
        /\ active \in Nat /\ Lane(ended, host.queue, host.current, posts)
    BY <1>3 DEF cancelRequest, IInv
  <2>2. Lane(ended, host.queue, host.current, posts')
    BY <2>1, LanePost
  <2>3. QED
    BY <2>1, <2>2, QuietStep
<1>4. QED
  BY <1>1, <1>2, <1>3

\* A request is made.
LEMMA RequestStep ==
  ASSUME IInv, NEW op \in {"stream", "call", "warm"}, NEW slot \in Slots, NEW gguf \in Models,
         op = "stream" => slot = "chat", NewRequest(op, slot, gguf),
         NEW P, Lane(ended, host.queue, host.current, P), posts' = Append(P, Submit),
         UNCHANGED <<host, child, shut>>, active' \in Nat
  PROVE  IInv'
<1>1. Requests /\ host' = host
  BY DEF IInv
<1>2. /\ Requests' /\ Lane(ended, host.queue, host.current, posts)'
      /\ Made' = Made \cup {Len(reqs) + 1} /\ Len(reqs) \in Nat
      /\ \A r \in Made : reqs'[r] = reqs[r] /\ ended'[r] = ended[r]
      /\ Len(ended'[Len(reqs) + 1]) = 0
  BY <1>1, LaneNew
<1>3. Told(ended)'
  <2> SUFFICES ASSUME NEW r \in Made', NEW i \in 1..Len(ended'[r]) PROVE Honest(r, ended[r][i])'
    BY DEF Told
  <2>1. r \in Made
    BY <1>2
  <2>2. reqs'[r] = reqs[r] /\ ended'[r] = ended[r] /\ Honest(r, ended[r][i])
    BY <1>2, <2>1 DEF IInv, Told
  <2>3. QED
    BY <2>2 DEF Honest
<1> DEFINE r == host.current
           ld == host.loaded
           c == child
<1>4. r # 0 => reqs'[r] = reqs[r]
  BY <1>2 DEF IInv, Lane
<1>5. r # 0 /\ Loading(r, ld, c) => Loading(host.current, host.loaded, child)'
  BY <1>4 DEF Loading, Asked, LoadTold, Settled, InQuiet, OutQuiet
<1>6. r # 0 /\ Serving(r, ld, c) => Serving(host.current, host.loaded, child)'
  <2>1. r # 0 /\ Answered(r, c) => Answered(host.current, child)'
    BY <1>4 DEF Answered, InQuiet, Honest
  <2>2. Asked(c, "request", r) => Asked(child, "request", host.current)'
    BY DEF Asked, OutQuiet
  <2>3. r # 0 /\ Streaming(r, c) => Streaming(host.current, child)'
    BY <1>4 DEF Streaming, InQuiet, OutPieces
  <2>4. /\ Settled(ld, c) => Settled(host.loaded, child)'
        /\ OutPieces(c) => OutPieces(child)'
    BY DEF Settled, OutPieces
  <2>5. QED
    BY <1>4, <2>1, <2>2, <2>3, <2>4 DEF Serving
<1>7. Idle(ld, c) => Idle(host.loaded, child)'
  BY DEF Idle, InQuiet, OutQuiet, Settled
<1>8. Wire(host.current, host.awaiting, host.sent, host.running, host.loaded, child)'
  BY <1>5, <1>6, <1>7 DEF IInv, Wire
<1>9. QED
  BY <1>2, <1>3, <1>8 DEF IInv

LEMMA NewStep ==
  ASSUME IInv, NEW gguf \in Models,
         \/ sendRequest(gguf)
         \/ \E op \in {"call", "warm"}, slot \in CallSlots : Block(op, slot, gguf)
  PROVE  IInv'
<1>1. /\ Lane(ended, host.queue, host.current, posts) /\ active \in Nat /\ Len(reqs) + 1 \in Nat
  BY LenProperties DEF IInv, Requests
<1>2. CASE sendRequest(gguf)
  <2>1. /\ NewRequest("stream", "chat", gguf) /\ UNCHANGED <<host, child, shut>> /\ active' \in Nat
        /\ "chat" \in Slots
    BY <1>1, <1>2 DEF sendRequest, Slots
  <2>2. CASE active = 0
    <3>1. posts' = Append(posts, Submit)
      BY <1>2, <2>2 DEF sendRequest
    <3>2. QED
      BY <1>1, <2>1, <3>1, RequestStep
  <2>3. CASE active # 0
    <3> DEFINE Q == Append(posts, [call |-> "cancel", id |-> active])
    <3>1. posts' = Append(Q, Submit)
      BY <1>2, <2>3 DEF sendRequest
    <3>2. Lane(ended, host.queue, host.current, Q)
      BY <1>1, LanePost
    <3> HIDE DEF Q
    <3>3. QED
      BY <2>1, <3>1, <3>2, RequestStep
  <2>4. QED
    BY <2>2, <2>3
<1>3. ASSUME NEW op \in {"call", "warm"}, NEW slot \in CallSlots, Block(op, slot, gguf)
      PROVE  IInv'
  <2>1. /\ NewRequest(op, slot, gguf) /\ UNCHANGED <<host, child, shut, active>>
        /\ posts' = Append(posts, Submit) /\ slot \in Slots /\ active' \in Nat
        /\ op \in {"stream", "call", "warm"} /\ op # "stream"
    BY <1>1, <1>3 DEF Block, Slots
  <2>2. QED
    BY <1>1, <2>1, RequestStep
<1>4. QED
  BY <1>2, <1>3

---------------------------------------------------------------------------
\* Theorems

\* Every step of the worker, the child, the callers and the faults keeps the
\* lane and the wire in order.
THEOREM Inductive == Spec => []IInv
<1>1. Init => IInv
  <2> SUFFICES ASSUME Init PROVE IInv
    OBVIOUS
  <2> DEFINE e == <<>>
  <2>1. /\ e \in Seq(Request) /\ e \in Seq(Nat) /\ e \in Seq(Post) /\ Len(e) = 0 /\ DOMAIN e = {}
    BY EmptySeq, LenProperties
  <2>2. /\ reqs = e /\ ended = e /\ posts = e /\ child = NoChild /\ active = 0 /\ shut = FALSE
        /\ host = [queue |-> e, current |-> 0, sent |-> FALSE, awaiting |-> FALSE,
                   loaded |-> Empty, failures |-> 0, running |-> FALSE, pump |-> FALSE]
    BY DEF Init
  <2>3. Made = {} /\ e \in Seq(Made)
    BY <2>1, <2>2, EmptySeq DEF Made
  <2>4. e \in [{} -> Seq(Outcomes)]
    BY <2>1
  <2> HIDE DEF e
  <2>5. /\ host \in Host /\ host.queue = e /\ host.current = 0 /\ ~host.awaiting
        /\ host.loaded = Empty /\ ~host.running /\ ~host.pump
    BY <2>1, <2>2, NoChildFacts DEF Host
  <2>6. Requests
    BY <2>1, <2>2, <2>3 DEF Requests
  <2>7. Lane(ended, host.queue, host.current, posts)
    BY <2>1, <2>2, <2>3, <2>4, <2>5 DEF Lane
  <2>8. Told(ended)
    BY <2>3 DEF Told
  <2>9. Wire(host.current, host.awaiting, host.sent, host.running, host.loaded, child)
    BY <2>2, <2>5, NoChildFacts DEF Wire, Idle, Settled
  <2>10. QED
    BY <2>2, <2>5, <2>6, <2>7, <2>8, <2>9, NoChildFacts DEF IInv
<1>2. IInv /\ [Next]_vars => IInv'
  <2> SUFFICES ASSUME IInv, [Next]_vars PROVE IInv'
    OBVIOUS
  <2>1. CASE Worker
    BY <2>1, PumpStep, PostedStep, StdoutStep, FinishedStep DEF Worker
  <2>2. CASE Process
    BY <2>2, DispatchStep, GenerateStep DEF Process
  <2>3. CASE Faults
    BY <2>3, CrashStep, GarbleStep, CallerStep DEF Faults
  <2>4. CASE OverrideBinary \/ Shutdown
    BY <2>4, OverrideStep, ShutdownStep
  <2>5. CASE cancelRequest \/ Deliver
    BY <2>5, CallerStep
  <2>6. ASSUME NEW gguf \in Models,
               \/ sendRequest(gguf)
               \/ \E op \in {"call", "warm"}, slot \in CallSlots : Block(op, slot, gguf)
        PROVE  IInv'
    BY <2>6, NewStep
  <2>7. CASE UNCHANGED vars
    BY <2>7, QuietStep DEF vars, IInv
  <2>8. QED
    BY <2>1, <2>2, <2>3, <2>4, <2>5, <2>6, <2>7 DEF Next
<1>3. QED
  BY <1>1, <1>2, PTL DEF Spec

\* inference-sidecar-host.h:170,241: whatever crashes, fails to start, is
\* cancelled or is shut down, no caller is answered twice, and a request that
\* was answered is neither current nor waiting.
THEOREM NoneAnsweredTwice == Spec => []EndsOnce
<1>1. IInv => EndsOnce
  <2> SUFFICES ASSUME IInv PROVE EndsOnce
    OBVIOUS
  <2>1. Lane(ended, host.queue, host.current, posts) /\ Len(<<>>) = 0
    BY EmptySeq DEF IInv
  <2>2. ASSUME NEW r \in Made, ended[r] # <<>> PROVE Len(ended[r]) # 0
    <3>1. ended[r] \in Seq(Outcomes)
      BY <2>1 DEF Lane
    <3>2. QED
      BY <2>2, <3>1, EmptySeq
  <2>3. \A r \in ToSet(host.queue) : Len(ended[r]) = 0
    <3>1. host.queue \in Seq(Made) /\ \A i \in 1..Len(host.queue) : Len(ended[host.queue[i]]) = 0
      BY <2>1 DEF Lane
    <3>2. QED
      BY <3>1, LenProperties DEF ToSet
  <2>4. ASSUME NEW r \in Made PROVE Len(ended[r]) <= 1
    <3> DEFINE n == Len(ended[r])
    <3>1. n \in {0, 1}
      BY <2>1 DEF Lane
    <3> HIDE DEF n
    <3>2. n <= 1
      BY <3>1
    <3>3. QED
      BY <3>2 DEF n
  <2>5. \A r \in Made : ended[r] # <<>> => r # host.current
    BY <2>1, <2>2, MadeFacts DEF Lane, IInv
  <2>6. QED
    BY <2>2, <2>3, <2>4, <2>5 DEF EndsOnce
<1>2. QED
  BY <1>1, Inductive, PTL

\* inference-sidecar-host.h:93-94: an answer was computed by the model that
\* the request names, across reloads, crashes and restarts of the process.
THEOREM AnsweredByOwnModel == Spec => []OwnModelAnswers
<1>1. IInv => OwnModelAnswers
  <2> SUFFICES ASSUME IInv, NEW r \in Made, NEW i \in DOMAIN ended[r]
      PROVE  Honest(r, ended[r][i])
    BY DEF OwnModelAnswers, Honest
  <2>1. ended[r] \in Seq(Outcomes) /\ Told(ended)
    BY DEF IInv, Lane
  <2>2. QED
    BY <2>1, LenProperties DEF Told
<1>2. QED
  BY <1>1, Inductive, PTL

\* The IO thread only waits for what will come: the frame is with the child,
\* its answer is on the pipe, or the child's exit has yet to be reported.
THEOREM WaitsForSomething == Spec => []InFlightIsReal
<1>1. IInv => InFlightIsReal
  <2> SUFFICES ASSUME IInv, host.current # 0
      PROVE  /\ host.running
             /\ \/ ~child.alive
                \/ child.stream = host.current
                \/ \E i \in DOMAIN child.inbox : child.inbox[i].op # "cancel"
                \/ \E i \in DOMAIN child.outbox : child.outbox[i].op \notin {"chunk", "malformed"}
    BY DEF InFlightIsReal
  <2>1. DOMAIN child.inbox = 1..Len(child.inbox) /\ DOMAIN child.outbox = 1..Len(child.outbox)
    <3>1. child.inbox \in Seq(Frame) /\ child.outbox \in Seq(Written)
      BY ChildFacts DEF IInv
    <3>2. QED
      BY <3>1, LenProperties
  <2>2. /\ host.running
        /\ Loading(host.current, host.loaded, child) \/ Serving(host.current, host.loaded, child)
    BY DEF IInv, Wire
  <2>3. QED
    BY <2>1, <2>2 DEF Loading, Serving, Asked, LoadTold, Streaming, Answered
<1>2. QED
  BY <1>1, Inductive, PTL
=============================================================================
