--------------------------- MODULE ClientRpcProofs ---------------------------
(***************************************************************************)
(* A call to a paired client ends once and is performed at most once, for  *)
(* every finite set of calls and any number of connections and sessions.   *)
(***************************************************************************)
EXTENDS ClientRpc, FiniteSetTheorems, SequenceTheorems, WellFoundedInduction, TLAPS

---------------------------------------------------------------------------
\* The inductive invariant

In(q) == {q[i] : i \in 1..Len(q)}
Once(q) == \A i, j \in 1..Len(q) : q[i] = q[j] => i = j

\* Where a call can be on its way to the client: the bridge's thread, a local
\* socket, a session's socket.
Places == 0..(MaxLinks + MaxSessions)
Line == [x \in Places |->
           IF x = 0 THEN inbox
           ELSE IF x <= MaxLinks THEN link[x].down ELSE session[x - MaxLinks].down]

\* A call is on its way in one place at a time.
Apart(L) == /\ L \in [Places -> Seq(Requests)]
            /\ \A x \in Places : Once(L[x])
            /\ \A x, y \in Places : x # y => In(L[x]) \cap In(L[y]) = {}

\* What is on its way was asked for and not performed yet.
Travelling == Apart(Line) /\ \A x \in Places : \A r \in In(Line[x]) :
                                performed[r] = 0 /\ caller[r] # "idle"

\* What the bridge has yet to send or waits for has not ended.
Waiting == /\ \A r \in In(inbox) \cup peer.pending : outcome[r].n = 0 /\ caller[r] # "idle"
           /\ In(inbox) \cap peer.pending = {}

\* Nothing ends twice or is performed twice, and what nobody asked for neither
\* ended nor was performed.
EndsOnce == \A r \in Requests :
              /\ outcome[r].n \in {0, 1} /\ performed[r] \in {0, 1}
              /\ caller[r] = "idle" => outcome[r].n = 0 /\ performed[r] = 0

\* An answer says that the call was performed only if it was.
Honest(q) == \A m \in In(q) : m.k = "ok" => performed[m.r] = 1
Answers == /\ \A l \in Links : Honest(link[l].up)
           /\ \A s \in Sessions : Honest(session[s].up)

Bound(s) == session[s].st = "open" /\ session[s].bound
Replaced == /\ \A s, t \in Sessions : Bound(s) /\ Bound(t) => s = t
            /\ \A s \in Sessions : /\ session[s].st = "closing" => session[s].pending = {}
                                   /\ session[s].st = "none" => ~session[s].bound

IInv == TypeOK /\ Travelling /\ Waiting /\ EndsOnce /\ Answers /\ Replaced

---------------------------------------------------------------------------
\* Sequences as lines of calls

LEMMA TailLine ==
  ASSUME NEW S, NEW q \in Seq(S), q # <<>>
  PROVE  /\ Tail(q) \in Seq(S) /\ Head(q) \in S /\ Head(q) \in In(q)
         /\ In(Tail(q)) \subseteq In(q)
         /\ Once(q) => Once(Tail(q)) /\ Head(q) \notin In(Tail(q))
<1>1. /\ Len(q) \in Nat \ {0} /\ Tail(q) \in Seq(S) /\ Head(q) = q[1] /\ Len(Tail(q)) = Len(q) - 1
      /\ \A i \in 1..(Len(q) - 1) : Tail(q)[i] = q[i + 1]
      /\ \A i \in 1..Len(q) : q[i] \in S
  BY EmptySeq, HeadTailProperties, LenProperties, ElementOfSeq
<1>2. 1 \in 1..Len(q) /\ \A i \in 1..(Len(q) - 1) : i + 1 \in 1..Len(q) /\ i + 1 # 1
  BY <1>1
<1>3. Head(q) \in S /\ Head(q) \in In(q) /\ In(Tail(q)) \subseteq In(q)
  BY <1>1, <1>2 DEF In
<1>4. ASSUME Once(q) PROVE Once(Tail(q)) /\ Head(q) \notin In(Tail(q))
  <2>1. Head(q) \notin In(Tail(q))
    BY <1>1, <1>2, <1>4 DEF In, Once
  <2>2. ASSUME NEW i \in 1..(Len(q) - 1), NEW j \in 1..(Len(q) - 1), Tail(q)[i] = Tail(q)[j]
        PROVE  i = j
    <3>1. i + 1 = j + 1
      BY <1>1, <1>2, <1>4, <2>2 DEF Once
    <3>2. QED
      BY <1>1, <3>1
  <2>3. QED
    BY <1>1, <2>1, <2>2 DEF Once
<1>5. QED
  BY <1>1, <1>3, <1>4

LEMMA AppendLine ==
  ASSUME NEW S, NEW q \in Seq(S), NEW e \in S
  PROVE  /\ Append(q, e) \in Seq(S) /\ In(Append(q, e)) = In(q) \cup {e}
         /\ Once(q) /\ e \notin In(q) => Once(Append(q, e))
<1>1. /\ Len(q) \in Nat /\ Append(q, e) \in Seq(S) /\ Len(Append(q, e)) = Len(q) + 1
      /\ \A i \in 1..Len(q) : Append(q, e)[i] = q[i]
      /\ Append(q, e)[Len(q) + 1] = e
  BY AppendProperties, LenProperties
<1> DEFINE r == Append(q, e)
<1> HIDE DEF r
<1>2. \A i \in 1..Len(r) : i \in 1..Len(q) \/ i = Len(q) + 1
  BY <1>1 DEF r
<1>3. \A i \in 1..Len(q) : i \in 1..Len(r) /\ r[i] = q[i]
  BY <1>1 DEF r
<1>4. Len(q) + 1 \in 1..Len(r) /\ r[Len(q) + 1] = e
  BY <1>1 DEF r
<1>5. In(r) = In(q) \cup {e}
  BY <1>2, <1>3, <1>4 DEF In
<1>6. Once(q) /\ e \notin In(q) => Once(r)
  BY <1>2, <1>3, <1>4 DEF In, Once
<1>7. QED
  BY <1>1, <1>5, <1>6 DEF r

LEMMA EmptyLine == In(<<>>) = {} /\ Once(<<>>) /\ \A S : <<>> \in Seq(S)
<1>1. Len(<<>>) = 0 /\ \A S : <<>> \in Seq(S)
  BY EmptySeq
<1>2. QED
  BY <1>1 DEF In, Once

LEMMA ConcatLine ==
  ASSUME NEW S, NEW q \in Seq(S), NEW r \in Seq(S)
  PROVE  q \o r \in Seq(S) /\ In(q \o r) = In(q) \cup In(r)
<1> DEFINE c == q \o r
<1>1. /\ c \in Seq(S) /\ Len(q) \in Nat /\ Len(r) \in Nat /\ Len(c) = Len(q) + Len(r)
      /\ \A i \in 1..(Len(q) + Len(r)) : c[i] = IF i <= Len(q) THEN q[i] ELSE r[i - Len(q)]
  BY ConcatProperties, LenProperties
<1> HIDE DEF c
<1>2. In(c) \subseteq In(q) \cup In(r)
  <2>1. \A i \in 1..Len(c) : \/ i \in 1..Len(q) /\ c[i] = q[i]
                             \/ i - Len(q) \in 1..Len(r) /\ c[i] = r[i - Len(q)]
    BY <1>1
  <2>2. QED
    BY <2>1 DEF In
<1>3. In(q) \cup In(r) \subseteq In(c)
  <2>1. \A i \in 1..Len(q) : i \in 1..Len(c) /\ c[i] = q[i]
    BY <1>1
  <2>2. \A i \in 1..Len(r) : i + Len(q) \in 1..Len(c) /\ c[i + Len(q)] = r[i]
    <3> TAKE i \in 1..Len(r)
    <3> DEFINE j == i + Len(q)
    <3>1. j \in 1..(Len(q) + Len(r)) /\ ~(j <= Len(q)) /\ j - Len(q) = i
      BY <1>1
    <3> HIDE DEF j
    <3>2. j \in 1..Len(c) /\ c[j] = r[i]
      BY <1>1, <3>1
    <3>3. QED
      BY <3>2 DEF j
  <2>3. QED
    BY <2>1, <2>2 DEF In
<1>4. QED
  BY <1>1, <1>2, <1>3 DEF c

---------------------------------------------------------------------------
\* Lines of calls under way

LEMMA PlaceKinds ==
  /\ 0 \in Places /\ \A l \in Links : l \in Places /\ l # 0 /\ l <= MaxLinks
  /\ \A s \in Sessions : /\ MaxLinks + s \in Places /\ MaxLinks + s # 0
                         /\ MaxLinks + s \notin Links /\ ~(MaxLinks + s <= MaxLinks)
                         /\ (MaxLinks + s) - MaxLinks = s
  /\ \A s, t \in Sessions : MaxLinks + s = MaxLinks + t => s = t
  /\ \A x \in Places : x = 0 \/ x \in Links \/ \E s \in Sessions : x = MaxLinks + s
<1>1. MaxLinks \in Nat /\ MaxSessions \in Nat
  BY ClientRpcAssumption
<1>2. ASSUME NEW x \in Places, x # 0, x \notin Links
      PROVE  \E s \in Sessions : x = MaxLinks + s
  <2>1. x - MaxLinks \in Sessions /\ x = MaxLinks + (x - MaxLinks)
    BY <1>1, <1>2 DEF Places, Links, Sessions
  <2>2. QED
    BY <2>1
<1>3. QED
  BY <1>1, <1>2 DEF Places, Links, Sessions

LEMMA PlaceFacts ==
  /\ Line[0] = inbox /\ \A l \in Links : Line[l] = link[l].down
  /\ \A s \in Sessions : Line[MaxLinks + s] = session[s].down
  /\ DOMAIN Line = Places
  BY PlaceKinds DEF Line

LEMMA PlaceFactsPrime ==
  /\ Line'[0] = inbox' /\ \A l \in Links : Line'[l] = link'[l].down
  /\ \A s \in Sessions : Line'[MaxLinks + s] = session'[s].down
  /\ DOMAIN Line' = Places /\ Line' = [x \in Places |-> Line'[x]]
  BY PlaceKinds DEF Line

\* A line that lost calls at most.
Shorter(q, p) == q \in Seq(Requests) /\ In(q) \subseteq In(p) /\ Once(q)

LEMMA ShorterFacts ==
  ASSUME NEW q \in Seq(Requests), Once(q)
  PROVE  /\ Shorter(q, q) /\ Shorter(<<>>, q)
         /\ q # <<>> => /\ Shorter(Tail(q), q) /\ Head(q) \in Requests
                        /\ Head(q) \in In(q) /\ Head(q) \notin In(Tail(q))
<1>1. Shorter(q, q) /\ Shorter(<<>>, q)
  BY EmptyLine DEF Shorter
<1>2. ASSUME q # <<>>
      PROVE  /\ Shorter(Tail(q), q) /\ Head(q) \in Requests
             /\ Head(q) \in In(q) /\ Head(q) \notin In(Tail(q))
  BY <1>2, TailLine DEF Shorter
<1>3. QED
  BY <1>1, <1>2

\* Every line of calls has each of them once.
LEMMA LineTypes ==
  ASSUME Travelling
  PROVE  /\ inbox \in Seq(Requests) /\ Once(inbox)
         /\ \A l \in Links : link[l].down \in Seq(Requests) /\ Once(link[l].down)
         /\ \A s \in Sessions : session[s].down \in Seq(Requests) /\ Once(session[s].down)
  BY PlaceKinds, PlaceFacts DEF Travelling, Apart

\* Calls leave their lines, or are performed as they do.
LEMMA LinesShrink ==
  ASSUME Travelling, Shorter(inbox', inbox),
         \A l \in Links : Shorter(link'[l].down, link[l].down),
         \A s \in Sessions : Shorter(session'[s].down, session[s].down),
         \A r \in Requests : caller[r] # "idle" => caller'[r] # "idle",
         \A x \in Places : \A r \in In(Line'[x]) : performed'[r] = performed[r]
  PROVE  Travelling'
<1>1. \A x \in Places : Shorter(Line'[x], Line[x])
  BY PlaceKinds, PlaceFacts, PlaceFactsPrime
<1>2. DOMAIN Line' = Places /\ Line' = [x \in Places |-> Line'[x]]
  BY PlaceFactsPrime
<1>3. Line' \in [Places -> Seq(Requests)]
  BY <1>1, <1>2 DEF Shorter
<1>4. \A x, y \in Places : x # y => In(Line'[x]) \cap In(Line'[y]) = {}
  BY <1>1 DEF Shorter, Travelling, Apart
<1>5. \A x \in Places : \A r \in In(Line'[x]) : performed'[r] = 0 /\ caller'[r] # "idle"
  <2> SUFFICES ASSUME NEW x \in Places, NEW r \in In(Line'[x])
               PROVE  performed'[r] = 0 /\ caller'[r] # "idle"
    OBVIOUS
  <2>1. r \in In(Line[x])
    BY <1>1 DEF Shorter
  <2>2. r \in Requests
    <3>1. Line[x] \in Seq(Requests)
      BY DEF Travelling, Apart
    <3>2. QED
      BY <2>1, <3>1, LenProperties, ElementOfSeq DEF In
  <2>3. QED
    BY <2>1, <2>2 DEF Travelling
<1>6. QED
  BY <1>1, <1>3, <1>4, <1>5 DEF Travelling, Apart, Shorter

\* A call arrives at the end of a line.
LEMMA CallArrives ==
  ASSUME Travelling, NEW r \in Requests, NEW y \in Places,
         Line'[y] = Append(Line[y], r), r \notin In(Line[y]),
         \A x \in Places \ {y} : Shorter(Line'[x], Line[x]) /\ r \notin In(Line'[x]),
         \A q \in Requests : caller[q] # "idle" => caller'[q] # "idle",
         performed[r] = 0, caller'[r] # "idle", performed' = performed
  PROVE  Travelling'
<1>1. \A x \in Places : Line[x] \in Seq(Requests) /\ Once(Line[x])
  BY DEF Travelling, Apart
<1>2. /\ Line'[y] \in Seq(Requests) /\ Once(Line'[y]) /\ In(Line'[y]) = In(Line[y]) \cup {r}
  BY <1>1, AppendLine
<1>3. DOMAIN Line' = Places /\ Line' = [x \in Places |-> Line'[x]]
  BY PlaceFactsPrime
<1>4. \A x \in Places : Line'[x] \in Seq(Requests) /\ Once(Line'[x])
  BY <1>2 DEF Shorter
<1>5. Line' \in [Places -> Seq(Requests)]
  BY <1>3, <1>4
<1>6. \A x \in Places \ {y} : In(Line'[x]) \cap In(Line'[y]) = {}
  BY <1>2 DEF Shorter, Travelling, Apart
<1>7. \A x, z \in Places : x # z => In(Line'[x]) \cap In(Line'[z]) = {}
  <2> SUFFICES ASSUME NEW x \in Places, NEW z \in Places, x # z
               PROVE  In(Line'[x]) \cap In(Line'[z]) = {}
    OBVIOUS
  <2>1. CASE x = y \/ z = y
    BY <1>6, <2>1
  <2>2. CASE x # y /\ z # y
    <3>1. /\ In(Line'[x]) \subseteq In(Line[x]) /\ In(Line'[z]) \subseteq In(Line[z])
          /\ In(Line[x]) \cap In(Line[z]) = {}
      BY <2>2 DEF Shorter, Travelling, Apart
    <3>2. QED
      BY <3>1
  <2>3. QED
    BY <2>1, <2>2
<1>8. \A x \in Places : In(Line[x]) \subseteq Requests
  BY <1>1, LenProperties, ElementOfSeq DEF In
<1>9. \A x \in Places : \A q \in In(Line'[x]) : q = r \/ q \in In(Line[x])
  BY <1>2 DEF Shorter
<1>10. \A x \in Places : \A q \in In(Line'[x]) : performed'[q] = 0 /\ caller'[q] # "idle"
  BY <1>8, <1>9 DEF Travelling
<1>11. QED
  BY <1>4, <1>5, <1>7, <1>10 DEF Travelling, Apart

---------------------------------------------------------------------------
\* Helpers of the model

LEMMA NatMin ==
  ASSUME NEW S \in SUBSET Nat, S # {}
  PROVE  \E x \in S : \A y \in S : x <= y
<1> DEFINE R == OpToRel(<, Nat)
<1>1. PICK x \in S : \A y \in S : ~(<<y, x>> \in R)
  <2>1. IsWellFoundedOn(R, Nat)
    BY NatLessThanWellFounded
  <2> HIDE DEF R
  <2>2. QED
    BY <2>1, WFMin
<1>2. ASSUME NEW y \in S PROVE x <= y
  <2>1. x \in Nat /\ y \in Nat
    BY <1>1
  <2>2. y < x => <<y, x>> \in R
    BY <2>1 DEF OpToRel
  <2>3. ~(y < x)
    BY <1>1, <2>2
  <2>4. QED
    BY <2>1, <2>3
<1>3. QED
  BY <1>1, <1>2

\* The oldest and the newest of some sockets are among them.
LEMMA MinMaxFacts ==
  ASSUME NEW n \in Nat, NEW S \in SUBSET (1..n), S # {}
  PROVE  Min(S) \in S /\ Max(S) \in S
<1>1. Min(S) \in S
  <2>1. \E x \in S : \A y \in S : x <= y
    BY NatMin
  <2>2. QED
    BY <2>1 DEF Min
<1>2. Max(S) \in S
  <2> DEFINE T == {n - x : x \in S}
  <2>1. T \in SUBSET Nat /\ T # {}
    OBVIOUS
  <2>2. PICK t \in T : \A u \in T : t <= u
    BY <2>1, NatMin
  <2>3. PICK x \in S : t = n - x
    BY <2>2
  <2>4. \A y \in S : n - x <= n - y
    BY <2>2, <2>3
  <2>5. \A y \in S : x >= y
    BY <2>4
  <2>6. QED
    BY <2>5 DEF Max
<1>3. QED
  BY <1>1, <1>2

LEMMA MessageFacts ==
  ASSUME NEW E \in SUBSET Requests, NEW k \in Kinds
  PROVE  /\ Messages(E, k) \in Seq(Reply)
         /\ \A m \in In(Messages(E, k)) : m.k = k /\ m.r \in E
<1> DEFINE n == Cardinality(E)
           q == SetToSeq(E)
           M == Messages(E, k)
<1>1. IsFiniteSet(E)
  BY ClientRpcAssumption, FS_Subset
<1>2. n \in Nat /\ ExistsBijection(1..n, E)
  BY <1>1, FS_CardinalityType
<1>3. \E f \in [1..n -> E] : IsInjective(f)
  BY <1>2 DEF ExistsBijection, Bijection, Injection
<1>4. q \in [1..n -> E]
  BY <1>3 DEF SetToSeq
<1>5. M = [i \in 1..n |-> [r |-> q[i], k |-> k]]
  BY DEF Messages
<1> HIDE DEF n, q, M
<1>6. \A i \in 1..n : [r |-> q[i], k |-> k] \in Reply
  BY <1>4 DEF Reply
<1>7. M \in Seq(Reply) /\ Len(M) = n
  BY <1>2, <1>5, <1>6
<1>8. ASSUME NEW m \in In(M) PROVE m.k = k /\ m.r \in E
  <2>1. PICK i \in 1..n : m = M[i]
    BY <1>7 DEF In
  <2>2. m = [r |-> q[i], k |-> k] /\ q[i] \in E
    BY <1>4, <1>5, <2>1
  <2>3. QED
    BY <2>2
<1>9. QED
  BY <1>7, <1>8 DEF M

LEMMA SentFacts ==
  ASSUME NEW c \in LinkState, NEW E \in SUBSET Requests, NEW k \in Kinds
  PROVE  LET d == Sent(c, E, k)
         IN  /\ d \in LinkState /\ d.down = c.down
             /\ \A m \in In(d.up) : m \in In(c.up) \/ (m.k = k /\ m.r \in E)
<1> DEFINE M == Messages(E, k)
           u == c.up \o M
<1>1. M \in Seq(Reply) /\ \A m \in In(M) : m.k = k /\ m.r \in E
  BY MessageFacts
<1>2. c.up \in Seq(Reply)
  BY DEF LinkState
<1>3. u \in Seq(Reply) /\ In(u) = In(c.up) \cup In(M)
  BY <1>1, <1>2, ConcatLine
<1>4. Sent(c, E, k) = IF c.host = "closed" THEN c ELSE [c EXCEPT !.up = u]
  BY DEF Sent
<1> HIDE DEF M, u
<1>5. [c EXCEPT !.up = u] \in LinkState /\ [c EXCEPT !.up = u].up = u
      /\ [c EXCEPT !.up = u].down = c.down
  BY <1>3 DEF LinkState
<1>6. QED
  BY <1>1, <1>3, <1>4, <1>5

\* Replies of the daemon travel up whichever connection it has.
LEMMA ReplySent ==
  ASSUME TypeOK, Answers, NEW E \in SUBSET Requests, NEW k \in Kinds,
         k = "ok" => \A q \in E : performed[q] = 1, sendClientRpcReply(E, k)
  PROVE  /\ link' \in [Links -> LinkState]
         /\ \A l \in Links : link'[l].down = link[l].down /\ Honest(link'[l].up)
<1>1. link \in [Links -> LinkState] /\ daemon.link \in {0} \cup Links
  BY DEF TypeOK
<1>2. CASE daemon.link = 0
  BY <1>1, <1>2 DEF sendClientRpcReply, Answers
<1>3. CASE daemon.link # 0
  <2> DEFINE d == Sent(link[daemon.link], E, k)
  <2>1. link' = [link EXCEPT ![daemon.link] = d] /\ daemon.link \in Links
    BY <1>1, <1>3 DEF sendClientRpcReply
  <2>2. link[daemon.link] \in LinkState
    BY <1>1, <2>1
  <2>3. /\ d \in LinkState /\ d.down = link[daemon.link].down
        /\ \A m \in In(d.up) : m \in In(link[daemon.link].up) \/ (m.k = k /\ m.r \in E)
    BY <2>2, SentFacts
  <2> HIDE DEF d
  <2>4. Honest(d.up)
    BY <2>1, <2>3 DEF Honest, Answers
  <2>5. /\ link' \in [Links -> LinkState] /\ link'[daemon.link] = d
        /\ \A l \in Links \ {daemon.link} : link'[l] = link[l]
    BY <1>1, <2>1, <2>3
  <2>6. QED
    BY <2>3, <2>4, <2>5 DEF Answers
<1>4. QED
  BY <1>2, <1>3

---------------------------------------------------------------------------
\* Callbacks

Asked(r) == outcome[r].n = 0 /\ caller[r] # "idle"
CallStep == Call!Next \/ UNCHANGED Call!vars
status == [r \in Requests |-> StatusOf(r)]

\* The callbacks of calls that are under way fire: with a refusal, or, of one
\* that was performed, with its answer.
LEMMA FireStep ==
  ASSUME TypeOK, EndsOnce, NEW E \in SUBSET Requests, \A r \in E : Asked(r),
         NEW k \in Kinds, k = "ok" => \E r \in E : E = {r} /\ performed[r] = 1,
         Fire(E, k), caller' = caller, performed' = performed
  PROVE  /\ outcome' \in [Requests -> [n : Nat, k : {"none"} \cup Kinds]]
         /\ EndsOnce' /\ \A r \in Requests \ E : outcome'[r] = outcome[r]
         /\ CallStep
<1>1. outcome \in [Requests -> [n : Nat, k : {"none"} \cup Kinds]]
  BY DEF TypeOK
<1>2. outcome' = [r \in Requests |-> IF r \in E THEN [n |-> outcome[r].n + 1, k |-> k]
                                     ELSE outcome[r]]
  BY DEF Fire
<1>3. \A r \in E : outcome'[r] = [n |-> 1, k |-> k]
  BY <1>2 DEF Asked
<1>4. \A r \in Requests \ E : outcome'[r] = outcome[r]
  BY <1>2
<1>5. outcome' \in [Requests -> [n : Nat, k : {"none"} \cup Kinds]]
  BY <1>1, <1>2
<1>6. EndsOnce'
  BY <1>3, <1>4 DEF EndsOnce, Asked
<1> DEFINE F == {r \in E : caller[r] = "waiting"}
<1>7. \A r \in F : /\ status[r] = "asked"
                   /\ status'[r] = IF k = "ok" THEN "answered" ELSE "refused"
  <2> SUFFICES ASSUME NEW r \in F
               PROVE  /\ status[r] = "asked"
                      /\ status'[r] = IF k = "ok" THEN "answered" ELSE "refused"
    OBVIOUS
  <2>1. caller[r] = "waiting" /\ outcome[r].n = 0
    BY DEF Asked
  <2>2. caller'[r] = "waiting" /\ outcome'[r].n = 1 /\ outcome'[r].k = k
    BY <1>3, <2>1
  <2>3. StatusOf(r) = "asked"
    BY <2>1 DEF StatusOf
  <2>4. StatusOf(r)' = IF k = "ok" THEN "answered" ELSE "refused"
    BY <2>2 DEF StatusOf
  <2>5. QED
    BY <2>3, <2>4 DEF status
<1>8. \A r \in Requests \ F : status'[r] = status[r]
  <2> SUFFICES ASSUME NEW r \in Requests \ F PROVE StatusOf(r)' = StatusOf(r)
    BY DEF status
  <2>1. CASE r \notin E
    BY <1>4, <2>1 DEF StatusOf
  <2>2. CASE r \in E
    <3>1. caller[r] = "gaveUp" /\ caller'[r] = "gaveUp" /\ outcome[r].n = 0
      BY <2>2 DEF Asked, TypeOK
    <3>2. outcome'[r].n = 1
      BY <1>3, <2>2
    <3>3. QED
      BY <3>1, <3>2 DEF StatusOf
  <2>3. QED
    BY <2>1, <2>2
<1>9. status' = [r \in Requests |-> status'[r]]
  BY DEF status
<1> HIDE DEF status
<1>10. CASE k # "ok"
  <2>1. status' = [r \in Requests |-> IF r \in F THEN "refused" ELSE status[r]]
    BY <1>7, <1>8, <1>9, <1>10
  <2>2. Call!Refuse(F) /\ F \in SUBSET Requests
    BY <1>7, <2>1 DEF Call!Refuse, status
  <2>3. QED
    BY <1>4, <1>5, <1>6, <2>2 DEF CallStep, Call!Next
<1>11. CASE k = "ok"
  <2>1. PICK r \in E : E = {r} /\ performed[r] = 1
    BY <1>11
  <2>2. CASE r \notin F
    <3>1. status' = status
      <4>1. status = [q \in Requests |-> status[q]]
        BY DEF status
      <4>2. F = {}
        BY <2>1, <2>2
      <4>3. QED
        BY <1>8, <1>9, <4>1, <4>2
    <3>2. QED
      BY <1>4, <1>5, <1>6, <3>1 DEF CallStep, Call!vars, status
  <2>3. CASE r \in F
    <3>1. status' = [status EXCEPT ![r] = "answered"] /\ status[r] = "asked" /\ r \in Requests
      <4>1. status = [q \in Requests |-> status[q]]
        BY DEF status
      <4>2. F = {r}
        BY <2>1, <2>3
      <4>3. QED
        BY <1>7, <1>8, <1>9, <1>11, <2>1, <2>3, <4>1, <4>2
    <3>2. Call!Answer(r)
      BY <2>1, <3>1 DEF Call!Answer, status
    <3>3. QED
      BY <1>4, <1>5, <1>6, <3>1, <3>2 DEF CallStep, Call!Next
  <2>4. QED
    BY <2>2, <2>3
<1>12. QED
  BY <1>10, <1>11

\* What leaves callers and outcomes alone is invisible to the caller.
LEMMA NoCallback ==
  ASSUME EndsOnce, caller' = caller, outcome' = outcome, performed' = performed
  PROVE  EndsOnce' /\ CallStep
<1>1. EndsOnce'
  BY DEF EndsOnce
<1>2. status' = status
  BY DEF status, StatusOf
<1>3. QED
  BY <1>1, <1>2 DEF CallStep, Call!vars, status


PeerState == [st : {"new", "running", "stopped"}, socket : {0} \cup Links,
              pending : SUBSET Requests]
DaemonState == [up : BOOLEAN, link : {0} \cup Links, retry : BOOLEAN]

LEMMA Types ==
  ASSUME IInv
  PROVE  /\ peer \in PeerState /\ daemon \in DaemonState /\ link \in [Links -> LinkState]
         /\ session \in [Sessions -> SessionState] /\ inbox \in Seq(Requests)
         /\ peer.socket \in {0} \cup Links /\ peer.pending \in SUBSET Requests
         /\ daemon.link \in {0} \cup Links
         /\ \A l \in Links : Shorter(link[l].down, link[l].down)
         /\ \A s \in Sessions : Shorter(session[s].down, session[s].down)
         /\ Shorter(inbox, inbox)
<1>1. /\ peer \in PeerState /\ daemon \in DaemonState /\ link \in [Links -> LinkState]
      /\ session \in [Sessions -> SessionState] /\ inbox \in Seq(Requests)
  BY DEF IInv, TypeOK, PeerState, DaemonState
<1>2. /\ peer.socket \in {0} \cup Links /\ peer.pending \in SUBSET Requests
      /\ daemon.link \in {0} \cup Links
  BY <1>1 DEF PeerState, DaemonState
<1>3. Travelling
  BY DEF IInv
<1>4. /\ \A l \in Links : Shorter(link[l].down, link[l].down)
      /\ \A s \in Sessions : Shorter(session[s].down, session[s].down)
      /\ Shorter(inbox, inbox)
  BY <1>3, LineTypes, ShorterFacts
<1>5. QED
  BY <1>1, <1>2, <1>4

\* A step of the bridge's thread: callbacks fire, their calls are forgotten,
\* and calls leave their lines at most.
LEMMA BridgeStep ==
  ASSUME IInv, NEW E \in SUBSET Requests, \A r \in E : Asked(r),
         NEW k \in Kinds, k = "ok" => \E r \in E : E = {r} /\ performed[r] = 1,
         Fire(E, k), UNCHANGED <<caller, daemon, session, performed>>,
         peer' \in PeerState, peer'.pending \subseteq peer.pending \ E,
         Shorter(inbox', inbox), In(inbox') \cap E = {},
         link' \in [Links -> LinkState],
         \A l \in Links : Shorter(link'[l].down, link[l].down) /\ Honest(link'[l].up)
  PROVE  IInv' /\ CallStep
<1>1. TypeOK /\ Travelling /\ Waiting /\ EndsOnce /\ Answers /\ Replaced
  BY DEF IInv
<1>2. /\ outcome' \in [Requests -> [n : Nat, k : {"none"} \cup Kinds]]
      /\ EndsOnce' /\ \A r \in Requests \ E : outcome'[r] = outcome[r]
      /\ CallStep
  BY <1>1, FireStep
<1>3. TypeOK'
  BY <1>1, <1>2 DEF TypeOK, PeerState, Shorter
<1>4. Travelling'
  <2>1. \A s \in Sessions : Shorter(session'[s].down, session[s].down)
    BY Types
  <2>2. QED
    BY <1>1, <2>1, LinesShrink
<1>5. Waiting'
  <2>1. In(inbox') \subseteq In(inbox) \ E /\ peer'.pending \subseteq peer.pending \ E
    BY DEF Shorter
  <2>2. In(inbox) \subseteq Requests /\ peer.pending \subseteq Requests
    BY Types, LenProperties, ElementOfSeq DEF In
  <2>3. QED
    BY <1>1, <1>2, <2>1, <2>2 DEF Waiting
<1>6. Answers'
  BY <1>1 DEF Answers, Honest
<1>7. Replaced'
  BY <1>1 DEF Replaced, Bound
<1>8. QED
  BY <1>2, <1>3, <1>4, <1>5, <1>6, <1>7 DEF IInv

\* A step of the daemon: no callback fires and calls leave their lines at most.
LEMMA DaemonStep ==
  ASSUME IInv, UNCHANGED <<caller, outcome, inbox, peer, performed>>,
         daemon' \in DaemonState, link' \in [Links -> LinkState],
         session' \in [Sessions -> SessionState],
         \A l \in Links : Shorter(link'[l].down, link[l].down) /\ Honest(link'[l].up),
         \A s \in Sessions : Shorter(session'[s].down, session[s].down) /\ Honest(session'[s].up),
         Replaced'
  PROVE  IInv' /\ CallStep
<1>1. TypeOK /\ Travelling /\ Waiting /\ EndsOnce /\ Answers
  BY DEF IInv
<1>2. TypeOK'
  BY <1>1 DEF TypeOK, DaemonState
<1>3. Travelling'
  <2>1. Shorter(inbox', inbox)
    BY Types
  <2>2. QED
    BY <1>1, <2>1, LinesShrink
<1>4. Waiting' /\ Answers'
  BY <1>1 DEF Waiting, Answers, Honest
<1>5. EndsOnce' /\ CallStep
  BY <1>1, NoCallback
<1>6. QED
  BY <1>2, <1>3, <1>4, <1>5 DEF IInv

---------------------------------------------------------------------------
\* The worker threads

LEMMA BlockingDispatchInv ==
  ASSUME IInv, NEW r \in Requests, blockingDispatch(r)
  PROVE  IInv' /\ CallStep
<1>1. TypeOK /\ Travelling /\ Waiting /\ EndsOnce /\ Answers /\ Replaced
  BY DEF IInv
<1>2. /\ caller[r] = "idle" /\ caller' = [caller EXCEPT ![r] = "waiting"]
      /\ inbox' = Append(inbox, r)
      /\ UNCHANGED <<outcome, peer, link, daemon, session, performed>>
  BY DEF blockingDispatch
<1>3. caller \in [Requests -> {"idle", "waiting", "gaveUp"}] /\ inbox \in Seq(Requests)
  BY <1>1 DEF TypeOK
<1>4. /\ inbox' \in Seq(Requests) /\ In(inbox') = In(inbox) \cup {r}
  BY <1>2, <1>3, AppendLine
<1>5. /\ caller' \in [Requests -> {"idle", "waiting", "gaveUp"}] /\ caller'[r] = "waiting"
      /\ \A q \in Requests \ {r} : caller'[q] = caller[q]
  BY <1>2, <1>3
<1>6. TypeOK'
  BY <1>1, <1>2, <1>4, <1>5 DEF TypeOK
<1>7. \A x \in Places : r \notin In(Line[x])
  BY <1>1, <1>2 DEF Travelling
<1>8. performed[r] = 0
  BY <1>1, <1>2 DEF EndsOnce
<1>9. Travelling'
  <2>1. Line'[0] = Append(Line[0], r)
    BY <1>2, PlaceFacts, PlaceFactsPrime
  <2>2. \A x \in Places \ {0} : Line'[x] = Line[x]
    BY <1>2, PlaceKinds, PlaceFacts, PlaceFactsPrime
  <2>3. \A x \in Places : Shorter(Line[x], Line[x])
    BY <1>1 DEF Travelling, Apart, Shorter
  <2>4. QED
    BY <1>1, <1>2, <1>5, <1>7, <1>8, <2>1, <2>2, <2>3, PlaceKinds, CallArrives
<1>10. Waiting'
  <2>1. r \notin In(inbox) /\ r \notin peer.pending /\ outcome[r].n = 0
    BY <1>1, <1>2 DEF Waiting, EndsOnce
  <2>2. In(inbox) \subseteq Requests /\ peer.pending \subseteq Requests
    BY Types, LenProperties, ElementOfSeq DEF In
  <2>3. QED
    BY <1>1, <1>2, <1>4, <1>5, <2>1, <2>2 DEF Waiting
<1>11. EndsOnce'
  BY <1>1, <1>2, <1>5 DEF EndsOnce
<1>12. Answers' /\ Replaced'
  BY <1>1, <1>2 DEF Answers, Honest, Replaced, Bound
<1>13. CallStep
  <2>1. StatusOf(r) = "idle"
    <3>1. outcome[r].n = 0
      BY <1>1, <1>2 DEF EndsOnce
    <3>2. QED
      BY <1>2, <3>1 DEF StatusOf
  <2>2. StatusOf(r)' = "asked"
    BY <1>1, <1>2, <1>5 DEF StatusOf, EndsOnce
  <2>3. \A q \in Requests \ {r} : StatusOf(q)' = StatusOf(q)
    BY <1>2, <1>5 DEF StatusOf
  <2>4. status[r] = "idle" /\ status' = [status EXCEPT ![r] = "asked"]
    BY <2>1, <2>2, <2>3 DEF status
  <2>5. Call!Ask(r)
    BY <1>2, <2>4 DEF Call!Ask, status
  <2>6. QED
    BY <2>5 DEF CallStep, Call!Next
<1>14. QED
  BY <1>6, <1>9, <1>10, <1>11, <1>12, <1>13 DEF IInv

LEMMA GiveUpInv ==
  ASSUME IInv, NEW r \in Requests, GiveUp(r)
  PROVE  IInv' /\ CallStep
<1>1. TypeOK /\ Travelling /\ Waiting /\ EndsOnce /\ Answers /\ Replaced
  BY DEF IInv
<1>2. /\ caller[r] = "waiting" /\ caller' = [caller EXCEPT ![r] = "gaveUp"]
      /\ UNCHANGED <<outcome, inbox, peer, link, daemon, session, performed>>
  BY DEF GiveUp
<1>3. caller \in [Requests -> {"idle", "waiting", "gaveUp"}]
  BY <1>1 DEF TypeOK
<1>4. /\ caller' \in [Requests -> {"idle", "waiting", "gaveUp"}]
      /\ \A q \in Requests : caller'[q] = "idle" <=> caller[q] = "idle"
  BY <1>2, <1>3
<1>5. TypeOK'
  BY <1>1, <1>2, <1>4 DEF TypeOK
<1>6. Travelling'
  <2>1. /\ \A l \in Links : Shorter(link'[l].down, link[l].down)
        /\ \A s \in Sessions : Shorter(session'[s].down, session[s].down)
        /\ Shorter(inbox', inbox)
    BY <1>2, Types
  <2>2. QED
    BY <1>1, <1>2, <1>4, <2>1, LinesShrink
<1>7. Waiting'
  <2>1. In(inbox) \subseteq Requests /\ peer.pending \subseteq Requests
    BY Types, LenProperties, ElementOfSeq DEF In
  <2>2. QED
    BY <1>1, <1>2, <1>4, <2>1 DEF Waiting
<1>8. EndsOnce' /\ Answers' /\ Replaced'
  BY <1>1, <1>2, <1>4 DEF EndsOnce, Answers, Honest, Replaced, Bound
<1>9. CallStep
  <2>1. /\ outcome[r].n = 0 /\ caller'[r] = "gaveUp"
        /\ \A q \in Requests \ {r} : caller'[q] = caller[q]
    BY <1>2, <1>3 DEF GiveUp
  <2>2. StatusOf(r) = "asked" /\ StatusOf(r)' = "refused"
    BY <1>2, <2>1 DEF StatusOf
  <2>3. \A q \in Requests \ {r} : StatusOf(q)' = StatusOf(q)
    BY <1>2, <2>1 DEF StatusOf
  <2>4. /\ \A q \in {r} : status[q] = "asked"
        /\ status' = [q \in Requests |-> IF q \in {r} THEN "refused" ELSE status[q]]
    BY <2>2, <2>3 DEF status
  <2>5. Call!Refuse({r}) /\ {r} \in SUBSET Requests
    BY <1>2, <2>4 DEF Call!Refuse, status
  <2>6. QED
    BY <2>5 DEF CallStep, Call!Next
<1>10. QED
  BY <1>5, <1>6, <1>7, <1>8, <1>9 DEF IInv

---------------------------------------------------------------------------
\* The bridge's thread

\* Nothing fires.
LEMMA FireNone ==
  ASSUME TypeOK, outcome' = outcome
  PROVE  Fire({}, "refused") /\ "refused" \in Kinds
<1>1. outcome = [r \in Requests |-> outcome[r]]
  BY DEF TypeOK
<1>2. QED
  BY <1>1 DEF Fire, Kinds, Refusals

LEMMA OnStartInv ==
  ASSUME IInv, onStart
  PROVE  IInv' /\ CallStep
<1>1. /\ peer' = [peer EXCEPT !.st = "running"]
      /\ UNCHANGED <<caller, outcome, inbox, link, daemon, session, performed>>
  BY DEF onStart
<1>2. Fire({}, "refused") /\ "refused" \in Kinds
  BY <1>1, FireNone DEF IInv
<1>3. peer' \in PeerState /\ peer'.pending \subseteq peer.pending \ {}
  BY <1>1, Types DEF PeerState
<1>4. /\ link' \in [Links -> LinkState] /\ Shorter(inbox', inbox)
      /\ \A l \in Links : Shorter(link'[l].down, link[l].down) /\ Honest(link'[l].up)
  BY <1>1, Types DEF IInv, Answers
<1>5. QED
  BY <1>1, <1>2, <1>3, <1>4, BridgeStep

LEMMA DispatchInv ==
  ASSUME IInv, dispatchClientRequestOnPeerThread
  PROVE  IInv' /\ CallStep
<1> DEFINE r == Head(inbox)
<1>1. /\ inbox # <<>> /\ inbox' = Tail(inbox)
      /\ UNCHANGED <<caller, daemon, session, performed>>
  BY DEF dispatchClientRequestOnPeerThread
<1>2. /\ Shorter(inbox', inbox) /\ r \in Requests /\ r \in In(inbox) /\ r \notin In(inbox')
  BY <1>1, Types, ShorterFacts DEF Shorter
<1>3. TypeOK /\ Travelling /\ Waiting /\ EndsOnce /\ Answers /\ Replaced
  BY DEF IInv
<1>4. Asked(r) /\ r \notin peer.pending /\ performed[r] = 0
  <2>1. Line[0] = inbox /\ 0 \in Places
    BY PlaceFacts, PlaceKinds
  <2>2. QED
    BY <1>2, <1>3, <2>1 DEF Waiting, Asked, Travelling
<1> HIDE DEF r
<1>5. ASSUME NEW k \in {"unreachable", "refused"}, Fire({r}, k), UNCHANGED <<peer, link>>
      PROVE  IInv' /\ CallStep
  <2>1. k \in Kinds /\ k # "ok"
    BY DEF Kinds, Refusals
  <2>2. peer' \in PeerState /\ peer'.pending \subseteq peer.pending \ {r}
    BY <1>4, <1>5, Types
  <2>3. /\ link' \in [Links -> LinkState]
        /\ \A l \in Links : Shorter(link'[l].down, link[l].down) /\ Honest(link'[l].up)
    BY <1>3, <1>5, Types DEF Answers
  <2>4. {r} \in SUBSET Requests /\ \A q \in {r} : Asked(q)
    BY <1>2, <1>4
  <2>5. In(inbox') \cap {r} = {}
    BY <1>2
  <2>6. QED
    BY <1>1, <1>2, <1>5, <2>1, <2>2, <2>3, <2>4, <2>5, BridgeStep
<1>6. ASSUME peer.socket # 0,
             peer' = [peer EXCEPT !.pending = @ \cup {r}],
             link' = [link EXCEPT ![peer.socket].down = Append(@, r)],
             UNCHANGED outcome
      PROVE  IInv' /\ CallStep
  <2> DEFINE l == peer.socket
             q == Append(link[l].down, r)
             c == [link[l] EXCEPT !.down = q]
  <2>1. l \in Links /\ link[l] \in LinkState
    BY <1>6, Types
  <2>2. link[l].down \in Seq(Requests) /\ r \notin In(link[l].down)
    <3>1. Line[0] = inbox /\ Line[l] = link[l].down /\ 0 \in Places /\ l \in Places /\ l # 0
      BY <1>6, <2>1, PlaceFacts, PlaceKinds
    <3>2. r \notin In(Line[l])
      BY <1>2, <1>3, <3>1 DEF Travelling, Apart
    <3>3. QED
      BY <2>1, <3>1, <3>2 DEF LinkState
  <2>3. q \in Seq(Requests)
    BY <1>2, <2>2, AppendLine
  <2>4. link' = [link EXCEPT ![l] = c]
    BY <1>6
  <2>5. c \in LinkState /\ c.down = q /\ c.up = link[l].up
    <3> HIDE DEF q
    <3>1. QED
      BY <2>1, <2>3 DEF LinkState
  <2> HIDE DEF c
  <2>6. /\ link' \in [Links -> LinkState] /\ link'[l] = c
        /\ \A m \in Links \ {l} : link'[m] = link[m]
    BY <2>1, <2>4, <2>5, Types
  <2>7. /\ peer' \in PeerState /\ peer'.pending = peer.pending \cup {r}
    BY <1>2, <1>6, Types DEF PeerState
  <2>8. TypeOK'
    BY <1>1, <1>2, <1>3, <1>6, <2>6, <2>7 DEF TypeOK, PeerState, Shorter
  <2>9. Travelling'
    <3>1. l \in Places /\ l # 0 /\ 0 \in Places
      BY <2>1, PlaceKinds
    <3>2. Line'[l] = Append(Line[l], r) /\ r \notin In(Line[l])
      BY <2>1, <2>2, <2>5, <2>6, PlaceFacts, PlaceFactsPrime
    <3>3. \A x \in Places : Shorter(Line[x], Line[x])
      BY <1>3 DEF Travelling, Apart, Shorter
    <3>4. \A x \in Places \ {0, l} : Line'[x] = Line[x]
      BY <1>1, <2>6, PlaceKinds, PlaceFacts, PlaceFactsPrime
    <3>5. \A x \in Places \ {0} : r \notin In(Line[x])
      BY <1>2, <1>3, <3>1, PlaceFacts DEF Travelling, Apart
    <3>6. Shorter(Line'[0], Line[0]) /\ r \notin In(Line'[0])
      BY <1>2, PlaceFacts, PlaceFactsPrime
    <3>7. \A x \in Places \ {l} : Shorter(Line'[x], Line[x]) /\ r \notin In(Line'[x])
      BY <3>3, <3>4, <3>5, <3>6
    <3>8. caller'[r] # "idle"
      BY <1>1, <1>4 DEF Asked
    <3>9. QED
      BY <1>1, <1>2, <1>3, <1>4, <3>1, <3>2, <3>7, <3>8, CallArrives
  <2>10. Waiting'
    BY <1>1, <1>2, <1>3, <1>4, <1>6, <2>7 DEF Waiting, Asked, Shorter
  <2>11. EndsOnce' /\ CallStep
    BY <1>1, <1>3, <1>6, NoCallback
  <2>12. Answers' /\ Replaced'
    <3>1. \A m \in Links : link'[m].up = link[m].up
      BY <2>5, <2>6
    <3>2. QED
      BY <1>1, <1>3, <3>1 DEF Answers, Honest, Replaced, Bound
  <2>13. QED
    BY <2>8, <2>9, <2>10, <2>11, <2>12 DEF IInv
<1>7. QED
  BY <1>5, <1>6 DEF dispatchClientRequestOnPeerThread, r

LEMMA ReplyInv ==
  ASSUME IInv, handleClientRpcReply
  PROVE  IInv' /\ CallStep
<1> DEFINE l == peer.socket
           m == Head(link[l].up)
           c == [link[l] EXCEPT !.up = Tail(link[l].up)]
<1>1. /\ l # 0 /\ link[l].up # <<>>
      /\ link' = [link EXCEPT ![l] = c]
      /\ UNCHANGED <<caller, inbox, daemon, session, performed>>
  BY DEF handleClientRpcReply
<1>2. l \in Links /\ link[l] \in LinkState
  BY <1>1, Types
<1>3. link[l].up \in Seq(Reply)
  BY <1>2 DEF LinkState
<1>4. /\ Tail(link[l].up) \in Seq(Reply) /\ m \in Reply /\ m \in In(link[l].up)
      /\ In(Tail(link[l].up)) \subseteq In(link[l].up)
  BY <1>1, <1>3, TailLine
<1>5. c \in LinkState /\ c.down = link[l].down /\ In(c.up) \subseteq In(link[l].up)
  BY <1>2, <1>4 DEF LinkState
<1>6. TypeOK /\ Waiting /\ Answers
  BY DEF IInv
<1>7. Honest(c.up) /\ (m.k = "ok" => performed[m.r] = 1)
  BY <1>2, <1>4, <1>5, <1>6 DEF Answers, Honest
<1> HIDE DEF c
<1>8. /\ link' \in [Links -> LinkState] /\ link'[l] = c
      /\ \A x \in Links \ {l} : link'[x] = link[x]
  BY <1>1, <1>2, <1>5, Types
<1>9. \A x \in Links : Shorter(link'[x].down, link[x].down) /\ Honest(link'[x].up)
  BY <1>5, <1>6, <1>7, <1>8, Types DEF Answers
<1>10. Shorter(inbox', inbox)
  BY <1>1, Types
<1> HIDE DEF m
<1>11. CASE m.r \in peer.pending
  <2>1. Fire({m.r}, m.k) /\ peer' = [peer EXCEPT !.pending = @ \ {m.r}]
    BY <1>11 DEF handleClientRpcReply, m
  <2>2. m.r \in Requests /\ m.k \in Kinds
    BY <1>4 DEF Reply
  <2>3. peer' \in PeerState /\ peer'.pending \subseteq peer.pending \ {m.r}
    BY <2>1, Types DEF PeerState
  <2>4. {m.r} \in SUBSET Requests /\ (\A q \in {m.r} : Asked(q)) /\ In(inbox') \cap {m.r} = {}
    BY <1>1, <1>6, <1>11, <2>2 DEF Waiting, Asked
  <2>5. m.k = "ok" => \E q \in {m.r} : {m.r} = {q} /\ performed[q] = 1
    BY <1>7
  <2>6. QED
    BY <1>1, <1>8, <1>9, <1>10, <2>1, <2>2, <2>3, <2>4, <2>5, BridgeStep
<1>12. CASE m.r \notin peer.pending
  <2>1. outcome' = outcome /\ peer' = peer
    BY <1>12 DEF handleClientRpcReply, m
  <2>2. Fire({}, "refused") /\ "refused" \in Kinds
    BY <1>6, <2>1, FireNone
  <2>3. peer' \in PeerState /\ peer'.pending \subseteq peer.pending \ {}
    BY <2>1, Types
  <2>4. QED
    BY <1>1, <1>8, <1>9, <1>10, <2>2, <2>3, BridgeStep
<1>13. QED
  BY <1>11, <1>12

\* Calls the bridge waits for have not ended.
LEMMA PendingAsked ==
  ASSUME IInv, NEW E \in SUBSET peer.pending
  PROVE  /\ E \in SUBSET Requests /\ (\A r \in E : Asked(r)) /\ In(inbox) \cap E = {}
<1>1. Waiting /\ peer.pending \subseteq Requests
  BY Types DEF IInv
<1>2. QED
  BY <1>1 DEF Waiting, Asked

LEMMA SweepInv ==
  ASSUME IInv, NEW E \in SUBSET peer.pending, sweepClientRpcTimeouts(E)
  PROVE  IInv' /\ CallStep
<1>1. /\ Fire(E, "unreachable") /\ peer' = [peer EXCEPT !.pending = @ \ E]
      /\ UNCHANGED <<caller, inbox, link, daemon, session, performed>>
  BY DEF sweepClientRpcTimeouts
<1>2. E \in SUBSET Requests /\ (\A r \in E : Asked(r)) /\ In(inbox') \cap E = {}
  BY <1>1, PendingAsked
<1>3. peer' \in PeerState /\ peer'.pending \subseteq peer.pending \ E
  BY <1>1, Types DEF PeerState
<1>4. /\ link' \in [Links -> LinkState] /\ Shorter(inbox', inbox)
      /\ \A l \in Links : Shorter(link'[l].down, link[l].down) /\ Honest(link'[l].up)
  BY <1>1, Types DEF IInv, Answers
<1>5. "unreachable" \in Kinds /\ "unreachable" # "ok"
  BY DEF Kinds, Refusals
<1>6. QED
  BY <1>1, <1>2, <1>3, <1>4, <1>5, BridgeStep

\* The bridge closes an end.
LEMMA CloseFacts ==
  ASSUME NEW c \in LinkState
  PROVE  /\ HostCloses(c) \in LinkState /\ HostCloses(c).down = c.down
         /\ Honest(HostCloses(c).up)
<1>1. <<>> \in Seq(Reply) /\ In(<<>>) = {}
  BY EmptyLine
<1>2. HostCloses(c).up = <<>> /\ HostCloses(c).down = c.down
  BY DEF HostCloses, LinkState
<1>3. HostCloses(c) \in LinkState
  BY <1>1 DEF HostCloses, LinkState
<1>4. QED
  BY <1>1, <1>2, <1>3 DEF Honest

LEMMA NewConnectionInv ==
  ASSUME IInv, onNewConnection
  PROVE  IInv' /\ CallStep
<1> DEFINE E == IF peer.socket = 0 THEN {} ELSE peer.pending
           n == Max(Backlog)
<1>1. /\ Fire(E, "refused") /\ Backlog # {}
      /\ peer' = [peer EXCEPT !.socket = n, !.pending = IF peer.socket = 0 THEN @ ELSE {}]
      /\ UNCHANGED <<caller, inbox, daemon, session, performed>>
  BY DEF onNewConnection
<1>2. n \in Links
  <2>1. Backlog \in SUBSET (1..MaxLinks) /\ MaxLinks \in Nat
    BY ClientRpcAssumption DEF Backlog, Links
  <2>2. QED
    BY <1>1, <2>1, MinMaxFacts DEF Links
<1>3. E \in SUBSET peer.pending
  OBVIOUS
<1>4. peer' \in PeerState /\ peer'.pending \subseteq peer.pending \ E
  <2> HIDE DEF n
  <2>1. QED
    BY <1>1, <1>2, Types DEF PeerState
<1>5. E \in SUBSET Requests /\ (\A r \in E : Asked(r)) /\ In(inbox') \cap E = {}
  BY <1>1, <1>3, PendingAsked
<1>6. link' = [l \in Links |->
                CASE l \in Backlog /\ l = n -> [link[l] EXCEPT !.host = "open"]
                  [] l # n /\ l \in Backlog \cup {peer.socket} -> HostCloses(link[l])
                  [] OTHER -> link[l]]
  BY DEF onNewConnection
<1> HIDE DEF n
<1>7. \A l \in Links : \/ link'[l] = [link[l] EXCEPT !.host = "open"]
                       \/ link'[l] = HostCloses(link[l])
                       \/ link'[l] = link[l]
  BY <1>6
<1>8. \A l \in Links : /\ link'[l] \in LinkState /\ link'[l].down = link[l].down
                       /\ Honest(link'[l].up)
  <2> SUFFICES ASSUME NEW l \in Links
               PROVE  /\ link'[l] \in LinkState /\ link'[l].down = link[l].down
                      /\ Honest(link'[l].up)
    OBVIOUS
  <2>1. link[l] \in LinkState /\ Honest(link[l].up)
    BY Types DEF IInv, Answers
  <2> DEFINE o == [link[l] EXCEPT !.host = "open"]
  <2>2. o \in LinkState /\ o.down = link[l].down /\ o.up = link[l].up
    BY <2>1 DEF LinkState
  <2> HIDE DEF o
  <2>3. CASE link'[l] = o
    BY <2>1, <2>2, <2>3
  <2>4. CASE link'[l] = HostCloses(link[l])
    BY <2>1, <2>4, CloseFacts
  <2>5. QED
    BY <1>7, <2>1, <2>3, <2>4 DEF o
<1>9. /\ link' \in [Links -> LinkState] /\ Shorter(inbox', inbox)
      /\ \A l \in Links : Shorter(link'[l].down, link[l].down) /\ Honest(link'[l].up)
  BY <1>1, <1>6, <1>8, Types
<1>10. "refused" \in Kinds /\ "refused" # "ok"
  BY DEF Kinds, Refusals
<1> HIDE DEF E
<1>11. QED
  BY <1>1, <1>4, <1>5, <1>9, <1>10, BridgeStep

LEMMA BridgeDisconnectedInv ==
  ASSUME IInv, bridgeDisconnected
  PROVE  IInv' /\ CallStep
<1> DEFINE E == peer.pending
<1>1. /\ Fire(E, "refused") /\ peer.socket # 0
      /\ peer' = [peer EXCEPT !.socket = 0, !.pending = {}]
      /\ link' = [link EXCEPT ![peer.socket] = HostCloses(link[peer.socket])]
      /\ UNCHANGED <<caller, inbox, daemon, session, performed>>
  BY DEF bridgeDisconnected
<1>2. E \in SUBSET Requests /\ (\A r \in E : Asked(r)) /\ In(inbox') \cap E = {}
  BY <1>1, PendingAsked
<1>3. peer' \in PeerState /\ peer'.pending \subseteq peer.pending \ E
  BY <1>1, Types DEF PeerState
<1>4. peer.socket \in Links /\ link[peer.socket] \in LinkState
  BY <1>1, Types
<1>5. /\ HostCloses(link[peer.socket]) \in LinkState
      /\ HostCloses(link[peer.socket]).down = link[peer.socket].down
      /\ Honest(HostCloses(link[peer.socket]).up)
  BY <1>4, CloseFacts
<1>6. link' \in [Links -> LinkState] /\ \A l \in Links :
         link'[l] = IF l = peer.socket THEN HostCloses(link[peer.socket]) ELSE link[l]
  BY <1>1, <1>4, <1>5, Types
<1>7. Shorter(inbox', inbox)
      /\ \A l \in Links : Shorter(link'[l].down, link[l].down) /\ Honest(link'[l].up)
  BY <1>1, <1>5, <1>6, Types DEF IInv, Answers
<1>8. "refused" \in Kinds /\ "refused" # "ok"
  BY DEF Kinds, Refusals
<1> HIDE DEF E
<1>9. QED
  BY <1>1, <1>2, <1>3, <1>6, <1>7, <1>8, BridgeStep

LEMMA OnStopInv ==
  ASSUME IInv, onStop
  PROVE  IInv' /\ CallStep
<1> DEFINE E == peer.pending
<1>1. /\ Fire(E, "refused")
      /\ peer' = [st |-> "stopped", socket |-> 0, pending |-> {}]
      /\ link' = [l \in Links |-> IF link[l].host = "none" THEN link[l] ELSE HostCloses(link[l])]
      /\ UNCHANGED <<caller, inbox, daemon, session, performed>>
  BY DEF onStop
<1>2. E \in SUBSET Requests /\ (\A r \in E : Asked(r)) /\ In(inbox') \cap E = {}
  BY <1>1, PendingAsked
<1>3. peer' \in PeerState /\ peer'.pending \subseteq peer.pending \ E
  BY <1>1 DEF PeerState
<1>4. \A l \in Links : /\ link'[l] \in LinkState /\ link'[l].down = link[l].down
                       /\ Honest(link'[l].up)
  BY <1>1, Types, CloseFacts DEF IInv, Answers
<1>5. /\ link' \in [Links -> LinkState] /\ Shorter(inbox', inbox)
      /\ \A l \in Links : Shorter(link'[l].down, link[l].down) /\ Honest(link'[l].up)
  BY <1>1, <1>4, Types
<1>6. "refused" \in Kinds /\ "refused" # "ok"
  BY DEF Kinds, Refusals
<1> HIDE DEF E
<1>7. QED
  BY <1>1, <1>2, <1>3, <1>5, <1>6, BridgeStep

---------------------------------------------------------------------------
\* The daemon's connection to the host

\* Sessions are left alone.
LEMMA ConnectionStep ==
  ASSUME IInv, UNCHANGED <<caller, outcome, inbox, peer, session, performed>>,
         daemon' \in DaemonState, link' \in [Links -> LinkState],
         \A l \in Links : Shorter(link'[l].down, link[l].down) /\ Honest(link'[l].up)
  PROVE  IInv' /\ CallStep
<1>1. /\ session' \in [Sessions -> SessionState]
      /\ \A s \in Sessions : Shorter(session'[s].down, session[s].down) /\ Honest(session'[s].up)
  BY Types DEF IInv, Answers
<1>2. Replaced'
  BY DEF IInv, Replaced, Bound
<1>3. QED
  BY <1>1, <1>2, DaemonStep

\* One connection changes: it keeps its calls or loses them, and its answers.
LEMMA OneConnectionStep ==
  ASSUME IInv, UNCHANGED <<caller, outcome, inbox, peer, session, performed>>,
         daemon' \in DaemonState, NEW l \in Links, NEW c \in LinkState,
         link' = [link EXCEPT ![l] = c], Shorter(c.down, link[l].down), Honest(c.up)
  PROVE  IInv' /\ CallStep
<1>1. link' \in [Links -> LinkState] /\ \A m \in Links : link'[m] = IF m = l THEN c ELSE link[m]
  BY Types
<1>2. \A m \in Links : Shorter(link'[m].down, link[m].down) /\ Honest(link'[m].up)
  BY <1>1, Types DEF IInv, Answers
<1>3. QED
  BY <1>1, <1>2, ConnectionStep

LEMMA ConnectInv ==
  ASSUME IInv, connectToServer, UNCHANGED <<caller, outcome, inbox, peer, session, performed>>
  PROVE  IInv' /\ CallStep
<1> DEFINE l == Min(Unopened)
           c == [link[l] EXCEPT !.host = "pending", !.remote = TRUE]
<1>1. Unopened # {} /\ daemon' = [up |-> TRUE, link |-> l, retry |-> FALSE]
  BY DEF connectToServer
<1>2. l \in Links
  <2>1. Unopened \in SUBSET (1..MaxLinks) /\ MaxLinks \in Nat
    BY ClientRpcAssumption DEF Unopened, Links
  <2>2. QED
    BY <1>1, <2>1, MinMaxFacts DEF Links
<1>3. link' = [link EXCEPT ![l] = c]
  BY <1>2, Types DEF connectToServer
<1> HIDE DEF l
<1>4. link[l] \in LinkState /\ Shorter(link[l].down, link[l].down) /\ Honest(link[l].up)
  BY <1>2, Types DEF IInv, Answers
<1>5. c \in LinkState /\ c.down = link[l].down /\ c.up = link[l].up
  BY <1>4 DEF LinkState
<1>6. daemon' \in DaemonState
  BY <1>1, <1>2 DEF DaemonState
<1> HIDE DEF c
<1>7. QED
  BY <1>2, <1>3, <1>4, <1>5, <1>6, OneConnectionStep

LEMMA StartInv ==
  ASSUME IInv, start \/ onReconnectTick
  PROVE  IInv' /\ CallStep
<1>1. UNCHANGED <<caller, outcome, inbox, peer, session, performed>>
  BY DEF start, onReconnectTick
<1>2. CASE connectToServer
  BY <1>1, <1>2, ConnectInv
<1>3. CASE daemon' = [daemon EXCEPT !.up = TRUE] /\ UNCHANGED link
  <2>1. daemon' \in DaemonState
    BY <1>3, Types DEF DaemonState
  <2>2. /\ link' \in [Links -> LinkState]
        /\ \A l \in Links : Shorter(link'[l].down, link[l].down) /\ Honest(link'[l].up)
    BY <1>3, Types DEF IInv, Answers
  <2>3. QED
    BY <1>1, <2>1, <2>2, ConnectionStep
<1>4. QED
  BY <1>2, <1>3 DEF start, onReconnectTick

LEMMA HostLostInv ==
  ASSUME IInv, hostLost
  PROVE  IInv' /\ CallStep
<1> DEFINE l == daemon.link
           c == [link[l] EXCEPT !.remote = FALSE]
<1>1. /\ l # 0 /\ daemon' = [daemon EXCEPT !.link = 0, !.retry = TRUE]
      /\ link' = [link EXCEPT ![l] = c]
      /\ UNCHANGED <<caller, outcome, inbox, peer, session, performed>>
  BY DEF hostLost
<1>2. l \in Links
  BY <1>1, Types
<1>3. link[l] \in LinkState /\ Shorter(link[l].down, link[l].down) /\ Honest(link[l].up)
  BY <1>2, Types DEF IInv, Answers
<1>4. c \in LinkState /\ c.down = link[l].down /\ c.up = link[l].up
  BY <1>3 DEF LinkState
<1>5. daemon' \in DaemonState
  BY <1>1, Types DEF DaemonState
<1> HIDE DEF c
<1>6. QED
  BY <1>1, <1>2, <1>3, <1>4, <1>5, OneConnectionStep

LEMMA DropConnectionInv ==
  ASSUME IInv, dropConnection
  PROVE  IInv' /\ CallStep
<1> DEFINE l == daemon.link
           c == [link[l] EXCEPT !.remote = FALSE, !.down = <<>>]
<1>1. /\ l # 0 /\ daemon' = [daemon EXCEPT !.link = 0, !.retry = TRUE]
      /\ UNCHANGED <<caller, outcome, inbox, peer, session, performed>>
  BY DEF dropConnection
<1>2. l \in Links
  BY <1>1, Types
<1>3. link' = [link EXCEPT ![l] = c]
  BY <1>2, Types DEF dropConnection
<1>4. link[l] \in LinkState /\ Shorter(<<>>, link[l].down) /\ Honest(link[l].up)
  BY <1>2, Types, EmptyLine DEF IInv, Answers, Shorter
<1>5. c \in LinkState /\ c.down = <<>> /\ c.up = link[l].up
  BY <1>4 DEF LinkState, Shorter
<1>6. daemon' \in DaemonState
  BY <1>1, Types DEF DaemonState
<1> HIDE DEF c
<1>7. QED
  BY <1>1, <1>2, <1>3, <1>4, <1>5, <1>6, OneConnectionStep

\* A session that is over holds nothing.
Over == [NewSession EXCEPT !.st = "gone"]

LEMMA OverFacts ==
  /\ Over \in SessionState /\ Over.st = "gone" /\ Over.down = <<>> /\ Honest(Over.up)
<1>1. (\A S : <<>> \in Seq(S)) /\ In(<<>>) = {}
  BY EmptyLine
<1>2. QED
  BY <1>1 DEF Over, NewSession, SessionState, Honest

LEMMA DaemonEndsInv ==
  ASSUME IInv, DaemonEnds
  PROVE  IInv' /\ CallStep
<1>1. /\ daemon' = [up |-> FALSE, link |-> 0, retry |-> FALSE]
      /\ link' = [l \in Links |-> IF l # daemon.link THEN link[l]
                                  ELSE [link[l] EXCEPT !.remote = FALSE, !.down = <<>>]]
      /\ session' = [s \in Sessions |-> IF session[s].st = "none" THEN session[s] ELSE Over]
      /\ UNCHANGED <<caller, outcome, inbox, peer, performed>>
  BY DEF DaemonEnds, Over
<1>2. daemon' \in DaemonState
  BY <1>1 DEF DaemonState
<1>3. \A l \in Links : /\ link'[l] \in LinkState /\ Honest(link'[l].up)
                       /\ Shorter(link'[l].down, link[l].down)
  <2> SUFFICES ASSUME NEW l \in Links
               PROVE  /\ link'[l] \in LinkState /\ Honest(link'[l].up)
                      /\ Shorter(link'[l].down, link[l].down)
    OBVIOUS
  <2> DEFINE c == [link[l] EXCEPT !.remote = FALSE, !.down = <<>>]
  <2>1. link'[l] = IF l # daemon.link THEN link[l] ELSE c
    BY <1>1
  <2>2. /\ link[l] \in LinkState /\ Shorter(<<>>, link[l].down) /\ Honest(link[l].up)
        /\ Shorter(link[l].down, link[l].down)
    BY Types, EmptyLine DEF IInv, Answers, Shorter
  <2>3. c \in LinkState /\ c.down = <<>> /\ c.up = link[l].up
    BY <2>2 DEF LinkState, Shorter
  <2> HIDE DEF c
  <2>4. QED
    BY <2>1, <2>2, <2>3
<1>4. link' \in [Links -> LinkState]
  BY <1>1, <1>3
<1>5. \A s \in Sessions : session'[s] = session[s] \/ session'[s] = Over
  BY <1>1
<1>6. \A s \in Sessions : /\ session'[s] \in SessionState /\ Honest(session'[s].up)
                          /\ Shorter(session'[s].down, session[s].down)
  BY <1>5, Types, OverFacts, EmptyLine DEF IInv, Answers, Shorter
<1>7. session' \in [Sessions -> SessionState]
  BY <1>1, <1>6
<1>8. Replaced'
  BY <1>5, OverFacts DEF IInv, Replaced, Bound
<1>9. QED
  BY <1>1, <1>2, <1>3, <1>4, <1>6, <1>7, <1>8, DaemonStep

---------------------------------------------------------------------------
\* The daemon's sessions

\* One session changes, calls leave their lines at most.
LEMMA OneSessionStep ==
  ASSUME IInv, UNCHANGED <<caller, outcome, inbox, peer, daemon, performed>>,
         link' \in [Links -> LinkState],
         \A l \in Links : link'[l].down = link[l].down /\ Honest(link'[l].up),
         NEW s \in Sessions, NEW v \in SessionState, session' = [session EXCEPT ![s] = v],
         Shorter(v.down, session[s].down), Honest(v.up),
         v.st = "open" /\ v.bound => Bound(s),
         v.st = "closing" => v.pending = {}, v.st = "none" => ~v.bound
  PROVE  IInv' /\ CallStep
<1>1. /\ session' \in [Sessions -> SessionState]
      /\ \A t \in Sessions : session'[t] = IF t = s THEN v ELSE session[t]
  BY Types
<1>2. \A t \in Sessions : Shorter(session'[t].down, session[t].down) /\ Honest(session'[t].up)
  BY <1>1, Types DEF IInv, Answers
<1>3. \A l \in Links : Shorter(link'[l].down, link[l].down) /\ Honest(link'[l].up)
  BY Types
<1>4. Replaced'
  <2>1. Replaced
    BY DEF IInv
  <2>2. \A t \in Sessions : Bound(t)' => Bound(t)
    BY <1>1 DEF Bound
  <2>3. \A t \in Sessions : /\ session'[t].st = "closing" => session'[t].pending = {}
                            /\ session'[t].st = "none" => ~session'[t].bound
    BY <1>1, <2>1 DEF Replaced
  <2>4. QED
    BY <2>1, <2>2, <2>3 DEF Replaced
<1>5. daemon' \in DaemonState
  BY Types
<1>6. QED
  BY <1>1, <1>2, <1>3, <1>4, <1>5, DaemonStep

LEMMA RefuseInv ==
  ASSUME IInv, UNCHANGED <<caller, outcome, inbox, peer, daemon, performed>>,
         daemon.link # 0, link[daemon.link].down # <<>>, NEW k \in Refusals,
         refuse(Head(link[daemon.link].down), k)
  PROVE  IInv' /\ CallStep
<1> DEFINE l == daemon.link
           r == Head(link[l].down)
           b == [link[l] EXCEPT !.down = Tail(link[l].down)]
           c == Sent(b, {r}, k)
<1>1. link' = [link EXCEPT ![l] = c] /\ session' = session
  BY DEF refuse
<1>2. l \in Links /\ link[l] \in LinkState /\ Honest(link[l].up)
  BY Types DEF IInv, Answers
<1>3. link[l].down \in Seq(Requests) /\ Once(link[l].down)
  BY <1>2, LineTypes DEF IInv
<1>4. Shorter(Tail(link[l].down), link[l].down) /\ r \in Requests
  BY <1>3, ShorterFacts
<1>5. b \in LinkState /\ b.down = Tail(link[l].down) /\ b.up = link[l].up
  BY <1>2, <1>4 DEF LinkState, Shorter
<1>6. k \in Kinds /\ k # "ok" /\ {r} \in SUBSET Requests
  BY <1>4 DEF Kinds, Refusals
<1> HIDE DEF b, r
<1>7. /\ c \in LinkState /\ c.down = b.down
      /\ \A m \in In(c.up) : m \in In(b.up) \/ (m.k = k /\ m.r \in {r})
  BY <1>5, <1>6, SentFacts
<1> HIDE DEF c
<1>8. Honest(c.up) /\ Shorter(c.down, link[l].down)
  BY <1>2, <1>4, <1>5, <1>6, <1>7 DEF Honest
<1>9. daemon' \in DaemonState
  BY Types
<1>10. QED
  BY <1>1, <1>2, <1>7, <1>8, <1>9, OneConnectionStep

LEMMA Update ==
  ASSUME NEW D, NEW R, NEW f \in [D -> R], NEW x \in D, NEW y \in R, NEW g, g = [f EXCEPT ![x] = y]
  PROVE  g \in [D -> R] /\ \A z \in D : g[z] = IF z = x THEN y ELSE f[z]
  OBVIOUS

\* The call moves on from the connection to a session.
Forward(s, r) ==
  /\ session' = [session EXCEPT ![s].pending = @ \cup {r}, ![s].down = Append(@, r)]
  /\ link' = [link EXCEPT ![daemon.link].down = Tail(@)]

LEMMA ForwardInv ==
  ASSUME IInv, UNCHANGED <<caller, outcome, inbox, peer, daemon, performed>>,
         daemon.link # 0, link[daemon.link].down # <<>>, NEW s \in Sessions,
         session[s].st = "open", NEW r, r = Head(link[daemon.link].down),
         Forward(s, r)
  PROVE  IInv' /\ CallStep
<1> DEFINE l == daemon.link
           c == [link[l] EXCEPT !.down = Tail(link[l].down)]
           q == Append(session[s].down, r)
           v == [session[s] EXCEPT !.pending = session[s].pending \cup {r}, !.down = q]
<1>1. TypeOK /\ Travelling /\ Waiting /\ EndsOnce /\ Answers /\ Replaced
  BY DEF IInv
<1>2. l \in Links /\ link[l] \in LinkState /\ session[s] \in SessionState
  BY Types
<1>3. link[l].down \in Seq(Requests) /\ Once(link[l].down)
  BY <1>1, <1>2, LineTypes
<1>4. /\ Shorter(Tail(link[l].down), link[l].down) /\ r \in Requests
      /\ r \in In(link[l].down) /\ r \notin In(Tail(link[l].down))
  BY <1>3, ShorterFacts
<1>5. link' = [link EXCEPT ![l] = c] /\ session' = [session EXCEPT ![s] = v]
  BY Types DEF Forward
<1>6. c \in LinkState /\ c.down = Tail(link[l].down) /\ c.up = link[l].up
  BY <1>2, <1>4 DEF LinkState, Shorter
<1>7. l \in Places /\ MaxLinks + s \in Places /\ MaxLinks + s # l
  BY <1>2, PlaceKinds
<1>8. Line[l] = link[l].down /\ Line[MaxLinks + s] = session[s].down
  BY <1>2, PlaceFacts
<1>9. /\ performed[r] = 0 /\ caller[r] # "idle"
      /\ \A x \in Places \ {l} : r \notin In(Line[x])
  BY <1>1, <1>4, <1>7, <1>8 DEF Travelling, Apart
<1>10. q \in Seq(Requests)
  BY <1>2, <1>4, AppendLine DEF SessionState
<1>11. /\ v \in SessionState /\ v.down = q /\ v.up = session[s].up
       /\ v.st = "open" /\ v.bound = session[s].bound
  <2> HIDE DEF q
  <2>1. QED
    BY <1>2, <1>4, <1>10 DEF SessionState
<1> HIDE DEF c, v
<1>12. link' \in [Links -> LinkState] /\ \A m \in Links : link'[m] = IF m = l THEN c ELSE link[m]
  <2>1. link \in [Links -> LinkState]
    BY Types
  <2>2. QED
    BY <1>2, <1>5, <1>6, <2>1, Update
<1>13. /\ session' \in [Sessions -> SessionState]
       /\ \A t \in Sessions : session'[t] = IF t = s THEN v ELSE session[t]
  <2>1. session \in [Sessions -> SessionState]
    BY Types
  <2>2. QED
    BY <1>5, <1>11, <2>1, Update
<1>14. TypeOK'
  BY <1>1, <1>12, <1>13 DEF TypeOK
<1>15. Travelling'
  <2>1. Line'[MaxLinks + s] = Append(Line[MaxLinks + s], r)
    BY <1>8, <1>11, <1>13, PlaceFactsPrime
  <2>2. Shorter(Line'[l], Line[l]) /\ r \notin In(Line'[l])
    BY <1>2, <1>4, <1>6, <1>8, <1>12, PlaceFactsPrime
  <2>3. \A x \in Places \ {l, MaxLinks + s} : Line'[x] = Line[x]
    BY <1>12, <1>13, PlaceKinds, PlaceFacts, PlaceFactsPrime
  <2>4. \A x \in Places : Shorter(Line[x], Line[x])
    BY <1>1 DEF Travelling, Apart, Shorter
  <2>5. \A x \in Places \ {MaxLinks + s} : Shorter(Line'[x], Line[x]) /\ r \notin In(Line'[x])
    BY <1>9, <2>2, <2>3, <2>4
  <2>6. r \notin In(Line[MaxLinks + s])
    BY <1>7, <1>9
  <2>7. QED
    BY <1>1, <1>4, <1>7, <1>9, <2>1, <2>5, <2>6, CallArrives
<1>16. Waiting'
  BY <1>1 DEF Waiting
<1>17. EndsOnce' /\ CallStep
  BY <1>1, NoCallback
<1>18. Answers'
  <2>1. /\ \A m \in Links : link'[m].up = link[m].up
        /\ \A t \in Sessions : session'[t].up = session[t].up
    BY <1>6, <1>11, <1>12, <1>13
  <2>2. QED
    BY <1>1, <2>1 DEF Answers, Honest
<1>19. Replaced'
  BY <1>1, <1>11, <1>13 DEF Replaced, Bound
<1>20. QED
  BY <1>14, <1>15, <1>16, <1>17, <1>18, <1>19 DEF IInv

LEMMA DispatchedInv ==
  ASSUME IInv, handleClientRpcDispatch
  PROVE  IInv' /\ CallStep
<1> DEFINE r == Head(link[daemon.link].down)
           s == Min(sessionForClientId)
<1>1. /\ daemon.link # 0 /\ link[daemon.link].down # <<>>
      /\ UNCHANGED <<caller, outcome, inbox, peer, daemon, performed>>
  BY DEF handleClientRpcDispatch
<1>2. /\ "refused" \in Refusals /\ "unreachable" \in Refusals
  BY DEF Refusals
<1>3. CASE refuse(r, "refused") \/ refuse(r, "unreachable")
  BY <1>1, <1>2, <1>3, RefuseInv
<1>4. CASE sessionForClientId # {} /\ sendClientRequest(s, r)
  <2>1. s \in Sessions
    <3>1. sessionForClientId \in SUBSET (1..MaxSessions) /\ MaxSessions \in Nat
      BY ClientRpcAssumption DEF sessionForClientId, m_sessions, Sessions
    <3>2. QED
      BY <1>4, <3>1, MinMaxFacts DEF Sessions
  <2> HIDE DEF s
  <2>2. QED
    BY <1>1, <1>3, <1>4, <2>1, ForwardInv DEF sendClientRequest, Forward
<1>5. QED
  BY <1>3, <1>4 DEF handleClientRpcDispatch, s, r

\* What a session holds before it changes.
LEMMA SessionFacts ==
  ASSUME IInv, NEW s \in Sessions
  PROVE  /\ session[s] \in SessionState /\ Honest(session[s].up)
         /\ session[s].pending \in SUBSET Requests
         /\ session[s].down \in Seq(Requests) /\ Once(session[s].down)
         /\ Shorter(session[s].down, session[s].down)
         /\ session[s].st = "closing" => session[s].pending = {}
         /\ session[s].st = "none" => ~session[s].bound
<1>1. session[s] \in SessionState /\ Shorter(session[s].down, session[s].down)
  BY Types
<1>2. session[s].pending \in SUBSET Requests
  BY <1>1 DEF SessionState
<1>3. session[s].down \in Seq(Requests) /\ Once(session[s].down)
  BY LineTypes DEF IInv
<1>4. QED
  BY <1>1, <1>2, <1>3 DEF IInv, Answers, Replaced

LEMMA ClientConnectsInv ==
  ASSUME IInv, NEW s \in Sessions, clientConnects(s)
  PROVE  IInv' /\ CallStep
<1> DEFINE v == [session[s] EXCEPT !.st = "open"]
<1>1. /\ session[s].st = "none" /\ session' = [session EXCEPT ![s] = v]
      /\ UNCHANGED <<caller, outcome, inbox, peer, link, daemon, performed>>
  BY DEF clientConnects
<1>2. session[s] \in SessionState /\ Honest(session[s].up) /\ ~session[s].bound
      /\ Shorter(session[s].down, session[s].down)
  BY <1>1, SessionFacts
<1>3. /\ v \in SessionState /\ v.st = "open" /\ ~v.bound
      /\ v.down = session[s].down /\ v.up = session[s].up
  BY <1>2 DEF SessionState
<1>4. /\ link' \in [Links -> LinkState]
      /\ \A l \in Links : link'[l].down = link[l].down /\ Honest(link'[l].up)
  BY <1>1, Types DEF IInv, Answers
<1> HIDE DEF v
<1>5. QED
  BY <1>1, <1>2, <1>3, <1>4, OneSessionStep

LEMMA ResponseInv ==
  ASSUME IInv, NEW s \in Sessions, onClientResponse(s)
  PROVE  IInv' /\ CallStep
<1> DEFINE u == session[s].up
           m == Head(u)
           v == [session[s] EXCEPT !.up = Tail(u), !.pending = session[s].pending \ {m.r}]
<1>1. /\ u # <<>> /\ sendClientRpcReply({m.r} \cap session[s].pending, m.k)
      /\ UNCHANGED <<caller, outcome, inbox, peer, daemon, performed>>
  BY DEF onClientResponse
<1>2. session' = [session EXCEPT ![s] = v]
  BY Types DEF onClientResponse
<1>3. /\ session[s] \in SessionState /\ Honest(u) /\ session[s].pending \in SUBSET Requests
      /\ Shorter(session[s].down, session[s].down)
      /\ session[s].st = "closing" => session[s].pending = {}
      /\ session[s].st = "none" => ~session[s].bound
  BY SessionFacts
<1>4. u \in Seq(Reply)
  BY <1>3 DEF SessionState
<1>5. Tail(u) \in Seq(Reply) /\ m \in Reply /\ m \in In(u) /\ In(Tail(u)) \subseteq In(u)
  BY <1>1, <1>4, TailLine
<1>6. m.k \in Kinds /\ (m.k = "ok" => performed[m.r] = 1)
  BY <1>3, <1>5 DEF Honest, Reply
<1>7. Honest(Tail(u))
  BY <1>3, <1>5 DEF Honest
<1>8. /\ link' \in [Links -> LinkState]
      /\ \A l \in Links : link'[l].down = link[l].down /\ Honest(link'[l].up)
  <2> DEFINE E == {m.r} \cap session[s].pending
  <2>1. E \in SUBSET Requests /\ (m.k = "ok" => \A q \in E : performed[q] = 1)
    BY <1>3, <1>6
  <2>2. TypeOK /\ Answers
    BY DEF IInv
  <2>3. QED
    BY <1>1, <1>6, <2>1, <2>2, ReplySent
<1> HIDE DEF m
<1>9. /\ v \in SessionState /\ v.st = session[s].st /\ v.bound = session[s].bound
      /\ v.down = session[s].down /\ v.up = Tail(u) /\ v.pending \subseteq session[s].pending
  BY <1>3, <1>5 DEF SessionState
<1> HIDE DEF v
<1>10. v.st = "open" /\ v.bound => Bound(s)
  BY <1>9 DEF Bound
<1>11. /\ v.st = "closing" => v.pending = {}
       /\ v.st = "none" => ~v.bound
  BY <1>3, <1>9
<1>12. QED
  BY <1>1, <1>2, <1>3, <1>7, <1>8, <1>9, <1>10, <1>11, OneSessionStep

LEMMA SessionSweepInv ==
  ASSUME IInv, NEW s \in Sessions, NEW E \in SUBSET session[s].pending,
         onClientRpcTimeoutSweep(s, E)
  PROVE  IInv' /\ CallStep
<1> DEFINE v == [session[s] EXCEPT !.pending = session[s].pending \ E]
<1>1. /\ session' = [session EXCEPT ![s] = v] /\ sendClientRpcReply(E, "unreachable")
      /\ UNCHANGED <<caller, outcome, inbox, peer, daemon, performed>>
  BY DEF onClientRpcTimeoutSweep
<1>2. /\ session[s] \in SessionState /\ Honest(session[s].up)
      /\ session[s].pending \in SUBSET Requests
      /\ Shorter(session[s].down, session[s].down)
      /\ session[s].st = "closing" => session[s].pending = {}
      /\ session[s].st = "none" => ~session[s].bound
  BY SessionFacts
<1>3. /\ link' \in [Links -> LinkState]
      /\ \A l \in Links : link'[l].down = link[l].down /\ Honest(link'[l].up)
  <2>1. E \in SUBSET Requests /\ "unreachable" \in Kinds /\ "unreachable" # "ok"
    BY <1>2 DEF Kinds, Refusals
  <2>2. TypeOK /\ Answers
    BY DEF IInv
  <2>3. QED
    BY <1>1, <2>1, <2>2, ReplySent
<1>4. /\ v \in SessionState /\ v.st = session[s].st /\ v.bound = session[s].bound
      /\ v.down = session[s].down /\ v.up = session[s].up /\ v.pending \subseteq session[s].pending
  BY <1>2 DEF SessionState
<1> HIDE DEF v
<1>5. /\ v.st = "open" /\ v.bound => Bound(s)
      /\ v.st = "closing" => v.pending = {}
      /\ v.st = "none" => ~v.bound
  BY <1>2, <1>4 DEF Bound
<1>6. QED
  BY <1>1, <1>2, <1>3, <1>4, <1>5, OneSessionStep

LEMMA SessionDisconnectedInv ==
  ASSUME IInv, NEW s \in Sessions, sessionDisconnected(s)
  PROVE  IInv' /\ CallStep
<1>1. /\ session' = [session EXCEPT ![s] = Over]
      /\ sendClientRpcReply(session[s].pending, "unreachable")
      /\ UNCHANGED <<caller, outcome, inbox, peer, daemon, performed>>
  BY DEF sessionDisconnected, Over
<1>2. session[s].pending \in SUBSET Requests
  BY SessionFacts
<1>3. /\ link' \in [Links -> LinkState]
      /\ \A l \in Links : link'[l].down = link[l].down /\ Honest(link'[l].up)
  <2>1. "unreachable" \in Kinds /\ "unreachable" # "ok"
    BY DEF Kinds, Refusals
  <2>2. TypeOK /\ Answers
    BY DEF IInv
  <2>3. QED
    BY <1>1, <1>2, <2>1, <2>2, ReplySent
<1>4. /\ Over \in SessionState /\ Over.st = "gone" /\ Honest(Over.up)
      /\ Shorter(Over.down, session[s].down)
  BY OverFacts, EmptyLine DEF Shorter
<1>5. QED
  BY <1>1, <1>3, <1>4, OneSessionStep

\* The client's other sessions end when it authenticates a new one.
LEMMA AuthInv ==
  ASSUME IInv, NEW s \in Sessions, NEW exec \in BOOLEAN, opAuthToken(s, exec)
  PROVE  IInv' /\ CallStep
<1> DEFINE evict == sessionForClientId \ {s}
           E == UNION {session[t].pending : t \in evict}
           v == [session[s] EXCEPT !.bound = TRUE, !.exec = exec]
           w(t) == [session[t] EXCEPT !.st = "closing", !.pending = {}, !.up = <<>>]
<1>1. /\ session[s].st = "open" /\ sendClientRpcReply(E, "unreachable")
      /\ UNCHANGED <<caller, outcome, inbox, peer, daemon, performed>>
      /\ session' = [t \in Sessions |-> CASE t = s -> v
                                          [] t \in evict -> w(t)
                                          [] OTHER -> session[t]]
  BY DEF opAuthToken
<1>2. \A t \in Sessions : session'[t] = IF t = s THEN v
                                        ELSE IF t \in evict THEN w(t) ELSE session[t]
  BY <1>1
<1>3. evict \subseteq Sessions
  BY DEF sessionForClientId, m_sessions
<1>4. /\ link' \in [Links -> LinkState]
      /\ \A l \in Links : link'[l].down = link[l].down /\ Honest(link'[l].up)
  <2>1. "unreachable" \in Kinds /\ "unreachable" # "ok"
    BY DEF Kinds, Refusals
  <2>2. TypeOK /\ Answers
    BY DEF IInv
  <2>3. \A t \in evict : session[t].pending \subseteq Requests
    BY <1>3, SessionFacts
  <2>4. E \in SUBSET Requests
    BY <2>3
  <2>5. QED
    BY <1>1, <2>1, <2>2, <2>4, ReplySent
<1>5. /\ v \in SessionState /\ v.st = "open"
      /\ v.down = session[s].down /\ v.up = session[s].up
  <2>1. session[s] \in SessionState
    BY SessionFacts
  <2>2. QED
    BY <1>1, <2>1 DEF SessionState
<1>6. \A t \in Sessions : /\ w(t) \in SessionState /\ w(t).st = "closing" /\ w(t).pending = {}
                          /\ w(t).down = session[t].down /\ w(t).up = <<>>
  <2>1. session \in [Sessions -> SessionState] /\ <<>> \in Seq(Reply)
    BY Types, EmptyLine
  <2>2. QED
    BY <2>1 DEF SessionState
<1> HIDE DEF v, w
<1>7. \A t \in Sessions : session[t].st = "open" /\ session[t].bound /\ t # s => t \in evict
  BY DEF sessionForClientId, m_sessions
<1> HIDE DEF evict
<1>8. \A t \in Sessions : /\ session'[t] \in SessionState /\ session'[t].down = session[t].down
                          /\ session'[t].up \in {session[t].up, <<>>}
  BY <1>2, <1>5, <1>6, Types
<1>9. session' \in [Sessions -> SessionState]
  BY <1>1, <1>8
<1>10. \A t \in Sessions : Shorter(session'[t].down, session[t].down) /\ Honest(session'[t].up)
  <2>1. Honest(<<>>)
    BY EmptyLine DEF Honest
  <2>2. QED
    BY <1>8, <2>1, SessionFacts
<1>11. Replaced'
  <2>1. \A t \in Sessions : Bound(t)' => t = s
    BY <1>2, <1>6, <1>7 DEF Bound
  <2>2. \A t \in Sessions : /\ session'[t].st = "closing" => session'[t].pending = {}
                            /\ session'[t].st = "none" => ~session'[t].bound
    BY <1>2, <1>5, <1>6, SessionFacts
  <2>3. QED
    BY <2>1, <2>2 DEF Replaced
<1>12. \A l \in Links : Shorter(link'[l].down, link[l].down) /\ Honest(link'[l].up)
  BY <1>4, Types
<1>13. daemon' \in DaemonState
  BY <1>1, Types
<1>14. QED
  BY <1>1, <1>4, <1>9, <1>10, <1>11, <1>12, <1>13, DaemonStep

---------------------------------------------------------------------------
\* The client

\* What a reply answers is a request.
LEMMA ReplyNames ==
  ASSUME NEW q \in Seq(Reply), NEW x \in In(q)
  PROVE  x.r \in Requests
<1>1. PICK i \in 1..Len(q) : x = q[i]
  BY DEF In
<1>2. x \in Reply
  BY <1>1, ElementOfSeq
<1>3. QED
  BY <1>2 DEF Reply

LEMMA ClientServesInv ==
  ASSUME IInv, NEW s \in Sessions, NEW k \in {"ok", "refused"}, ClientServes(s, k)
  PROVE  IInv' /\ CallStep
<1> DEFINE d == session[s].down
           u == session[s].up
           r == Head(d)
           m == [r |-> r, k |-> k]
           n == IF session[s].st = "closing" THEN u ELSE Append(u, m)
           v == [session[s] EXCEPT !.down = Tail(d), !.up = n]
<1>1. /\ d # <<>> /\ performed' = [performed EXCEPT ![r] = IF k = "ok" THEN @ + 1 ELSE @]
      /\ UNCHANGED <<caller, outcome, inbox, peer, link, daemon>>
  BY DEF ClientServes
<1>2. session' = [session EXCEPT ![s] = v]
  BY Types DEF ClientServes
<1>3. TypeOK /\ Travelling /\ Waiting /\ EndsOnce /\ Answers /\ Replaced
  BY DEF IInv
<1>4. /\ session[s] \in SessionState /\ Honest(u) /\ d \in Seq(Requests) /\ Once(d)
      /\ session[s].st = "closing" => session[s].pending = {}
      /\ session[s].st = "none" => ~session[s].bound
  BY SessionFacts
<1>5. Shorter(Tail(d), d) /\ r \in Requests /\ r \in In(d) /\ r \notin In(Tail(d))
  BY <1>1, <1>4, ShorterFacts
<1>6. m \in Reply /\ m.k = k /\ m.r = r
  BY <1>5 DEF Reply, Kinds, Refusals
<1>7. u \in Seq(Reply)
  BY <1>4 DEF SessionState
<1>8. n \in Seq(Reply) /\ In(n) \subseteq In(u) \cup {m}
  <2> HIDE DEF m, u
  <2>1. Append(u, m) \in Seq(Reply) /\ In(Append(u, m)) = In(u) \cup {m}
    BY <1>6, <1>7, AppendLine
  <2>2. QED
    BY <1>7, <2>1
<1> HIDE DEF n, r
<1>10. /\ v \in SessionState /\ v.down = Tail(d) /\ v.up = n /\ v.st = session[s].st
       /\ v.bound = session[s].bound /\ v.pending = session[s].pending
  BY <1>4, <1>5, <1>8 DEF SessionState, Shorter
<1> HIDE DEF v
<1>11. /\ session' \in [Sessions -> SessionState]
       /\ \A t \in Sessions : session'[t] = IF t = s THEN v ELSE session[t]
  BY <1>2, <1>10, Types
<1>12. /\ performed' \in [Requests -> Nat]
       /\ performed'[r] = IF k = "ok" THEN performed[r] + 1 ELSE performed[r]
       /\ \A q \in Requests \ {r} : performed'[q] = performed[q]
  BY <1>1, <1>3, <1>5 DEF TypeOK
<1>13. TypeOK'
  BY <1>1, <1>3, <1>11, <1>12 DEF TypeOK
<1>14. /\ MaxLinks + s \in Places /\ Line[MaxLinks + s] = d /\ Line'[MaxLinks + s] = Tail(d)
  BY <1>10, <1>11, PlaceKinds, PlaceFacts, PlaceFactsPrime
<1>15. performed[r] = 0 /\ caller[r] # "idle"
       /\ \A x \in Places \ {MaxLinks + s} : r \notin In(Line[x])
  BY <1>3, <1>5, <1>14 DEF Travelling, Apart
<1>9. \A q \in Requests : performed[q] = 1 => performed'[q] = 1
  BY <1>12, <1>15
<1>9a. \A x \in In(n) : x.k = "ok" => performed'[x.r] = 1
  <2> SUFFICES ASSUME NEW x \in In(n), x.k = "ok" PROVE performed'[x.r] = 1
    OBVIOUS
  <2>1. CASE x \in In(u)
    <3>1. x.r \in Requests
      BY <1>7, <2>1, ReplyNames
    <3>2. QED
      BY <1>4, <1>9, <2>1, <3>1 DEF Honest
  <2>2. CASE x = m
    BY <1>6, <1>12, <1>15, <2>2
  <2>3. QED
    BY <1>8, <2>1, <2>2
<1>16. Travelling'
  <2>1. \A x \in Places \ {MaxLinks + s} : Line'[x] = Line[x]
    BY <1>1, <1>11, PlaceKinds, PlaceFacts, PlaceFactsPrime
  <2>2. \A x \in Places : r \notin In(Line'[x])
    BY <1>5, <1>14, <1>15, <2>1
  <2>3. \A x \in Places : \A q \in In(Line'[x]) : performed'[q] = performed[q]
    <3> SUFFICES ASSUME NEW x \in Places, NEW q \in In(Line'[x])
                 PROVE  performed'[q] = performed[q]
      OBVIOUS
    <3>1. Line[x] \in Seq(Requests) /\ (Line'[x] = Line[x] \/ Line'[x] = Tail(d))
      BY <1>3, <1>14, <2>1 DEF Travelling, Apart
    <3>2. Line'[x] \in Seq(Requests)
      BY <1>5, <3>1 DEF Shorter
    <3>3. q \in Requests /\ q # r
      BY <2>2, <3>2, LenProperties, ElementOfSeq DEF In
    <3>4. QED
      BY <1>12, <3>3
  <2>4. /\ \A t \in Sessions : Shorter(session'[t].down, session[t].down)
        /\ \A l \in Links : Shorter(link'[l].down, link[l].down)
        /\ Shorter(inbox', inbox)
    BY <1>1, <1>5, <1>10, <1>11, Types
  <2>5. QED
    BY <1>1, <1>3, <2>3, <2>4, LinesShrink
<1>17. Waiting'
  BY <1>1, <1>3 DEF Waiting
<1>18. EndsOnce'
  BY <1>1, <1>3, <1>12, <1>15 DEF EndsOnce
<1>19. Answers'
  <2>1. \A l \in Links : link[l].up \in Seq(Reply)
    BY <1>3 DEF TypeOK, LinkState
  <2>2. \A t \in Sessions : session[t].up \in Seq(Reply)
    BY <1>3 DEF TypeOK, SessionState
  <2>3. \A q \in Seq(Reply) : \A x \in In(q) : x.r \in Requests
    BY ReplyNames
  <2>4. \A q \in Seq(Reply) : Honest(q) => \A x \in In(q) : x.k = "ok" => performed'[x.r] = 1
    BY <1>9, <2>3 DEF Honest
  <2>5. \A l \in Links : Honest(link[l].up)'
    BY <1>1, <1>3, <2>1, <2>4 DEF Answers, Honest
  <2>6. \A t \in Sessions : Honest(session[t].up)'
    BY <1>3, <1>9a, <1>10, <1>11, <2>2, <2>4 DEF Answers, Honest
  <2>7. QED
    BY <2>5, <2>6 DEF Answers
<1>20. Replaced'
  BY <1>3, <1>10, <1>11 DEF Replaced, Bound
<1>21. CallStep
  <2>1. status' = status
    BY <1>1 DEF status, StatusOf
  <2>1a. k # "ok" => performed' = performed
    BY <1>1, <1>3, <1>5 DEF TypeOK
  <2>1b. k = "ok" => performed' = [performed EXCEPT ![r] = 1]
    BY <1>1, <1>3, <1>5, <1>15 DEF TypeOK
  <2>2. CASE k = "ok"
    <3>1. StatusOf(r) # "idle"
      BY <1>15 DEF StatusOf
    <3>2. Call!Perform(r)
      BY <1>5, <1>15, <2>1, <2>1b, <2>2, <3>1 DEF Call!Perform, status
    <3>3. QED
      BY <1>5, <3>2 DEF CallStep, Call!Next
  <2>3. CASE k # "ok"
    BY <2>1, <2>1a, <2>3 DEF CallStep, Call!vars, status
  <2>4. QED
    BY <2>2, <2>3
<1>22. QED
  BY <1>13, <1>16, <1>17, <1>18, <1>19, <1>20, <1>21 DEF IInv

---------------------------------------------------------------------------
LEMMA InitInv ==
  ASSUME Init
  PROVE  IInv /\ Call!Init
<1>1. (\A S : <<>> \in Seq(S)) /\ In(<<>>) = {} /\ Once(<<>>)
  BY EmptyLine
<1>2. NewLink \in LinkState /\ NewLink.down = <<>> /\ NewLink.up = <<>>
  BY <1>1 DEF NewLink, LinkState
<1>3. /\ NewSession \in SessionState /\ NewSession.down = <<>> /\ NewSession.up = <<>>
      /\ NewSession.st = "none" /\ ~NewSession.bound
  BY <1>1 DEF NewSession, SessionState
<1>4. /\ (\A l \in Links : link[l] = NewLink) /\ link \in [Links -> LinkState]
      /\ (\A s \in Sessions : session[s] = NewSession) /\ session \in [Sessions -> SessionState]
      /\ inbox = <<>> /\ performed = [r \in Requests |-> 0]
  BY <1>2, <1>3 DEF Init
<1>5. /\ peer \in PeerState /\ daemon \in DaemonState /\ peer.pending = {}
      /\ caller \in [Requests -> {"idle", "waiting", "gaveUp"}]
      /\ outcome \in [Requests -> [n : Nat, k : {"none"} \cup Kinds]]
  BY DEF Init, PeerState, DaemonState
<1>6. TypeOK
  BY <1>1, <1>4, <1>5 DEF TypeOK, PeerState, DaemonState
<1>7. \A x \in Places : Line[x] = <<>>
  BY <1>2, <1>3, <1>4, PlaceKinds, PlaceFacts
<1>8. Travelling
  <2>1. Line = [x \in Places |-> Line[x]]
    BY DEF Line
  <2>2. Line \in [Places -> Seq(Requests)]
    BY <1>1, <1>7, <2>1
  <2>3. QED
    BY <1>1, <1>7, <2>2 DEF Travelling, Apart
<1>9. Waiting
  BY <1>1, <1>4, <1>5 DEF Waiting
<1>10. EndsOnce
  BY <1>4 DEF Init, EndsOnce
<1>11. Answers /\ Replaced
  BY <1>1, <1>2, <1>3, <1>4 DEF Answers, Honest, Replaced, Bound
<1>12. \A r \in Requests : StatusOf(r) = "idle"
  BY DEF Init, StatusOf
<1>13. Call!Init
  BY <1>4, <1>12 DEF Call!Init
<1>14. QED
  BY <1>6, <1>8, <1>9, <1>10, <1>11, <1>13 DEF IInv

LEMMA NextInv ==
  ASSUME IInv, [Next]_vars
  PROVE  IInv' /\ CallStep
<1>1. CASE Host
  BY <1>1, BlockingDispatchInv, GiveUpInv, OnStartInv, DispatchInv, ReplyInv, SweepInv,
     NewConnectionInv, BridgeDisconnectedInv, OnStopInv DEF Host
<1>2. CASE Daemon
  <2>1. CASE \E s \in Sessions : \/ clientConnects(s) \/ onClientResponse(s)
                                 \/ sessionDisconnected(s)
                                 \/ \E E \in SUBSET session[s].pending : onClientRpcTimeoutSweep(s, E)
    BY <2>1, ClientConnectsInv, ResponseInv, SessionDisconnectedInv, SessionSweepInv
  <2>2. CASE \E s \in Sessions : \E exec \in {FALSE, ExecRequests # {}} : opAuthToken(s, exec)
    <3>1. PICK s \in Sessions, exec \in {FALSE, ExecRequests # {}} : opAuthToken(s, exec)
      BY <2>2
    <3>2. exec \in BOOLEAN
      BY <3>1
    <3>3. QED
      BY <3>1, <3>2, AuthInv
  <2>3. QED
    BY <1>2, <2>1, <2>2, StartInv, HostLostInv, DropConnectionInv, DaemonEndsInv,
       DispatchedInv DEF Daemon
<1>3. CASE Client
  BY <1>3, ClientServesInv DEF Client
<1>4. CASE UNCHANGED vars
  <2>1. UNCHANGED <<caller, outcome, inbox, peer, session, performed>> /\ daemon' = daemon
        /\ link' = link
    BY <1>4 DEF vars
  <2>2. /\ daemon' \in DaemonState /\ link' \in [Links -> LinkState]
        /\ \A l \in Links : Shorter(link'[l].down, link[l].down) /\ Honest(link'[l].up)
    BY <2>1, Types DEF IInv, Answers
  <2>3. QED
    BY <2>1, <2>2, ConnectionStep
<1>5. QED
  BY <1>1, <1>2, <1>3, <1>4 DEF Next

---------------------------------------------------------------------------
\* Every reachable state has the calls that are on their way in one place each,
\* the ended ones behind them, and only honest answers.
THEOREM Inductive == Spec => []IInv
<1>1. Init => IInv
  BY InitInv
<1>2. IInv /\ [Next]_vars => IInv'
  BY NextInv
<1>3. QED
  BY <1>1, <1>2, PTL DEF Spec

\* Tables, sockets and sessions keep the shapes the classes declare.
THEOREM TypeCorrect == Spec => []TypeOK
<1>1. IInv => TypeOK
  BY DEF IInv
<1>2. QED
  BY <1>1, Inductive, PTL

\* However often the client reconnects, it has one open session, and nothing
\* waits in one that was replaced.
THEOREM OneSessionPerClient == Spec => []ReplacedSessionIsEmpty
<1>1. ASSUME IInv PROVE ReplacedSessionIsEmpty
  <2> DEFINE B == {s \in sessionForClientId : session[s].st = "open"}
  <2>1. Replaced
    BY <1>1 DEF IInv
  <2>2. \A s, t \in B : s = t
    BY <2>1 DEF Replaced, Bound, sessionForClientId, m_sessions
  <2>3. Cardinality(B) <= 1
    <3> HIDE DEF B
    <3>1. CASE B = {}
      BY <3>1, FS_EmptySet
    <3>2. CASE B # {}
      <4>1. PICK s : B = {s}
        BY <2>2, <3>2
      <4>2. QED
        BY <4>1, FS_Singleton
    <3>3. QED
      BY <3>1, <3>2
  <2>4. \A s \in m_sessions : session[s].st = "closing" => session[s].pending = {}
    BY <2>1 DEF Replaced, m_sessions
  <2>5. QED
    BY <2>3, <2>4 DEF ReplacedSessionIsEmpty
<1>2. QED
  BY <1>1, Inductive, PTL

\* The bridge, the sockets, the daemon and the client together implement the
\* one-shot call: it ends once, well only if it was performed, and is performed
\* at most once.
THEOREM RefinesOneShotCall == Spec => ImplementsOneShotCall
<1>1. Init => Call!Init
  BY InitInv
<1>2. IInv /\ [Next]_vars => [Call!Next]_(Call!vars)
  BY NextInv DEF CallStep
<1>3. QED
  BY <1>1, <1>2, Inductive, PTL DEF Spec, ImplementsOneShotCall, Call!Spec
=============================================================================
