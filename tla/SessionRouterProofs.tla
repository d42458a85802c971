-------------------------- MODULE SessionRouterProofs --------------------------
(***************************************************************************)
(* The sessions' run maps and the router's counter, for every finite set of *)
(* conversations and of remote clients.                                    *)
(***************************************************************************)
EXTENDS SessionRouter, FiniteSetTheorems, TLAPS

---------------------------------------------------------------------------
\* The inductive invariant

Controller == [m_runs : [Keys -> RunIds \cup {Nil}],
               run : [RunIds -> [conv : Keys, infl : Keys]],
               active : RunIds \cup {Nil}, activeConv : Keys]

\* A run has one key.
RunsApart(c) ==
  \A k, l \in Keys : c.m_runs[k] = c.m_runs[l] /\ c.m_runs[k] # Nil => k = l

\* What a run shows and what its turn is for is the conversation of its key, or
\* nothing.
TurnsInPlace(c) ==
  \A k \in Keys : c.m_runs[k] # Nil => /\ c.run[c.m_runs[k]].conv \in {k, NoConv}
                                       /\ c.run[c.m_runs[k]].infl \in {k, NoConv}

\* An active run that exists is the one of the active key, and shows it.
FacadeFollows(c) ==
  c.active \in Live(c) => /\ c.m_runs[c.activeConv] = c.active
                          /\ c.run[c.active].conv = c.activeConv

Sound(c) == c \in Controller /\ RunsApart(c) /\ TurnsInPlace(c) /\ FacadeFollows(c)

\* The desktop's map forgets the conversations that are deleted.
MapsInv == /\ DOMAIN cc \subseteq Sessions /\ Local \in DOMAIN cc
           /\ cc = [s \in DOMAIN cc |-> cc[s]]
           /\ \A s \in DOMAIN cc : Sound(cc[s])
           /\ convs.exist \subseteq Convs /\ convs.gone \subseteq Convs
           /\ convs = [exist |-> convs.exist, gone |-> convs.gone]
           /\ convs.exist \cap convs.gone = {}
           /\ \A k \in convs.gone : cc[Local].m_runs[k] = Nil

\* A session that is not open counts for nothing.
CountInv == /\ DOMAIN cc \subseteq Sessions /\ genState \in [Sessions -> BOOLEAN]
            /\ \A s \in Sessions \ DOMAIN cc : ~genState[s]
            /\ count \in Nat /\ CountIsSum

---------------------------------------------------------------------------
\* Run maps

LEMMA IdFacts == /\ Nil \notin RunIds /\ NoConv \in Keys /\ Convs \subseteq Keys
                 /\ IsFiniteSet(Keys) /\ Cardinality(Keys) \in Nat /\ 1 \in RunIds
<1>1. IsFiniteSet(Keys)
  BY ConvsAssumption, FS_AddElement DEF Keys
<1>2. Cardinality(Keys) \in Nat
  BY <1>1, FS_CardinalityType
<1>3. QED
  BY <1>1, <1>2 DEF Nil, RunIds, Keys

LEMMA ControllerFacts ==
  ASSUME NEW c \in Controller
  PROVE  /\ c.m_runs \in [Keys -> RunIds \cup {Nil}]
         /\ c.run \in [RunIds -> [conv : Keys, infl : Keys]]
         /\ c.active \in RunIds \cup {Nil} /\ c.activeConv \in Keys
         /\ Live(c) \subseteq RunIds /\ Nil \notin Live(c)
         /\ \A k \in Keys : c.m_runs[k] # Nil => c.m_runs[k] \in Live(c) /\ c.m_runs[k] \in RunIds
         /\ \A r \in Live(c) : \E k \in Keys : c.m_runs[k] = r
         /\ \A r \in RunIds : c.run[r].conv \in Keys /\ c.run[r].infl \in Keys
  BY DEF Controller, Live

Showing(c, r, id) == [c EXCEPT !.run[r].conv = id]
Turned(c, r, id) == [c EXCEPT !.run[r].infl = id]

\* A controller differs from another in the conversation of a run, ...
LEMMA SetConv ==
  ASSUME NEW c \in Controller, NEW r \in RunIds, NEW id \in Keys,
         NEW d, d = Showing(c, r, id)
  PROVE  /\ d \in Controller /\ d.m_runs = c.m_runs /\ d.active = c.active
         /\ d.activeConv = c.activeConv /\ d.run[r].conv = id /\ d.run[r].infl = c.run[r].infl
         /\ \A q \in RunIds \ {r} : d.run[q] = c.run[q]
<1> DEFINE x == [c.run[r] EXCEPT !.conv = id]
           f == [c.run EXCEPT ![r] = x]
<1>1. c.run \in [RunIds -> [conv : Keys, infl : Keys]] /\ c.run[r] \in [conv : Keys, infl : Keys]
  BY DEF Controller
<1>2. x \in [conv : Keys, infl : Keys] /\ x.conv = id /\ x.infl = c.run[r].infl
  BY <1>1
<1> HIDE DEF x
<1>3. /\ f \in [RunIds -> [conv : Keys, infl : Keys]] /\ f[r] = x
      /\ \A q \in RunIds \ {r} : f[q] = c.run[q]
  BY <1>1, <1>2
<1>4. d = [c EXCEPT !.run = f]
  BY DEF x, Showing
<1> HIDE DEF f
<1>5. d \in Controller /\ d.m_runs = c.m_runs /\ d.active = c.active
      /\ d.activeConv = c.activeConv /\ d.run = f
  BY <1>3, <1>4 DEF Controller
<1>6. QED
  BY <1>2, <1>3, <1>5

\* ... in the turn of a run, ...
LEMMA SetTurn ==
  ASSUME NEW c \in Controller, NEW r \in RunIds, NEW id \in Keys,
         NEW d, d = Turned(c, r, id)
  PROVE  /\ d \in Controller /\ d.m_runs = c.m_runs /\ d.active = c.active
         /\ d.activeConv = c.activeConv /\ d.run[r].infl = id /\ d.run[r].conv = c.run[r].conv
         /\ \A q \in RunIds \ {r} : d.run[q] = c.run[q]
<1> DEFINE x == [c.run[r] EXCEPT !.infl = id]
           f == [c.run EXCEPT ![r] = x]
<1>1. c.run \in [RunIds -> [conv : Keys, infl : Keys]] /\ c.run[r] \in [conv : Keys, infl : Keys]
  BY DEF Controller
<1>2. x \in [conv : Keys, infl : Keys] /\ x.infl = id /\ x.conv = c.run[r].conv
  BY <1>1
<1> HIDE DEF x
<1>3. /\ f \in [RunIds -> [conv : Keys, infl : Keys]] /\ f[r] = x
      /\ \A q \in RunIds \ {r} : f[q] = c.run[q]
  BY <1>1, <1>2
<1>4. d = [c EXCEPT !.run = f]
  BY DEF x, Turned
<1> HIDE DEF f
<1>5. d \in Controller /\ d.m_runs = c.m_runs /\ d.active = c.active
      /\ d.activeConv = c.activeConv /\ d.run = f
  BY <1>3, <1>4 DEF Controller
<1>6. QED
  BY <1>2, <1>3, <1>5

\* ... or in the facade.
LEMMA Repoint ==
  ASSUME NEW c \in Controller, NEW r \in RunIds \cup {Nil}, NEW k \in Keys
  PROVE  LET d == repointFacade(c, r, k)
         IN  /\ d \in Controller /\ d.m_runs = c.m_runs /\ d.run = c.run
             /\ d.active = r /\ d.activeConv = k
  BY DEF Controller, repointFacade

LEMMA Rekey ==
  ASSUME NEW c \in Controller, NEW old \in Keys, NEW new \in Keys, NEW r \in RunIds
  PROVE  LET d == rekeyRun(c, old, new, r)
         IN  /\ d \in Controller /\ d.run = c.run /\ d.active = c.active
             /\ d.activeConv = c.activeConv
             /\ old = new \/ c.m_runs[old] # r => d = c
             /\ old # new /\ c.m_runs[old] = r =>
                  /\ d.m_runs[old] = Nil
                  /\ d.m_runs[new] = IF c.m_runs[new] = Nil THEN r ELSE c.m_runs[new]
                  /\ \A k \in Keys \ {old, new} : d.m_runs[k] = c.m_runs[k]
<1> DEFINE d == rekeyRun(c, old, new, r)
<1>1. CASE old = new \/ c.m_runs[old] # r
  BY <1>1 DEF rekeyRun
<1>2. CASE old # new /\ c.m_runs[old] = r
  <2> DEFINE v == IF c.m_runs[new] = Nil THEN r ELSE c.m_runs[new]
             f == [c.m_runs EXCEPT ![old] = Nil, ![new] = v]
  <2>1. c.m_runs \in [Keys -> RunIds \cup {Nil}] /\ v \in RunIds \cup {Nil}
    BY ControllerFacts
  <2> HIDE DEF v
  <2>2. /\ f \in [Keys -> RunIds \cup {Nil}] /\ f[old] = Nil /\ f[new] = v
        /\ \A k \in Keys \ {old, new} : f[k] = c.m_runs[k]
    BY <1>2, <2>1
  <2>3. d = [c EXCEPT !.m_runs = f]
    BY <1>2, <2>1 DEF rekeyRun, v, Controller
  <2> HIDE DEF f, d
  <2>4. d \in Controller /\ d.run = c.run /\ d.active = c.active
        /\ d.activeConv = c.activeConv /\ d.m_runs = f
    BY <2>2, <2>3 DEF Controller
  <2>5. QED
    BY <1>2, <2>2, <2>4 DEF v, d
<1>3. QED
  BY <1>1, <1>2

\* There is always a run id left.
LEMMA FreshRun ==
  ASSUME NEW c \in Controller, ~Dangling(c)
  PROVE  \E x \in RunIds : x # c.active /\ x \notin Live(c)
<1> DEFINE R == {c.m_runs[k] : k \in Keys}
<1>1. c.m_runs \in Surjection(Keys, R)
  BY ControllerFacts DEF Surjection
<1>2. IsFiniteSet(R) /\ Cardinality(R) <= Cardinality(Keys)
  BY <1>1, IdFacts, FS_Surjection
<1>3. Live(c) \subseteq R
  BY DEF Live
<1> HIDE DEF R
<1>4. IsFiniteSet(Live(c)) /\ Cardinality(Live(c)) <= Cardinality(R)
  BY <1>2, <1>3, FS_Subset
<1>5. Cardinality(Live(c)) \in Nat /\ Cardinality(R) \in Nat /\ Cardinality(Keys) \in Nat
  BY <1>2, <1>4, IdFacts, FS_CardinalityType
<1>6. IsFiniteSet(RunIds) /\ Cardinality(RunIds) = Cardinality(Keys) + 1
  <2> DEFINE m == Cardinality(Keys) + 1
  <2>1. m \in Int /\ 1 \in Int /\ ~(1 > m) /\ m - 1 + 1 = m
    BY <1>5
  <2> HIDE DEF m
  <2>2. IsFiniteSet(1..m) /\ Cardinality(1..m) = m
    BY <2>1, FS_Interval
  <2>3. QED
    BY <2>2 DEF RunIds, m
<1>7. Live(c) # RunIds
  BY <1>2, <1>4, <1>5, <1>6
<1>8. Live(c) \subseteq RunIds
  BY ControllerFacts
<1>9. PICK x \in RunIds : x \notin Live(c)
  BY <1>7, <1>8
<1>10. x # c.active
  BY <1>9, IdFacts DEF Dangling
<1>11. QED
  BY <1>9, <1>10

LEMMA Create ==
  ASSUME NEW c, Sound(c), ~Dangling(c), NEW k \in Keys
  PROVE  LET n == createRun(c, k)
         IN  /\ n.r \in RunIds /\ n.r # c.active /\ n.r \notin Live(c)
             /\ c.m_runs[k] # Nil => n.c = c
             /\ c.m_runs[k] = Nil =>
                  /\ n.c \in Controller /\ n.c.active = c.active /\ n.c.activeConv = c.activeConv
                  /\ n.c.m_runs[k] = n.r /\ n.c.run[n.r] = NewRun
                  /\ \A l \in Keys \ {k} : n.c.m_runs[l] = c.m_runs[l]
                  /\ \A q \in RunIds \ {n.r} : n.c.run[q] = c.run[q]
<1> DEFINE n == createRun(c, k)
           r == CHOOSE x \in RunIds : x # c.active /\ x \notin Live(c)
           e == [c EXCEPT !.m_runs[k] = r, !.run[r] = NewRun]
<1>1. c \in Controller
  BY DEF Sound
<1>2. r \in RunIds /\ r # c.active /\ r \notin Live(c)
  BY <1>1, FreshRun
<1>3. n = [r |-> r, c |-> IF c.m_runs[k] # Nil THEN c ELSE e]
  BY DEF createRun
<1> HIDE DEF r
<1> DEFINE f == [c.m_runs EXCEPT ![k] = r]
           g == [c.run EXCEPT ![r] = NewRun]
<1>4. c.m_runs \in [Keys -> RunIds \cup {Nil}] /\ c.run \in [RunIds -> [conv : Keys, infl : Keys]]
  BY <1>1, ControllerFacts
<1>5. NewRun \in [conv : Keys, infl : Keys]
  BY IdFacts DEF NewRun
<1>6. /\ f \in [Keys -> RunIds \cup {Nil}] /\ f[k] = r
      /\ \A l \in Keys \ {k} : f[l] = c.m_runs[l]
  BY <1>2, <1>4
<1>7. /\ g \in [RunIds -> [conv : Keys, infl : Keys]] /\ g[r] = NewRun
      /\ \A q \in RunIds \ {r} : g[q] = c.run[q]
  BY <1>2, <1>4, <1>5
<1>8. e = [c EXCEPT !.m_runs = f, !.run = g]
  BY <1>1 DEF Controller
<1> HIDE DEF f, g, e
<1>9. /\ e \in Controller /\ e.active = c.active /\ e.activeConv = c.activeConv
      /\ e.m_runs = f /\ e.run = g
  BY <1>1, <1>6, <1>7, <1>8 DEF Controller
<1>10. n.r = r /\ n.c = IF c.m_runs[k] # Nil THEN c ELSE e
  BY <1>3
<1> HIDE DEF n
<1>11. QED
  BY <1>2, <1>6, <1>7, <1>9, <1>10 DEF n

\* A new run disturbs nothing.
LEMMA CreateSound ==
  ASSUME NEW c, Sound(c), ~Dangling(c), NEW k \in Keys
  PROVE  Sound(createRun(c, k).c)
<1> DEFINE n == createRun(c, k)
           d == n.c
           r == n.r
<1>1. /\ r \in RunIds /\ r # c.active /\ r \notin Live(c)
      /\ c.m_runs[k] # Nil => d = c
      /\ c.m_runs[k] = Nil =>
           /\ d \in Controller /\ d.active = c.active /\ d.activeConv = c.activeConv
           /\ d.m_runs[k] = r /\ d.run[r] = NewRun
           /\ \A l \in Keys \ {k} : d.m_runs[l] = c.m_runs[l]
           /\ \A q \in RunIds \ {r} : d.run[q] = c.run[q]
  BY Create
<1> HIDE DEF n
<1>2. CASE c.m_runs[k] # Nil
  BY <1>1, <1>2 DEF n
<1>3. CASE c.m_runs[k] = Nil
  <2>1. c \in Controller /\ RunsApart(c) /\ TurnsInPlace(c) /\ FacadeFollows(c)
    BY DEF Sound
  <2>2. \A l \in Keys : c.m_runs[l] # r
    BY <1>1, <2>1, ControllerFacts, IdFacts
  <2>3. \A l \in Keys : c.m_runs[l] # Nil => c.m_runs[l] \in RunIds \ {r}
    BY <2>1, <2>2, ControllerFacts
  <2>4. RunsApart(d)
    BY <1>1, <1>3, <2>1, <2>2 DEF RunsApart
  <2>5. TurnsInPlace(d)
    BY <1>1, <1>3, <2>1, <2>3, IdFacts DEF TurnsInPlace, NewRun
  <2>6. FacadeFollows(d)
    <3>1. SUFFICES ASSUME d.active \in Live(d)
                   PROVE  /\ d.m_runs[d.activeConv] = d.active
                          /\ d.run[d.active].conv = d.activeConv
      BY DEF FacadeFollows
    <3>2. c.active \in Live(c)
      BY <1>1, <1>3, <3>1, <2>1 DEF Live
    <3>3. c.m_runs[c.activeConv] = c.active /\ c.run[c.active].conv = c.activeConv
          /\ c.activeConv \in Keys /\ c.active \in RunIds /\ c.active # Nil
      BY <2>1, <3>2, ControllerFacts DEF FacadeFollows
    <3>4. QED
      BY <1>1, <1>3, <3>3
  <2>7. QED
    BY <1>1, <1>3, <2>4, <2>5, <2>6 DEF Sound, n
<1>4. QED
  BY <1>2, <1>3 DEF n

\* Destroyed runs carry nothing, and nothing depends on them.
LEMMA Reaped ==
  ASSUME NEW c \in Controller
  PROVE  LET d == reaped(c)
         IN  /\ d \in Controller /\ d.m_runs = c.m_runs /\ d.active = c.active
             /\ d.activeConv = c.activeConv /\ Live(d) = Live(c)
             /\ \A r \in Live(c) : d.run[r] = c.run[r]
             /\ isAnyConvGenerating(d) <=> isAnyConvGenerating(c)
<1> DEFINE d == reaped(c)
           f == [r \in RunIds |-> IF r \in Live(c) THEN c.run[r] ELSE NewRun]
<1>1. f \in [RunIds -> [conv : Keys, infl : Keys]]
  BY ControllerFacts, IdFacts DEF NewRun
<1>2. d = [c EXCEPT !.run = f]
  BY DEF reaped
<1>3. \A r \in Live(c) : f[r] = c.run[r]
  BY ControllerFacts
<1> HIDE DEF f, d
<1>4. /\ d \in Controller /\ d.m_runs = c.m_runs /\ d.active = c.active
      /\ d.activeConv = c.activeConv /\ d.run = f
  BY <1>1, <1>2 DEF Controller
<1>5. Live(d) = Live(c)
  BY <1>4 DEF Live
<1>6. isAnyConvGenerating(d) <=> isAnyConvGenerating(c)
  BY <1>3, <1>4, <1>5 DEF isAnyConvGenerating, generating
<1>7. QED
  BY <1>3, <1>4, <1>5, <1>6 DEF d

LEMMA ReapedSound ==
  ASSUME NEW c, Sound(c)
  PROVE  Sound(reaped(c))
<1> DEFINE d == reaped(c)
<1>1. c \in Controller /\ RunsApart(c) /\ TurnsInPlace(c) /\ FacadeFollows(c)
  BY DEF Sound
<1>2. /\ d \in Controller /\ d.m_runs = c.m_runs /\ d.active = c.active
      /\ d.activeConv = c.activeConv /\ Live(d) = Live(c)
      /\ \A r \in Live(c) : d.run[r] = c.run[r]
  BY <1>1, Reaped
<1> HIDE DEF d
<1>3. \A k \in Keys : c.m_runs[k] # Nil => c.m_runs[k] \in Live(c)
  BY <1>1, ControllerFacts
<1>4. RunsApart(d) /\ TurnsInPlace(d) /\ FacadeFollows(d)
  BY <1>1, <1>2, <1>3 DEF RunsApart, TurnsInPlace, FacadeFollows
<1>5. QED
  BY <1>2, <1>4 DEF Sound, d

---------------------------------------------------------------------------
\* What the operations make of a sound controller

\* A turn starts in its place, or ends; what happens to a destroyed run is lost.
LEMMA TurnSound ==
  ASSUME NEW c, Sound(c), NEW r \in RunIds, NEW v \in Keys,
         \A k \in Keys : c.m_runs[k] = r => v \in {k, NoConv},
         NEW d, d = Turned(c, r, v)
  PROVE  Sound(d)
<1>1. c \in Controller /\ RunsApart(c) /\ TurnsInPlace(c) /\ FacadeFollows(c)
  BY DEF Sound
<1>2. /\ d \in Controller /\ d.m_runs = c.m_runs /\ d.active = c.active
      /\ d.activeConv = c.activeConv /\ d.run[r].infl = v /\ d.run[r].conv = c.run[r].conv
      /\ \A q \in RunIds \ {r} : d.run[q] = c.run[q]
  BY <1>1, SetTurn
<1>3. \A k \in Keys : c.m_runs[k] # Nil => c.m_runs[k] \in RunIds
  BY <1>1, ControllerFacts
<1>4. RunsApart(d)
  BY <1>1, <1>2 DEF RunsApart
<1>5. TurnsInPlace(d)
  BY <1>1, <1>2, <1>3 DEF TurnsInPlace
<1>6. FacadeFollows(d)
  <2>1. Live(d) = Live(c) /\ Live(c) \subseteq RunIds
    BY <1>1, <1>2, ControllerFacts DEF Live
  <2>2. QED
    BY <1>1, <1>2, <2>1 DEF FacadeFollows
<1>7. QED
  BY <1>2, <1>4, <1>5, <1>6 DEF Sound

\* A run in the background shows the conversation of its key, or none.
LEMMA ConvSound ==
  ASSUME NEW c, Sound(c), NEW r \in RunIds, r # c.active, NEW v \in Keys,
         \A k \in Keys : c.m_runs[k] = r => v \in {k, NoConv},
         NEW d, d = Showing(c, r, v)
  PROVE  Sound(d)
<1>1. c \in Controller /\ RunsApart(c) /\ TurnsInPlace(c) /\ FacadeFollows(c)
  BY DEF Sound
<1>2. /\ d \in Controller /\ d.m_runs = c.m_runs /\ d.active = c.active
      /\ d.activeConv = c.activeConv /\ d.run[r].conv = v /\ d.run[r].infl = c.run[r].infl
      /\ \A q \in RunIds \ {r} : d.run[q] = c.run[q]
  BY <1>1, SetConv
<1>3. \A k \in Keys : c.m_runs[k] # Nil => c.m_runs[k] \in RunIds
  BY <1>1, ControllerFacts
<1>4. RunsApart(d)
  BY <1>1, <1>2 DEF RunsApart
<1>5. TurnsInPlace(d)
  BY <1>1, <1>2, <1>3 DEF TurnsInPlace
<1>6. FacadeFollows(d)
  <2>1. Live(d) = Live(c) /\ Live(c) \subseteq RunIds
    BY <1>1, <1>2, ControllerFacts DEF Live
  <2>2. QED
    BY <1>1, <1>2, <2>1 DEF FacadeFollows
<1>7. QED
  BY <1>2, <1>4, <1>5, <1>6 DEF Sound

\* The facade moves to the run of a key that shows its conversation.
LEMMA RepointSound ==
  ASSUME NEW c, Sound(c), NEW r \in RunIds \cup {Nil}, NEW k \in Keys,
         r \in Live(c) => c.m_runs[k] = r /\ c.run[r].conv = k
  PROVE  Sound(repointFacade(c, r, k))
<1> DEFINE d == repointFacade(c, r, k)
<1>1. c \in Controller /\ RunsApart(c) /\ TurnsInPlace(c)
  BY DEF Sound
<1>2. /\ d \in Controller /\ d.m_runs = c.m_runs /\ d.run = c.run
      /\ d.active = r /\ d.activeConv = k
  BY <1>1, Repoint
<1> HIDE DEF d
<1>3. Live(d) = Live(c)
  BY <1>2 DEF Live
<1>4. RunsApart(d) /\ TurnsInPlace(d) /\ FacadeFollows(d)
  BY <1>1, <1>2, <1>3 DEF RunsApart, TurnsInPlace, FacadeFollows
<1>5. QED
  BY <1>2, <1>4 DEF Sound, d

LEMMA ActiveInPlace ==
  ASSUME NEW c, Sound(c), ~Dangling(c)
  PROVE  /\ rekeyActiveRunIfNeeded(c) = c
         /\ c.active # Nil => /\ c.active \in Live(c) /\ c.active \in RunIds
                              /\ c.activeConv \in Keys
                              /\ c.m_runs[c.activeConv] = c.active
                              /\ c.run[c.active].conv = c.activeConv
<1>1. c \in Controller /\ FacadeFollows(c)
  BY DEF Sound
<1>2. ASSUME c.active # Nil
      PROVE  /\ c.active \in Live(c) /\ c.active \in RunIds /\ c.activeConv \in Keys
             /\ c.m_runs[c.activeConv] = c.active
             /\ c.run[c.active].conv = c.activeConv
  BY <1>1, <1>2, ControllerFacts DEF Dangling, FacadeFollows
<1>3. QED
  BY <1>2 DEF rekeyActiveRunIfNeeded

\* The active run takes another key and shows its conversation; it is destroyed
\* when the key is taken.
LEMMA MoveSound ==
  ASSUME NEW c, Sound(c), ~Dangling(c), c.active # Nil, NEW id \in Keys, id # c.activeConv,
         ~generating(c, c.active), NEW d \in Controller,
         d.active = c.active, d.activeConv = id,
         d.m_runs[c.activeConv] = Nil,
         d.m_runs[id] = IF c.m_runs[id] = Nil THEN c.active ELSE c.m_runs[id],
         \A k \in Keys \ {c.activeConv, id} : d.m_runs[k] = c.m_runs[k],
         d.run[c.active].conv = id, d.run[c.active].infl = c.run[c.active].infl,
         \A q \in RunIds \ {c.active} : d.run[q] = c.run[q]
  PROVE  Sound(d)
<1> DEFINE r == c.active
           old == c.activeConv
<1>1. c \in Controller /\ RunsApart(c) /\ TurnsInPlace(c)
  BY DEF Sound
<1>2. r \in RunIds /\ r # Nil /\ old \in Keys /\ c.m_runs[old] = r
  BY ActiveInPlace
<1>3. c.run[r].infl = NoConv
  BY DEF generating
<1>4. \A k \in Keys \ {old} : c.m_runs[k] # r
  BY <1>1, <1>2 DEF RunsApart
<1>5. \A k \in Keys : c.m_runs[k] # Nil => c.m_runs[k] \in RunIds
  BY <1>1, ControllerFacts
<1> HIDE DEF r, old
<1>6. RunsApart(d)
  BY <1>1, <1>2, <1>4 DEF RunsApart, r, old
<1>7. \A k \in Keys : d.m_runs[k] # Nil => \/ k = id /\ d.m_runs[k] = r
                                           \/ k # old /\ d.m_runs[k] = c.m_runs[k]
  BY <1>2 DEF r, old
<1>8. TurnsInPlace(d)
  BY <1>1, <1>2, <1>3, <1>4, <1>5, <1>7 DEF TurnsInPlace, r, old
<1>9. FacadeFollows(d)
  <2>1. SUFFICES ASSUME r \in Live(d)
                 PROVE  d.m_runs[id] = r /\ d.run[r].conv = id
    BY DEF FacadeFollows, r
  <2>2. PICK k \in Keys : d.m_runs[k] = r
    BY <2>1, ControllerFacts
  <2>3. k = id
    BY <1>2, <1>4, <1>7, <2>2
  <2>4. QED
    BY <2>2, <2>3 DEF r
<1>10. QED
  BY <1>6, <1>8, <1>9 DEF Sound

\* A run that is not active adopts a conversation.
LEMMA AdoptElsewhere ==
  ASSUME NEW c \in Controller, NEW r \in RunIds, r # c.active, NEW id \in Keys
  PROVE  adopt(c, r, id) = Showing(c, r, id)
  BY DEF adopt, Showing

\* What a switch keeps: the turns, and the other keys' runs unless it moves one.
Keeps(d, c, id) ==
  /\ \A k \in Keys : c.m_runs[k] # Nil /\ generating(c, c.m_runs[k]) =>
        /\ d.m_runs[k] = c.m_runs[k]
        /\ d.run[c.m_runs[k]].infl = c.run[c.m_runs[k]].infl
  /\ \A k \in Keys \ {id} : d.m_runs[k] \in {c.m_runs[k], Nil}

\* To a conversation whose run exists.
LEMMA SwitchToRun ==
  ASSUME NEW c, Sound(c), ~Dangling(c), NEW id \in Convs, NEW exists \in BOOLEAN, exists,
         ~(id = c.activeConv /\ c.active # Nil), c.m_runs[id] # Nil
  PROVE  LET n == switchConversation(c, id, exists)
         IN  Sound(n.c) /\ Keeps(n.c, c, id) /\ n.repoints = TRUE
<1> DEFINE r == c.m_runs[id]
           k == runSwitches(c, r, id, exists)
           d == repointFacade(k, r, id)
<1>1. /\ c \in Controller /\ RunsApart(c) /\ TurnsInPlace(c) /\ id \in Keys /\ id # NoConv
  BY IdFacts, ConvsAssumption DEF Sound
<1>2. rekeyActiveRunIfNeeded(c) = c
  BY ActiveInPlace
<1>3. switchConversation(c, id, exists) = [c |-> d, repoints |-> TRUE]
  BY <1>1, <1>2 DEF switchConversation
<1>4. r \in RunIds /\ r \in Live(c)
  BY <1>1, ControllerFacts
<1>5. r # c.active
  BY <1>1, ActiveInPlace DEF RunsApart
<1>6. c.run[r].conv \in {id, NoConv} /\ \A l \in Keys : c.m_runs[l] = r => l = id
  BY <1>1, <1>4 DEF TurnsInPlace, RunsApart
<1>7. /\ Sound(k) /\ k.m_runs = c.m_runs /\ k.run[r].conv = id
      /\ \A q \in RunIds : k.run[q].infl = c.run[q].infl
  <2>1. CASE c.run[r].conv = id
    BY <2>1 DEF runSwitches
  <2>2. CASE c.run[r].conv # id
    <3>1. k = Showing(c, r, id)
      BY <1>1, <1>4, <1>5, <2>2, AdoptElsewhere DEF runSwitches
    <3>2. \A l \in Keys : c.m_runs[l] = r => id \in {l, NoConv}
      BY <1>6
    <3> HIDE DEF k, r
    <3>3. Sound(k)
      BY <1>1, <1>4, <1>5, <3>1, <3>2, ConvSound
    <3>4. /\ k.m_runs = c.m_runs /\ k.run[r].conv = id /\ k.run[r].infl = c.run[r].infl
          /\ \A q \in RunIds \ {r} : k.run[q] = c.run[q]
      BY <1>1, <1>4, <3>1, SetConv
    <3>5. QED
      BY <3>3, <3>4
  <2>3. QED
    BY <2>1, <2>2
<1> HIDE DEF k, r
<1>8. Sound(d)
  BY <1>1, <1>4, <1>7, RepointSound DEF r
<1>9. d.m_runs = k.m_runs /\ d.run = k.run
  BY <1>1, <1>4, <1>7, Repoint DEF Sound
<1>10. Keeps(d, c, id)
  BY <1>1, <1>7, <1>9, ControllerFacts DEF Keeps
<1> HIDE DEF d
<1> DEFINE s == switchConversation(c, id, exists)
<1>11. s.c = d /\ s.repoints
  <2>1. s = [c |-> d, repoints |-> TRUE]
    BY <1>3
  <2> HIDE DEF s
  <2>2. QED
    BY <2>1
<1>12. QED
  BY <1>8, <1>10, <1>11

\* The idle active run moves on to the conversation.
LEMMA SwitchMoves ==
  ASSUME NEW c, Sound(c), ~Dangling(c), NEW id \in Convs, NEW exists \in BOOLEAN, exists,
         id # c.activeConv, c.m_runs[id] = Nil, mayReuse(c)
  PROVE  LET n == switchConversation(c, id, exists)
         IN  /\ Sound(n.c) /\ Keeps(n.c, c, id) /\ n.repoints = FALSE
             /\ n.c.active = c.active
<1> DEFINE r == c.active
           old == c.activeConv
           b == [c EXCEPT !.activeConv = id]
           m == rekeyRun(b, old, id, r)
           k == Showing(m, r, id)
           d == [k EXCEPT !.activeConv = k.run[k.active].conv]
<1>1. /\ c \in Controller /\ RunsApart(c) /\ id \in Keys /\ id # NoConv
  BY IdFacts, ConvsAssumption DEF Sound
<1>2. /\ r # Nil /\ ~generating(c, r) /\ r \in RunIds /\ old \in Keys
      /\ c.m_runs[old] = r /\ c.run[r].conv = old
  BY ActiveInPlace DEF mayReuse
<1>3. /\ b \in Controller /\ b.m_runs = c.m_runs /\ b.run = c.run /\ b.active = r
      /\ b.activeConv = id
  BY <1>1 DEF Controller
<1> HIDE DEF b
<1>4. /\ m \in Controller /\ m.run = c.run /\ m.active = r /\ m.activeConv = id
      /\ m.m_runs[old] = Nil /\ m.m_runs[id] = r
      /\ \A l \in Keys \ {old, id} : m.m_runs[l] = c.m_runs[l]
  <2>1. /\ m \in Controller /\ m.run = b.run /\ m.active = b.active
        /\ m.activeConv = b.activeConv
        /\ old # id /\ b.m_runs[old] = r =>
             /\ m.m_runs[old] = Nil
             /\ m.m_runs[id] = IF b.m_runs[id] = Nil THEN r ELSE b.m_runs[id]
             /\ \A l \in Keys \ {old, id} : m.m_runs[l] = b.m_runs[l]
    <3>1. b \in Controller /\ old \in Keys /\ id \in Keys /\ r \in RunIds
      BY <1>1, <1>2, <1>3
    <3> HIDE DEF old, r
    <3>2. QED
      BY <3>1, Rekey
  <2> HIDE DEF m
  <2>2. QED
    BY <1>2, <1>3, <2>1
<1> HIDE DEF m
<1>5. /\ k \in Controller /\ k.m_runs = m.m_runs /\ k.active = r
      /\ k.activeConv = id /\ k.run[r].conv = id /\ k.run[r].infl = c.run[r].infl
      /\ \A q \in RunIds \ {r} : k.run[q] = c.run[q]
  <2>1. m \in Controller /\ r \in RunIds /\ id \in Keys
    BY <1>1, <1>2, <1>4
  <2> HIDE DEF r
  <2>2. QED
    BY <1>4, <2>1, SetConv
<1>6. runSwitches(m, r, id, exists) = k
  <2>1. [m EXCEPT !.run[r].conv = id] = k
    BY DEF Showing
  <2>2. rekeyActiveRunIfNeeded(k) = k
    <3> HIDE DEF k
    <3>1. QED
      BY <1>2, <1>5 DEF rekeyActiveRunIfNeeded
  <2>3. adopt(m, r, id) = k
    BY <1>4, <2>1, <2>2 DEF adopt
  <2>4. m.run[r].conv # id
    BY <1>2, <1>4
  <2>5. QED
    BY <2>3, <2>4 DEF runSwitches
<1>7. switchConversation(c, id, exists) = [c |-> d, repoints |-> FALSE]
  BY <1>1, <1>2, <1>6 DEF switchConversation, m, b
<1> HIDE DEF k
<1>8. d \in Controller /\ d.m_runs = m.m_runs /\ d.run = k.run /\ d.active = r /\ d.activeConv = id
  BY <1>1, <1>5 DEF Controller
<1> HIDE DEF d
<1>9. Sound(d)
  BY <1>1, <1>2, <1>4, <1>5, <1>8, MoveSound
<1>10. Keeps(d, c, id)
  <2>1. \A l \in Keys : c.m_runs[l] # Nil /\ generating(c, c.m_runs[l]) =>
           l \notin {old, id} /\ c.m_runs[l] \in RunIds \ {r}
    BY <1>1, <1>2, ControllerFacts DEF generating
  <2>2. QED
    BY <1>4, <1>5, <1>8, <2>1 DEF Keeps
<1> DEFINE s == switchConversation(c, id, exists)
<1>11. s.c = d /\ s.repoints = FALSE
  <2>1. s = [c |-> d, repoints |-> FALSE]
    BY <1>7
  <2> HIDE DEF s
  <2>2. QED
    BY <2>1
<1>12. QED
  BY <1>8, <1>9, <1>10, <1>11

\* A run is created for the conversation.
LEMMA SwitchCreates ==
  ASSUME NEW c, Sound(c), ~Dangling(c), NEW id \in Convs, NEW exists \in BOOLEAN, exists,
         ~(id = c.activeConv /\ c.active # Nil), c.m_runs[id] = Nil, 
         ~(id # c.activeConv /\ mayReuse(c))
  PROVE  LET n == switchConversation(c, id, exists)
         IN  Sound(n.c) /\ Keeps(n.c, c, id) /\ n.repoints = TRUE
<1> DEFINE n == createRun(c, id)
           r == n.r
           e == n.c
           k == Showing(e, r, id)
           d == repointFacade(k, r, id)
<1>1. /\ c \in Controller /\ RunsApart(c) /\ id \in Keys /\ id # NoConv
  BY IdFacts, ConvsAssumption DEF Sound
<1>2. /\ r \in RunIds /\ r # c.active /\ r \notin Live(c)
      /\ e \in Controller /\ e.active = c.active /\ e.activeConv = c.activeConv
      /\ e.m_runs[id] = r /\ e.run[r] = NewRun
      /\ \A l \in Keys \ {id} : e.m_runs[l] = c.m_runs[l]
      /\ \A q \in RunIds \ {r} : e.run[q] = c.run[q]
  BY <1>1, Create
<1>3. Sound(e)
  BY <1>1, CreateSound
<1>4. runSwitches(e, r, id, exists) = k
  <2>1. e.run[r].conv # id
    BY <1>1, <1>2 DEF NewRun
  <2>2. adopt(e, r, id) = k
    BY <1>1, <1>2, AdoptElsewhere
  <2>3. QED
    BY <2>1, <2>2 DEF runSwitches
<1>5. switchConversation(c, id, exists) = [c |-> d, repoints |-> TRUE]
  BY <1>1, <1>4 DEF switchConversation
<1> HIDE DEF n
<1>6. \A l \in Keys : e.m_runs[l] = r => id \in {l, NoConv}
  <2>1. e.m_runs[id] # Nil
    BY <1>2, IdFacts
  <2>2. QED
    BY <1>1, <1>2, <1>3, <2>1 DEF Sound, RunsApart
<1>7. Sound(k)
  BY <1>1, <1>2, <1>3, <1>6, ConvSound
<1>8. /\ k \in Controller /\ k.m_runs = e.m_runs /\ k.run[r].conv = id
      /\ \A q \in RunIds \ {r} : k.run[q] = e.run[q]
  BY <1>1, <1>2, SetConv
<1> HIDE DEF k
<1>9. Sound(d)
  BY <1>1, <1>2, <1>7, <1>8, RepointSound
<1>10. d.m_runs = k.m_runs /\ d.run = k.run
  BY <1>1, <1>2, <1>8, Repoint
<1> HIDE DEF d
<1>11. Keeps(d, c, id)
  <2>1. \A l \in Keys : c.m_runs[l] # Nil => c.m_runs[l] \in RunIds \ {r} /\ l # id
    BY <1>1, <1>2, ControllerFacts
  <2>2. QED
    BY <1>2, <1>8, <1>10, <2>1 DEF Keeps
<1> DEFINE s == switchConversation(c, id, exists)
<1>12. s.c = d /\ s.repoints
  <2>1. s = [c |-> d, repoints |-> TRUE]
    BY <1>5
  <2> HIDE DEF s
  <2>2. QED
    BY <2>1
<1>13. QED
  BY <1>9, <1>11, <1>12

\* switchConversation
LEMMA SwitchSound ==
  ASSUME NEW c, Sound(c), ~Dangling(c), NEW id \in Keys, NEW exists \in BOOLEAN,
         id # NoConv => exists
  PROVE  LET n == switchConversation(c, id, exists)
         IN  /\ Sound(n.c) /\ Keeps(n.c, c, id)
             /\ n.repoints \in BOOLEAN
             /\ ~n.repoints => n.c.active = c.active
<1>1. c \in Controller
  BY DEF Sound
<1>2. CASE id = NoConv
  <2> DEFINE d == repointFacade(c, Nil, NoConv)
  <2>1. switchConversation(c, id, exists) = [c |-> d, repoints |-> TRUE]
    BY <1>2 DEF switchConversation
  <2>2. Sound(d)
    BY <1>1, IdFacts, ControllerFacts, RepointSound
  <2>3. d.m_runs = c.m_runs /\ d.run = c.run
    BY <1>1, IdFacts, Repoint
  <2> HIDE DEF d
  <2>4. QED
    BY <2>1, <2>2, <2>3 DEF Keeps
<1>3. CASE id # NoConv
  <2>1. id \in Convs /\ exists = TRUE
    BY <1>3 DEF Keys
  <2>2. CASE id = c.activeConv /\ c.active # Nil
    <3>1. switchConversation(c, id, exists) = [c |-> c, repoints |-> FALSE]
      BY <1>3, <2>2 DEF switchConversation
    <3>2. QED
      BY <3>1 DEF Keeps
  <2>3. CASE ~(id = c.activeConv /\ c.active # Nil) /\ c.m_runs[id] # Nil
    BY <2>1, <2>3, SwitchToRun
  <2>4. CASE ~(id = c.activeConv /\ c.active # Nil) /\ c.m_runs[id] = Nil /\ id # c.activeConv /\ mayReuse(c)
    BY <2>1, <2>4, SwitchMoves
  <2>5. CASE ~(id = c.activeConv /\ c.active # Nil) /\ c.m_runs[id] = Nil /\ ~(id # c.activeConv /\ mayReuse(c))
    BY <2>1, <2>5, SwitchCreates
  <2>6. QED
    BY <2>2, <2>3, <2>4, <2>5
<1>4. QED
  BY <1>2, <1>3

\* What a facade without a run shows is no concern of the map.
LEMMA DeadSound ==
  ASSUME NEW c, Sound(c), NEW d \in Controller, d.m_runs = c.m_runs,
         \A q \in Live(c) : d.run[q] = c.run[q], d.active \notin Live(c)
  PROVE  Sound(d)
<1>1. c \in Controller /\ RunsApart(c) /\ TurnsInPlace(c)
  BY DEF Sound
<1>2. Live(d) = Live(c) /\ \A k \in Keys : c.m_runs[k] # Nil => c.m_runs[k] \in Live(c)
  BY <1>1, ControllerFacts DEF Live
<1>3. RunsApart(d) /\ TurnsInPlace(d) /\ FacadeFollows(d)
  BY <1>1, <1>2 DEF RunsApart, TurnsInPlace, FacadeFollows
<1>4. QED
  BY <1>3 DEF Sound

\* The active run lets go of its conversation for another: adopt, of it.
LEMMA AdoptActive ==
  ASSUME NEW c, Sound(c), c.active # Nil, ~generating(c, c.active), NEW id \in Keys,
         id # c.run[c.active].conv
  PROVE  LET d == adopt(c, c.active, id)
         IN  /\ Sound(d) /\ d.active = c.active /\ d.activeConv = id
             /\ ~generating(d, c.active)
             /\ \A k \in Keys : d.m_runs[k] = c.active => k = id
             /\ \A k \in Keys \ {id, c.run[c.active].conv} : d.m_runs[k] = c.m_runs[k]
             /\ c.active \in Live(c) => d.m_runs[c.activeConv] = Nil
<1> DEFINE r == c.active
           b == Showing(c, r, id)
           m == rekeyRun(b, b.activeConv, id, r)
           d == adopt(c, r, id)
<1>1. c \in Controller /\ RunsApart(c) /\ r \in RunIds /\ c.activeConv \in Keys
  BY ControllerFacts DEF Sound
<1>2. /\ b \in Controller /\ b.m_runs = c.m_runs /\ b.active = r
      /\ b.activeConv = c.activeConv /\ b.run[r].conv = id /\ b.run[r].infl = c.run[r].infl
      /\ \A q \in RunIds \ {r} : b.run[q] = c.run[q]
  BY <1>1, SetConv
<1>3. d = IF id = c.activeConv THEN b ELSE [m EXCEPT !.activeConv = id]
  <2>1. d = rekeyActiveRunIfNeeded(b)
    BY DEF adopt, Showing
  <2> HIDE DEF b, d
  <2>2. QED
    BY <1>2, <2>1 DEF rekeyActiveRunIfNeeded
<1>4. /\ m \in Controller /\ m.run = b.run /\ m.active = r /\ m.activeConv = c.activeConv
      /\ c.activeConv = id \/ c.m_runs[c.activeConv] # r => m = b
      /\ c.activeConv # id /\ c.m_runs[c.activeConv] = r =>
           /\ m.m_runs[c.activeConv] = Nil
           /\ m.m_runs[id] = IF c.m_runs[id] = Nil THEN r ELSE c.m_runs[id]
           /\ \A k \in Keys \ {c.activeConv, id} : m.m_runs[k] = c.m_runs[k]
  <2>1. b \in Controller /\ b.activeConv \in Keys /\ id \in Keys /\ r \in RunIds
    BY <1>1, <1>2
  <2> HIDE DEF b, r
  <2>2. /\ m \in Controller /\ m.run = b.run /\ m.active = b.active /\ m.activeConv = b.activeConv
        /\ b.activeConv = id \/ b.m_runs[b.activeConv] # r => m = b
        /\ b.activeConv # id /\ b.m_runs[b.activeConv] = r =>
             /\ m.m_runs[b.activeConv] = Nil
             /\ m.m_runs[id] = IF b.m_runs[id] = Nil THEN r ELSE b.m_runs[id]
             /\ \A k \in Keys \ {b.activeConv, id} : m.m_runs[k] = b.m_runs[k]
    BY <2>1, Rekey
  <2> HIDE DEF m
  <2>3. QED
    BY <1>2, <2>2
<1> HIDE DEF b, m
<1>5. d \in Controller /\ d.run = b.run /\ d.active = r /\ d.activeConv = id
      /\ d.m_runs = IF id = c.activeConv THEN b.m_runs ELSE m.m_runs
  <2> HIDE DEF d, r
  <2>1. QED
    BY <1>2, <1>3, <1>4 DEF Controller
<1> HIDE DEF d
<1>6. ~generating(d, r)
  BY <1>2, <1>5 DEF generating
<1>7. CASE r \in Live(c)
  <2>1. c.m_runs[c.activeConv] = r /\ c.run[r].conv = c.activeConv /\ ~Dangling(c)
    BY <1>7 DEF Sound, FacadeFollows, Dangling
  <2>2. id # c.activeConv
    BY <2>1
  <2>3. Sound(d)
    BY <1>1, <1>2, <1>4, <1>5, <2>1, <2>2, MoveSound
  <2>4. \A k \in Keys : d.m_runs[k] = r => k = id
    BY <1>1, <1>4, <1>5, <2>1, <2>2 DEF RunsApart
  <2>5. QED
    BY <1>4, <1>5, <1>6, <2>1, <2>2, <2>3, <2>4 DEF d
<1>8. CASE r \notin Live(c)
  <2>1. \A k \in Keys : c.m_runs[k] # r
    BY <1>1, <1>8, ControllerFacts, IdFacts
  <2>2. d.m_runs = c.m_runs
    BY <1>1, <1>2, <1>4, <1>5, <2>1
  <2>3. \A q \in Live(c) : d.run[q] = c.run[q]
    BY <1>1, <1>2, <1>5, <1>8, ControllerFacts
  <2>4. Sound(d)
    BY <1>5, <1>8, <2>2, <2>3, DeadSound
  <2>5. QED
    BY <1>5, <1>6, <1>8, <2>1, <2>2, <2>4 DEF d
<1>9. QED
  BY <1>7, <1>8

LEMMA EnsureSound ==
  ASSUME NEW c, Sound(c), ~Dangling(c)
  PROVE  LET d == ensureActiveRun(c)
         IN  /\ Sound(d) /\ d.active # Nil
             /\ \A k \in Keys \ {NoConv} : d.m_runs[k] = c.m_runs[k]
<1> DEFINE n == createRun(c, NoConv)
           d == ensureActiveRun(c)
<1>1. CASE c.active # Nil
  BY <1>1 DEF ensureActiveRun
<1>2. CASE c.active = Nil
  <2>1. d = repointFacade(n.c, n.r, NoConv)
    BY <1>2 DEF ensureActiveRun
  <2>2. Sound(n.c)
    BY IdFacts, CreateSound
  <2>3. /\ n.r \in RunIds /\ n.r \notin Live(c)
        /\ c.m_runs[NoConv] # Nil => n.c = c
        /\ c.m_runs[NoConv] = Nil =>
             /\ n.c.m_runs[NoConv] = n.r /\ n.c.run[n.r] = NewRun
             /\ \A l \in Keys \ {NoConv} : n.c.m_runs[l] = c.m_runs[l]
    BY IdFacts, Create
  <2> HIDE DEF n, d
  <2>4. n.r \in Live(n.c) => n.c.m_runs[NoConv] = n.r /\ n.c.run[n.r].conv = NoConv
    BY <2>3 DEF NewRun
  <2>5. Sound(repointFacade(n.c, n.r, NoConv))
    BY <2>2, <2>3, <2>4, IdFacts, RepointSound
  <2>6. d.m_runs = n.c.m_runs /\ d.active = n.r
    BY <2>1, <2>2, <2>3, IdFacts, Repoint DEF Sound
  <2>7. QED
    BY <2>1, <2>3, <2>5, <2>6, IdFacts DEF d
<1>3. QED
  BY <1>1, <1>2

\* sendMessage where no conversation is shown.
LEMMA SendNewSound ==
  ASSUME NEW b, Sound(b), ~Dangling(b), NEW id \in Convs,
         NEW c, c = ensureActiveRun(b),
         c.run[c.active].conv = NoConv, ~generating(c, c.active),
         NEW d, d = Turned(adopt(c, c.active, id), c.active, id)
  PROVE  Sound(d) /\ \A k \in Convs \ {id} : d.m_runs[k] = b.m_runs[k]
<1> DEFINE r == c.active
           e == adopt(c, r, id)
<1>1. id \in Keys /\ id # NoConv /\ NoConv \notin Convs
  BY IdFacts, ConvsAssumption
<1>2. Sound(c) /\ r # Nil /\ \A k \in Keys \ {NoConv} : c.m_runs[k] = b.m_runs[k]
  BY EnsureSound
<1>3. /\ Sound(e) /\ \A k \in Keys : e.m_runs[k] = r => k = id
      /\ \A k \in Keys \ {id, NoConv} : e.m_runs[k] = c.m_runs[k]
  BY <1>1, <1>2, AdoptActive
<1>4. r \in RunIds
  BY <1>2, ControllerFacts DEF Sound
<1> HIDE DEF e, r
<1>5. d = Turned(e, r, id)
  BY DEF e, r
<1>6. Sound(d)
  BY <1>1, <1>3, <1>4, <1>5, TurnSound
<1>7. d.m_runs = e.m_runs
  BY <1>1, <1>3, <1>4, <1>5, SetTurn DEF Sound
<1>8. QED
  BY <1>1, <1>2, <1>3, <1>6, <1>7 DEF Keys

\* A turn in the background, in the run of its conversation.
LEMMA RunForSound ==
  ASSUME NEW c, Sound(c), ~Dangling(c), NEW id \in Keys
  PROVE  LET n == runFor(c, id)
         IN  /\ Sound(n.c) /\ n.r \in RunIds /\ n.c.m_runs[id] = n.r
             /\ n.c.active = c.active /\ Sound(Turned(n.c, n.r, id))
             /\ Turned(n.c, n.r, id).m_runs = n.c.m_runs
             /\ Turned(n.c, n.r, id).active = c.active
             /\ \A k \in Keys \ {id} : n.c.m_runs[k] = c.m_runs[k]
<1> DEFINE n == runFor(c, id)
           d == Turned(n.c, n.r, id)
<1>1. c \in Controller
  BY DEF Sound
<1>2. /\ Sound(n.c) /\ n.r \in RunIds /\ n.c.m_runs[id] = n.r /\ n.c.active = c.active
      /\ \A k \in Keys \ {id} : n.c.m_runs[k] = c.m_runs[k]
  <2>1. CASE c.m_runs[id] # Nil
    BY <1>1, <2>1, ControllerFacts DEF runFor
  <2>2. CASE c.m_runs[id] = Nil
    <3>1. n = createRun(c, id)
      BY <2>2 DEF runFor
    <3> HIDE DEF n
    <3>2. QED
      BY <2>2, <3>1, Create, CreateSound
  <2>3. QED
    BY <2>1, <2>2
<1> HIDE DEF n
<1>3. \A k \in Keys : n.c.m_runs[k] = n.r => id \in {k, NoConv}
  BY <1>2, IdFacts DEF Sound, RunsApart
<1>4. Sound(d)
  BY <1>2, <1>3, TurnSound
<1>5. d.m_runs = n.c.m_runs /\ d.active = c.active
  BY <1>2, SetTurn DEF Sound
<1> HIDE DEF d
<1>6. QED
  BY <1>2, <1>4, <1>5 DEF n, d

\* A key is forgotten.
LEMMA ForgetSound ==
  ASSUME NEW c, Sound(c), NEW id \in Keys
  PROVE  LET d == [c EXCEPT !.m_runs[id] = Nil]
         IN  /\ Sound(d) /\ d.active = c.active /\ d.m_runs[id] = Nil
             /\ \A k \in Keys \ {id} : d.m_runs[k] = c.m_runs[k]
<1> DEFINE f == [c.m_runs EXCEPT ![id] = Nil]
           d == [c EXCEPT !.m_runs[id] = Nil]
<1>1. c \in Controller /\ RunsApart(c) /\ TurnsInPlace(c) /\ FacadeFollows(c)
  BY DEF Sound
<1>2. /\ f \in [Keys -> RunIds \cup {Nil}] /\ f[id] = Nil
      /\ \A k \in Keys \ {id} : f[k] = c.m_runs[k]
  BY <1>1, ControllerFacts
<1>3. d = [c EXCEPT !.m_runs = f]
  BY <1>1
<1> HIDE DEF f, d
<1>4. /\ d \in Controller /\ d.m_runs = f /\ d.run = c.run /\ d.active = c.active
      /\ d.activeConv = c.activeConv
  BY <1>1, <1>2, <1>3 DEF Controller
<1>5. RunsApart(d)
  BY <1>1, <1>2, <1>4 DEF RunsApart
<1>6. TurnsInPlace(d)
  BY <1>1, <1>2, <1>4 DEF TurnsInPlace
<1>7. FacadeFollows(d)
  <2>1. SUFFICES ASSUME c.active \in Live(d)
                 PROVE  d.m_runs[c.activeConv] = c.active /\ c.run[c.active].conv = c.activeConv
    BY <1>4 DEF FacadeFollows
  <2>2. PICK k \in Keys : d.m_runs[k] = c.active /\ c.active # Nil
    BY <1>4, <2>1, ControllerFacts
  <2>3. k # id /\ c.m_runs[k] = c.active
    BY <1>2, <1>4, <2>2
  <2>4. c.active \in Live(c)
    BY <1>1, <2>2, <2>3, ControllerFacts
  <2>5. c.m_runs[c.activeConv] = c.active /\ c.run[c.active].conv = c.activeConv
        /\ c.activeConv \in Keys
    BY <1>1, <2>4, ControllerFacts DEF FacadeFollows
  <2>6. k = c.activeConv
    BY <1>1, <2>2, <2>3, <2>5 DEF RunsApart
  <2>7. QED
    BY <1>2, <1>4, <2>3, <2>5, <2>6
<1>8. QED
  BY <1>2, <1>4, <1>5, <1>6, <1>7 DEF Sound, d

\* The turn that targets the conversation is stopped and its run let go.
LEMMA DeleteSound ==
  ASSUME NEW c, Sound(c), ~Dangling(c), NEW id \in Convs,
         NEW b, b = (IF c.m_runs[id] # Nil /\ stopsFor(c, c.m_runs[id], id)
                     THEN Turned(c, c.m_runs[id], NoConv) ELSE c)
  PROVE  LET d == onExternalConversationDeleted(b, id)
         IN  /\ Sound(d) /\ d.m_runs[id] = Nil /\ d.active \in {c.active, Nil}
             /\ \A k \in Convs \ {id} : d.m_runs[k] = c.m_runs[k]
<1> DEFINE r == c.m_runs[id]
           e == IF r # Nil /\ b.run[r].conv = id THEN adopt(b, r, NoConv) ELSE b
           f == IF e.activeConv = id THEN repointFacade(e, Nil, NoConv) ELSE e
           d == [f EXCEPT !.m_runs[id] = Nil]
<1>1. /\ c \in Controller /\ TurnsInPlace(c) /\ id \in Keys /\ id # NoConv /\ NoConv \in Keys
      /\ Convs \subseteq Keys /\ NoConv \notin Convs
  BY IdFacts, ConvsAssumption DEF Sound
<1>2. r # Nil => r \in RunIds
  BY <1>1, ControllerFacts
<1>3. /\ Sound(b) /\ b.m_runs = c.m_runs /\ b.active = c.active /\ b.activeConv = c.activeConv
      /\ r # Nil => ~generating(b, r)
  <2>1. CASE r # Nil /\ stopsFor(c, r, id)
    <3>1. b = Turned(c, r, NoConv)
      BY <2>1
    <3>2. Sound(b)
      BY <1>1, <1>2, <2>1, <3>1, TurnSound
    <3>3. /\ b.m_runs = c.m_runs /\ b.active = c.active /\ b.activeConv = c.activeConv
          /\ b.run[r].infl = NoConv
      BY <1>1, <1>2, <2>1, <3>1, SetTurn
    <3>4. QED
      BY <3>2, <3>3 DEF generating
  <2>2. CASE ~(r # Nil /\ stopsFor(c, r, id))
    <3>1. b = c
      BY <2>2
    <3>2. r # Nil => c.run[r].infl \in {id, NoConv}
      BY <1>1 DEF TurnsInPlace
    <3>3. QED
      BY <2>2, <3>1, <3>2 DEF stopsFor, generating
  <2>3. QED
    BY <2>1, <2>2
<1>4. onExternalConversationDeleted(b, id) = d
  BY <1>3 DEF onExternalConversationDeleted
<1> HIDE DEF r
<1>5. /\ Sound(e) /\ e.active = c.active
      /\ \A k \in Convs \ {id} : e.m_runs[k] = c.m_runs[k]
  <2>1. CASE ~(r # Nil /\ b.run[r].conv = id)
    BY <1>3, <2>1
  <2>2. CASE r # Nil /\ b.run[r].conv = id /\ r # b.active
    <3>1. e = Showing(b, r, NoConv)
      BY <1>1, <1>2, <1>3, <2>2, AdoptElsewhere DEF Sound
    <3> HIDE DEF e
    <3>2. Sound(e)
      BY <1>1, <1>2, <1>3, <2>2, <3>1, ConvSound
    <3>3. e.m_runs = b.m_runs /\ e.active = b.active
      BY <1>1, <1>2, <1>3, <2>2, <3>1, SetConv DEF Sound
    <3>4. QED
      BY <1>3, <3>2, <3>3
  <2>3. CASE r # Nil /\ b.run[r].conv = id /\ r = b.active
    <3>1. e = adopt(b, b.active, NoConv) /\ b.active # Nil /\ ~generating(b, b.active)
          /\ b.run[b.active].conv = id /\ NoConv # b.run[b.active].conv
      BY <1>1, <1>3, <2>3
    <3> HIDE DEF e
    <3>2. /\ Sound(e) /\ e.active = b.active
          /\ \A k \in Keys \ {NoConv, id} : e.m_runs[k] = b.m_runs[k]
      BY <1>1, <1>3, <3>1, AdoptActive
    <3>3. QED
      BY <1>1, <1>3, <3>2
  <2>4. QED
    BY <2>1, <2>2, <2>3
<1> HIDE DEF e
<1>6. Sound(f) /\ f.m_runs = e.m_runs /\ f.active \in {c.active, Nil}
  <2>1. CASE e.activeConv = id
    <3>1. Nil \in RunIds \cup {Nil} /\ Nil \notin Live(e) /\ e \in Controller
      BY <1>5, ControllerFacts DEF Sound
    <3>2. Sound(repointFacade(e, Nil, NoConv))
      BY <1>1, <1>5, <3>1, RepointSound
    <3>3. /\ repointFacade(e, Nil, NoConv).m_runs = e.m_runs
          /\ repointFacade(e, Nil, NoConv).active = Nil
      BY <1>1, <3>1, Repoint
    <3>4. QED
      BY <2>1, <3>2, <3>3
  <2>2. CASE e.activeConv # id
    BY <1>5, <2>2
  <2>3. QED
    BY <2>1, <2>2
<1> HIDE DEF f
<1>7. /\ Sound(d) /\ d.active = f.active /\ d.m_runs[id] = Nil
      /\ \A k \in Keys \ {id} : d.m_runs[k] = f.m_runs[k]
  BY <1>1, <1>6, ForgetSound
<1> HIDE DEF d
<1>8. QED
  BY <1>1, <1>4, <1>5, <1>6, <1>7

LEMMA NewControllerSound == Sound(NewController) /\ \A k \in Convs : NewController.m_runs[k] = Nil
<1> DEFINE f == [k \in Keys |-> IF k = NoConv THEN 1 ELSE Nil]
           g == [r \in RunIds |-> NewRun]
<1>1. /\ f \in [Keys -> RunIds \cup {Nil}] /\ g \in [RunIds -> [conv : Keys, infl : Keys]]
      /\ f[NoConv] = 1 /\ (\A k \in Keys \ {NoConv} : f[k] = Nil) /\ g[1] = NewRun
  BY IdFacts DEF NewRun
<1>2. NewController = [m_runs |-> f, run |-> g, active |-> 1, activeConv |-> NoConv]
  BY DEF NewController
<1> HIDE DEF f, g
<1> DEFINE c == NewController
<1>3. /\ c \in Controller /\ c.m_runs = f /\ c.run = g /\ c.active = 1 /\ c.activeConv = NoConv
  BY <1>1, <1>2, IdFacts DEF Controller
<1> HIDE DEF c
<1>4. RunsApart(c)
  BY <1>1, <1>3 DEF RunsApart
<1>5. TurnsInPlace(c) /\ FacadeFollows(c)
  BY <1>1, <1>3 DEF TurnsInPlace, FacadeFollows, NewRun
<1>6. QED
  BY <1>1, <1>3, <1>4, <1>5, ConvsAssumption, IdFacts DEF Sound, c

---------------------------------------------------------------------------
\* The router's counter

Generating == {s \in Sessions : genState[s]}

LEMMA SessionsFinite == IsFiniteSet(Sessions) /\ Local \in Sessions /\ Wire \subseteq Sessions
  BY WireAssumption, FS_AddElement DEF Sessions

LEMMA GeneratingFinite == IsFiniteSet(Generating) /\ Cardinality(Generating) \in Nat
<1>1. Generating \in SUBSET Sessions
  BY DEF Generating
<1>2. QED
  BY <1>1, SessionsFinite, FS_Subset, FS_CardinalityType

\* Another signal of a facade keeps the sum.
LEMMA SignalCounts ==
  ASSUME CountInv, NEW s \in DOMAIN cc, DOMAIN cc' = DOMAIN cc,
         NEW c, onChatGeneratingChanged(s, c) \/ UNCHANGED <<genState, count>>
  PROVE  CountInv'
<1>1. /\ genState \in [Sessions -> BOOLEAN] /\ s \in Sessions /\ count = Cardinality(Generating)
      /\ count \in Nat /\ \A t \in Sessions \ DOMAIN cc : ~genState[t]
  BY DEF CountInv, CountIsSum, Generating
<1>2. CASE UNCHANGED <<genState, count>>
  BY <1>2 DEF CountInv, CountIsSum
<1>3. CASE onChatGeneratingChanged(s, c)
  <2> DEFINE now == isAnyConvGenerating(c)
  <2>1. /\ genState' = [genState EXCEPT ![s] = now]
        /\ count' = CASE now = genState[s] -> count
                      [] now /\ ~genState[s] -> count + 1
                      [] OTHER -> IF count > 0 THEN count - 1 ELSE 0
    BY <1>3 DEF onChatGeneratingChanged
  <2>2. now \in BOOLEAN
    BY DEF isAnyConvGenerating
  <2> HIDE DEF now
  <2>3. genState' \in [Sessions -> BOOLEAN] /\ (genState'[s] <=> now)
        /\ \A t \in Sessions \ {s} : genState'[t] = genState[t]
    BY <1>1, <2>1, <2>2
  <2>4. \A t \in Sessions \ DOMAIN cc' : ~genState'[t]
    BY <1>1, <2>3
  <2>5. count' = Cardinality(Generating') /\ count' \in Nat
    <3>1. CASE now <=> genState[s]
      <4>1. Generating' = Generating
        BY <1>1, <2>3, <3>1 DEF Generating
      <4>2. count' = count
        BY <1>1, <2>1, <2>2, <3>1
      <4>3. QED
        BY <1>1, <4>1, <4>2
    <3>2. CASE now /\ ~genState[s]
      <4>1. Generating' = Generating \cup {s} /\ s \notin Generating
        BY <1>1, <2>3, <3>2 DEF Generating
      <4>2. count' = count + 1
        BY <1>1, <2>1, <2>2, <3>2
      <4>3. QED
        <5>1. Cardinality(Generating \cup {s}) = Cardinality(Generating) + 1
          BY <4>1, GeneratingFinite, FS_AddElement
        <5>2. QED
          BY <1>1, <4>1, <4>2, <5>1
    <3>3. CASE ~now /\ genState[s]
      <4>1. Generating' = Generating \ {s} /\ s \in Generating
        BY <1>1, <2>3, <3>3 DEF Generating
      <4>2. Cardinality(Generating \ {s}) = count - 1 /\ Cardinality(Generating \ {s}) \in Nat
        BY <1>1, <4>1, GeneratingFinite, FS_RemoveElement, FS_CardinalityType
      <4>3. count > 0
        BY <1>1, <4>2
      <4>4. count' = count - 1
        BY <1>1, <2>1, <2>2, <3>3, <4>3
      <4>5. QED
        BY <4>1, <4>2, <4>4
    <3>4. QED
      BY <2>2, <3>1, <3>2, <3>3
  <2>6. QED
    BY <1>1, <2>3, <2>4, <2>5 DEF CountInv, CountIsSum, Generating
<1>4. QED
  BY <1>2, <1>3

\* Sessions that close take their share of the sum with them.
LEMMA DestroyCounts ==
  ASSUME CountInv, NEW ss \in SUBSET Sessions, destroySessions(ss)
  PROVE  CountInv'
<1> DEFINE lost == {s \in ss : genState[s]}
           n == Cardinality(lost)
<1>1. /\ genState \in [Sessions -> BOOLEAN] /\ count = Cardinality(Generating)
      /\ count \in Nat /\ \A t \in Sessions \ DOMAIN cc : ~genState[t]
      /\ DOMAIN cc \subseteq Sessions
  BY DEF CountInv, CountIsSum, Generating
<1>2. /\ DOMAIN cc' = DOMAIN cc \ ss /\ genState' = [s \in Sessions |-> s \notin ss /\ genState[s]]
      /\ count' = IF n < count THEN count - n ELSE 0
  BY DEF destroySessions
<1>3. Generating' = Generating \ lost /\ lost \subseteq Generating
  BY <1>2 DEF Generating
<1> HIDE DEF lost
<1>4. /\ Cardinality(Generating \ lost) = Cardinality(Generating) - Cardinality(Generating \cap lost)
      /\ Cardinality(Generating \ lost) \in Nat
  BY GeneratingFinite, FS_Difference, FS_CardinalityType
<1>5. Generating \cap lost = lost /\ n \in Nat
  BY <1>3, GeneratingFinite, FS_Subset, FS_CardinalityType
<1>6. count' = Cardinality(Generating') /\ count' \in Nat
  <2> DEFINE g == Cardinality(Generating \ lost)
  <2>1. g = count - n /\ g \in Nat /\ Cardinality(Generating') = g
    BY <1>1, <1>3, <1>4, <1>5
  <2> HIDE DEF g, n
  <2>2. QED
    BY <1>1, <1>2, <1>5, <2>1
<1>7. genState' \in [Sessions -> BOOLEAN] /\ \A t \in Sessions \ DOMAIN cc' : ~genState'[t]
  BY <1>1, <1>2
<1>8. QED
  BY <1>1, <1>2, <1>6, <1>7 DEF CountInv, CountIsSum, Generating

LEMMA CreateCounts ==
  ASSUME CountInv, NEW s \in Wire, createWireSession(s)
  PROVE  CountInv'
<1>1. s \notin DOMAIN cc /\ DOMAIN cc' = DOMAIN cc \cup {s} /\ count' = count
      /\ genState' = [genState EXCEPT ![s] = FALSE] /\ s \in Sessions
  BY SessionsFinite DEF createWireSession
<1>2. genState[s] = FALSE /\ genState \in [Sessions -> BOOLEAN]
  BY <1>1 DEF CountInv
<1>3. genState' = genState
  BY <1>1, <1>2
<1>4. QED
  BY <1>1, <1>3 DEF CountInv, CountIsSum

LEMMA CountInit == Init => CountInv
<1> SUFFICES ASSUME Init PROVE CountInv
  OBVIOUS
<1>1. Generating = {}
  BY DEF Init, Generating
<1>2. Cardinality(Generating) = 0
  BY <1>1, FS_EmptySet
<1>3. QED
  BY <1>2, SessionsFinite DEF Init, CountInv, CountIsSum, Generating

\* The step of a controller, with or without its signal.
ControllerMoves(s) ==
  /\ s \in DOMAIN cc /\ DOMAIN cc' = DOMAIN cc
  /\ \E c : onChatGeneratingChanged(s, c) \/ UNCHANGED <<genState, count>>

LEMMA BecomeMoves ==
  ASSUME NEW s \in DOMAIN cc, NEW c, NEW g, Become(s, c, g)
  PROVE  ControllerMoves(s)
  BY DEF Become, ControllerMoves

LEMMA CountNext ==
  ASSUME CountInv, [Next]_vars
  PROVE  CountInv'
<1>1. ASSUME NEW s, ControllerMoves(s) PROVE CountInv'
  <2>1. PICK c : onChatGeneratingChanged(s, c) \/ UNCHANGED <<genState, count>>
    BY <1>1 DEF ControllerMoves
  <2>2. QED
    BY <1>1, <2>1, SignalCounts DEF ControllerMoves
<1>2. ASSUME NEW s \in Sessions, NEW id \in Keys, Switch(s, id) PROVE CountInv'
  BY <1>1, <1>2, BecomeMoves DEF Switch, Usable
<1>3. ASSUME NEW s \in Sessions, Send(s) PROVE CountInv'
  BY <1>1, <1>3 DEF Send, Usable, Become, ControllerMoves
<1>4. ASSUME NEW s \in Sessions, NEW id \in Convs, SendNew(s, id) PROVE CountInv'
  BY <1>1, <1>4 DEF SendNew, Usable, Become, ControllerMoves
<1>5. ASSUME NEW s \in Sessions, NEW r \in RunIds, TurnEnds(s, r) PROVE CountInv'
  BY <1>1, <1>5, BecomeMoves DEF TurnEnds, Usable
<1>6. ASSUME NEW id \in Convs, Reaction(id) \/ BackgroundEvent(id) PROVE CountInv'
  BY <1>1, <1>6, BecomeMoves DEF Reaction, BackgroundEvent, Usable
<1>7. ASSUME NEW id \in Convs, Delete(id) PROVE CountInv'
  BY <1>1, <1>7, BecomeMoves DEF Delete, Usable
<1>8. CASE (\E id \in Convs : CreateConversation(id)) \/ UNCHANGED vars
  BY <1>8 DEF CreateConversation, vars, CountInv, CountIsSum
<1>9. ASSUME NEW s \in Wire, createWireSession(s) \/ destroySession(s) PROVE CountInv'
  BY <1>9, SessionsFinite, CreateCounts, DestroyCounts DEF destroySession
<1>10. CASE destroyAllWireSessions
  BY <1>10, SessionsFinite, DestroyCounts DEF destroyAllWireSessions
<1>11. QED
  BY <1>2, <1>3, <1>4, <1>5, <1>6, <1>7, <1>8, <1>9, <1>10 DEF Next

\* The counter of generating sessions is their number, through every order of
\* turns, switches, disconnects and deletions.
THEOREM CounterExact == Spec => []CountIsSum
<1>1. CountInv => CountIsSum
  BY DEF CountInv
<1>2. CountInv /\ [Next]_vars => CountInv'
  BY CountNext
<1>3. QED
  BY <1>1, <1>2, CountInit, PTL DEF Spec

---------------------------------------------------------------------------
\* The run maps, while nobody opens an entry of a deleted conversation

\* Bringing up another run tells the router what the session does.
Resync == \A s \in DOMAIN cc \cap DOMAIN cc' : cc'[s].active # cc[s].active
            => genState'[s] = isAnyConvGenerating(cc'[s])

\* A controller takes a step to c, and signals at least when its facade moves.
LEMMA ControllerStep ==
  ASSUME MapsInv, CountInv, NEW s \in DOMAIN cc, NEW c, Sound(c),
         cc' = [cc EXCEPT ![s] = reaped(c)],
         c.active # cc[s].active => onChatGeneratingChanged(s, c),
         convs' = [exist |-> convs'.exist, gone |-> convs'.gone],
         convs'.exist \subseteq Convs, convs'.gone \subseteq Convs,
         convs'.exist \cap convs'.gone = {},
         \A k \in convs'.gone : IF s = Local THEN c.m_runs[k] = Nil
                                ELSE cc[Local].m_runs[k] = Nil
  PROVE  MapsInv' /\ Resync
<1> DEFINE d == reaped(c)
<1>1. c \in Controller
  BY DEF Sound
<1>2. /\ d.m_runs = c.m_runs /\ d.active = c.active
      /\ isAnyConvGenerating(d) <=> isAnyConvGenerating(c)
  BY <1>1, Reaped
<1>3. Sound(d)
  BY ReapedSound
<1> HIDE DEF d
<1>4. cc = [t \in DOMAIN cc |-> cc[t]] /\ Local \in DOMAIN cc /\ DOMAIN cc \subseteq Sessions
  BY DEF MapsInv
<1>5. /\ DOMAIN cc' = DOMAIN cc /\ cc' = [t \in DOMAIN cc' |-> cc'[t]] /\ cc'[s] = d
      /\ \A t \in DOMAIN cc \ {s} : cc'[t] = cc[t]
  BY <1>4 DEF d
<1>6. \A t \in DOMAIN cc' : Sound(cc'[t])
  BY <1>3, <1>5 DEF MapsInv
<1>7. \A k \in convs'.gone : cc'[Local].m_runs[k] = Nil
  BY <1>2, <1>4, <1>5
<1>8. MapsInv'
  BY <1>4, <1>5, <1>6, <1>7 DEF MapsInv
<1>9. Resync
  <2>1. SUFFICES ASSUME c.active # cc[s].active
                 PROVE  genState'[s] = isAnyConvGenerating(d)
    BY <1>2, <1>5 DEF Resync
  <2>2. genState' = [genState EXCEPT ![s] = isAnyConvGenerating(c)]
    BY <2>1 DEF onChatGeneratingChanged
  <2>3. genState \in [Sessions -> BOOLEAN] /\ s \in Sessions
    BY <1>4 DEF CountInv
  <2>4. genState'[s] = isAnyConvGenerating(c)
    BY <2>2, <2>3
  <2>5. isAnyConvGenerating(d) \in BOOLEAN /\ isAnyConvGenerating(c) \in BOOLEAN
    BY DEF isAnyConvGenerating
  <2>6. QED
    BY <1>2, <2>4, <2>5
<1>10. QED
  BY <1>8, <1>9

\* The same where no conversation is deleted.
LEMMA PlainStep ==
  ASSUME MapsInv, CountInv, NEW s \in DOMAIN cc, NEW c, Sound(c),
         cc' = [cc EXCEPT ![s] = reaped(c)],
         c.active # cc[s].active => onChatGeneratingChanged(s, c), convs' = convs,
         \A k \in convs.gone : cc[s].m_runs[k] = Nil => c.m_runs[k] = Nil
  PROVE  MapsInv' /\ Resync
<1>1. /\ convs = [exist |-> convs.exist, gone |-> convs.gone]
      /\ convs.exist \subseteq Convs /\ convs.gone \subseteq Convs
      /\ convs.exist \cap convs.gone = {} /\ \A k \in convs.gone : cc[Local].m_runs[k] = Nil
  BY DEF MapsInv
<1>2. QED
  BY <1>1, ControllerStep

LEMMA UsableFacts ==
  ASSUME MapsInv, NEW s, Usable(s)
  PROVE  s \in DOMAIN cc /\ Sound(cc[s]) /\ ~Dangling(cc[s]) /\ cc[s] \in Controller
  BY DEF MapsInv, Usable, Sound

LEMMA SwitchInv ==
  ASSUME MapsInv, CountInv, "stale" \notin Features,
         NEW s \in Sessions, NEW id \in Keys, Switch(s, id)
  PROVE  /\ MapsInv' /\ Resync
         /\ \A k \in Keys : (cc[s].m_runs[k] # Nil /\ generating(cc[s], cc[s].m_runs[k])) =>
              /\ cc'[s].m_runs[k] = cc[s].m_runs[k]
              /\ cc'[s].run[cc[s].m_runs[k]].infl = cc[s].run[cc[s].m_runs[k]].infl
<1> DEFINE exists == id \in convs.exist
           n == switchConversation(cc[s], id, exists)
           c == n.c
<1>1. s \in DOMAIN cc /\ Sound(cc[s]) /\ ~Dangling(cc[s]) /\ cc[s] \in Controller
  BY UsableFacts DEF Switch
<1>2. id # NoConv => exists
  BY DEF Switch
<1>3. exists \in BOOLEAN
  OBVIOUS
<1>4. /\ cc' = [cc EXCEPT ![s] = reaped(c)] /\ convs' = convs
      /\ n.repoints => onChatGeneratingChanged(s, c)
  BY DEF Switch, Become
<1> HIDE DEF exists
<1>5. /\ Sound(c) /\ Keeps(c, cc[s], id)
      /\ n.repoints \in BOOLEAN
      /\ ~n.repoints => c.active = cc[s].active
  BY <1>1, <1>2, <1>3, SwitchSound
<1> HIDE DEF n
<1>6. \A k \in convs.gone : cc[s].m_runs[k] = Nil => c.m_runs[k] = Nil
  <2>1. \A k \in convs.gone : k \in Keys /\ k # id
    <3>1. convs.exist \cap convs.gone = {} /\ convs.gone \subseteq Convs
      BY DEF MapsInv
    <3>2. QED
      BY <1>2, <3>1, ConvsAssumption, IdFacts DEF exists
  <2>2. QED
    BY <1>5, <2>1 DEF Keeps
<1>7. MapsInv' /\ Resync
  <2>1. c.active # cc[s].active => onChatGeneratingChanged(s, c)
    BY <1>4, <1>5
  <2>2. Sound(c) /\ s \in DOMAIN cc
    BY <1>1, <1>5
  <2> HIDE DEF c
  <2>3. QED
    BY <1>4, <1>6, <2>1, <2>2, PlainStep
<1>8. /\ cc'[s].m_runs = c.m_runs
      /\ \A r \in Live(c) : cc'[s].run[r] = c.run[r]
  <2>1. cc'[s] = reaped(c)
    BY <1>1, <1>4 DEF MapsInv
  <2>2. c \in Controller
    BY <1>5 DEF Sound
  <2>3. QED
    BY <2>1, <2>2, Reaped
<1>9. \A k \in Keys : c.m_runs[k] # Nil => c.m_runs[k] \in Live(c)
  BY <1>5, ControllerFacts DEF Sound
<1>10. QED
  BY <1>5, <1>7, <1>8, <1>9 DEF Keeps

LEMMA SendInv ==
  ASSUME MapsInv, CountInv, NEW s \in Sessions, Send(s)
  PROVE  MapsInv' /\ Resync
<1> DEFINE b == cc[s]
           r == b.active
           c == Turned(b, r, b.run[r].conv)
<1>1. s \in DOMAIN cc /\ Sound(b) /\ ~Dangling(b) /\ b \in Controller /\ r # Nil
  BY UsableFacts DEF Send
<1>2. cc' = [cc EXCEPT ![s] = reaped(c)] /\ convs' = convs
  BY DEF Send, Become, Turned
<1>3. /\ r \in RunIds /\ b.activeConv \in Keys /\ b.m_runs[b.activeConv] = r
      /\ b.run[r].conv = b.activeConv
  BY <1>1, ActiveInPlace
<1>4. \A k \in Keys : b.m_runs[k] = r => b.run[r].conv \in {k, NoConv}
  BY <1>1, <1>3 DEF Sound, RunsApart
<1> HIDE DEF b, c, r
<1>5. Sound(c)
  BY <1>1, <1>3, <1>4, TurnSound DEF c
<1>6. c.m_runs = b.m_runs /\ c.active = b.active
  BY <1>1, <1>3, SetTurn DEF c
<1>7. QED
  BY <1>1, <1>2, <1>5, <1>6, PlainStep DEF b

LEMMA SendNewInv ==
  ASSUME MapsInv, CountInv, NEW s \in Sessions, NEW id \in Convs, SendNew(s, id)
  PROVE  MapsInv' /\ Resync
<1> DEFINE b == cc[s]
           e == ensureActiveRun(b)
           c == Turned(adopt(e, e.active, id), e.active, id)
<1>1. s \in DOMAIN cc /\ Sound(b) /\ ~Dangling(b) /\ b \in Controller
  BY UsableFacts DEF SendNew
<1>2. /\ e.run[e.active].conv = NoConv /\ ~generating(e, e.active)
      /\ id \notin convs.exist \cup convs.gone
      /\ convs' = [convs EXCEPT !.exist = convs.exist \cup {id}]
      /\ cc' = [cc EXCEPT ![s] = reaped(c)] /\ onChatGeneratingChanged(s, c)
  BY DEF SendNew, Become, Turned
<1> HIDE DEF e, c
<1>3. Sound(c) /\ \A k \in Convs \ {id} : c.m_runs[k] = b.m_runs[k]
  BY <1>1, <1>2, SendNewSound DEF e, c
<1>4. /\ convs = [exist |-> convs.exist, gone |-> convs.gone]
      /\ convs.exist \subseteq Convs /\ convs.gone \subseteq Convs
      /\ convs.exist \cap convs.gone = {} /\ \A k \in convs.gone : cc[Local].m_runs[k] = Nil
  BY DEF MapsInv
<1>5. convs'.exist = convs.exist \cup {id} /\ convs'.gone = convs.gone
      /\ convs' = [exist |-> convs'.exist, gone |-> convs'.gone]
  BY <1>2, <1>4
<1>6. convs'.exist \cap convs'.gone = {} /\ convs'.exist \subseteq Convs /\ convs'.gone \subseteq Convs
  BY <1>2, <1>4, <1>5
<1>7. \A k \in convs'.gone : IF s = Local THEN c.m_runs[k] = Nil ELSE cc[Local].m_runs[k] = Nil
  BY <1>2, <1>3, <1>4, <1>5
<1>8. QED
  BY <1>1, <1>2, <1>3, <1>5, <1>6, <1>7, ControllerStep

LEMMA BackgroundInv ==
  ASSUME MapsInv, CountInv, NEW id \in Convs, Reaction(id) \/ BackgroundEvent(id)
  PROVE  MapsInv' /\ Resync
<1> DEFINE b == cc[Local]
           n == runFor(b, id)
           c == Turned(n.c, n.r, id)
<1>1. /\ Local \in DOMAIN cc /\ Sound(b) /\ ~Dangling(b) /\ id \in convs.exist /\ id \in Keys
  BY UsableFacts, IdFacts DEF Reaction, BackgroundEvent
<1>2. /\ convs' = convs
      /\ cc' = [cc EXCEPT ![Local] = reaped(c)] \/ cc' = [cc EXCEPT ![Local] = reaped(n.c)]
  BY DEF Reaction, BackgroundEvent, Become, Turned
<1>3. /\ Sound(n.c) /\ n.c.active = b.active /\ Sound(c) /\ c.m_runs = n.c.m_runs
      /\ c.active = b.active /\ \A k \in Keys \ {id} : n.c.m_runs[k] = b.m_runs[k]
  BY <1>1, RunForSound
<1> HIDE DEF c, n
<1>4. \A k \in convs.gone : k \in Keys \ {id}
  BY <1>1, IdFacts DEF MapsInv
<1>5. CASE cc' = [cc EXCEPT ![Local] = reaped(c)]
  <2>1. \A k \in convs.gone : cc[Local].m_runs[k] = Nil => c.m_runs[k] = Nil
    BY <1>3, <1>4
  <2>2. Sound(c) /\ Local \in DOMAIN cc /\ c.active = cc[Local].active
    BY <1>1, <1>3
  <2>3. QED
    BY <1>2, <1>5, <2>1, <2>2, PlainStep
<1>6. CASE cc' = [cc EXCEPT ![Local] = reaped(n.c)]
  BY <1>1, <1>2, <1>3, <1>4, <1>6, PlainStep
<1>7. QED
  BY <1>2, <1>5, <1>6

LEMMA TurnEndsInv ==
  ASSUME MapsInv, CountInv, NEW s \in Sessions, NEW r \in RunIds, TurnEnds(s, r)
  PROVE  MapsInv' /\ Resync
<1> DEFINE b == cc[s]
           c == Turned(b, r, NoConv)
<1>1. s \in DOMAIN cc /\ Sound(b) /\ b \in Controller
  BY UsableFacts DEF TurnEnds
<1>2. cc' = [cc EXCEPT ![s] = reaped(c)] /\ convs' = convs
  BY DEF TurnEnds, Become, Turned
<1> HIDE DEF b, c
<1>3. Sound(c) /\ c.m_runs = b.m_runs /\ c.active = b.active
  BY <1>1, IdFacts, TurnSound, SetTurn DEF c
<1>4. QED
  BY <1>1, <1>2, <1>3, PlainStep DEF b

LEMMA DeleteInv ==
  ASSUME MapsInv, CountInv, NEW id \in Convs, Delete(id)
  PROVE  MapsInv' /\ Resync
<1> DEFINE b == cc[Local]
           r == b.m_runs[id]
           stops == r # Nil /\ stopsFor(b, r, id)
           e == IF stops THEN Turned(b, r, NoConv) ELSE b
           c == onExternalConversationDeleted(e, id)
<1>1. /\ Local \in DOMAIN cc /\ Sound(b) /\ ~Dangling(b) /\ id \in convs.exist
  BY UsableFacts DEF Delete
<1>2. /\ convs' = [exist |-> convs.exist \ {id}, gone |-> convs.gone \cup {id}]
      /\ cc' = [cc EXCEPT ![Local] = reaped(c)]
      /\ c.active = Nil /\ b.active # Nil => onChatGeneratingChanged(Local, c)
  BY DEF Delete, Become, Turned
<1>3. /\ Sound(c) /\ c.m_runs[id] = Nil /\ c.active \in {b.active, Nil}
      /\ \A k \in Convs \ {id} : c.m_runs[k] = b.m_runs[k]
  BY <1>1, DeleteSound
<1> HIDE DEF c
<1>4. /\ convs.exist \subseteq Convs /\ convs.gone \subseteq Convs
      /\ convs.exist \cap convs.gone = {} /\ \A k \in convs.gone : cc[Local].m_runs[k] = Nil
  BY DEF MapsInv
<1>5. /\ convs'.exist = convs.exist \ {id} /\ convs'.gone = convs.gone \cup {id}
      /\ convs' = [exist |-> convs'.exist, gone |-> convs'.gone]
  BY <1>2
<1>6. convs'.exist \cap convs'.gone = {} /\ convs'.exist \subseteq Convs /\ convs'.gone \subseteq Convs
  BY <1>4, <1>5
<1>7. \A k \in convs'.gone : c.m_runs[k] = Nil
  BY <1>3, <1>4, <1>5
<1>8. c.active # b.active => onChatGeneratingChanged(Local, c)
  BY <1>2, <1>3
<1>9. QED
  BY <1>1, <1>2, <1>3, <1>5, <1>6, <1>7, <1>8, ControllerStep

LEMMA OpenCloseInv ==
  ASSUME MapsInv,
         \/ \E id \in Convs : CreateConversation(id)
         \/ \E s \in Wire : createWireSession(s) \/ destroySession(s)
         \/ destroyAllWireSessions \/ UNCHANGED vars
  PROVE  MapsInv' /\ Resync
<1>1. CASE \E id \in Convs : CreateConversation(id)
  <2>1. PICK id \in Convs : CreateConversation(id)
    BY <1>1
  <2>2. /\ convs = [exist |-> convs.exist, gone |-> convs.gone]
        /\ convs.exist \subseteq Convs /\ convs.exist \cap convs.gone = {}
    BY DEF MapsInv
  <2>3. /\ id \notin convs.gone /\ convs' = [convs EXCEPT !.exist = convs.exist \cup {id}]
        /\ cc' = cc
    BY <2>1 DEF CreateConversation
  <2>4. convs'.exist = convs.exist \cup {id} /\ convs'.gone = convs.gone
        /\ convs' = [exist |-> convs'.exist, gone |-> convs'.gone]
    BY <2>2, <2>3
  <2>5. QED
    BY <2>2, <2>3, <2>4 DEF MapsInv, Resync
<1>2. CASE \E s \in Wire : createWireSession(s)
  <2>1. PICK s \in Wire : createWireSession(s)
    BY <1>2
  <2>2. /\ s \notin DOMAIN cc /\ convs' = convs
        /\ cc' = [x \in DOMAIN cc \cup {s} |-> IF x = s THEN NewController ELSE cc[x]]
    BY <2>1 DEF createWireSession
  <2>3. /\ DOMAIN cc' = DOMAIN cc \cup {s} /\ cc' = [x \in DOMAIN cc' |-> cc'[x]]
        /\ cc'[s] = NewController /\ \A x \in DOMAIN cc : cc'[x] = cc[x]
    BY <2>2
  <2>4. QED
    BY <2>1, <2>2, <2>3, NewControllerSound, SessionsFinite DEF MapsInv, Resync
<1>3. ASSUME NEW ss \in SUBSET Wire, destroySessions(ss) PROVE MapsInv' /\ Resync
  <2>1. convs' = convs /\ cc' = [s \in DOMAIN cc \ ss |-> cc[s]]
    BY <1>3 DEF destroySessions
  <2>2. /\ DOMAIN cc' = DOMAIN cc \ ss /\ cc' = [x \in DOMAIN cc' |-> cc'[x]]
        /\ \A x \in DOMAIN cc' : cc'[x] = cc[x]
    BY <2>1
  <2>3. Local \in DOMAIN cc'
    BY <2>2, WireAssumption DEF MapsInv
  <2>4. QED
    BY <2>1, <2>2, <2>3 DEF MapsInv, Resync
<1>4. CASE UNCHANGED vars
  BY <1>4 DEF vars, MapsInv, Resync
<1>5. QED
  BY <1>1, <1>2, <1>3, <1>4 DEF destroySession, destroyAllWireSessions

LEMMA MapsInit == Init => MapsInv
<1> SUFFICES ASSUME Init PROVE MapsInv
  OBVIOUS
<1>1. /\ DOMAIN cc = {Local} /\ cc = [s \in DOMAIN cc |-> cc[s]] /\ cc[Local] = NewController
      /\ convs = [exist |-> {}, gone |-> {}]
  BY DEF Init
<1>2. QED
  BY <1>1, NewControllerSound, SessionsFinite DEF MapsInv

LEMMA MapsNext ==
  ASSUME MapsInv, CountInv, "stale" \notin Features, [Next]_vars
  PROVE  MapsInv' /\ Resync
  BY SwitchInv, SendInv, SendNewInv, BackgroundInv, TurnEndsInv, DeleteInv, OpenCloseInv DEF Next

MapInv == MapsInv /\ CountInv

\* What the two invariants say of a step, in one place.
LEMMA MapStep ==
  ASSUME MapInv, "stale" \notin Features, [Next]_vars
  PROVE  MapInv' /\ Resync
  BY MapsNext, CountNext DEF MapInv

\* Run maps and counter are sound in every state.
THEOREM MapsStaySound == ASSUME "stale" \notin Features PROVE Spec => []MapInv
<1>1. Init => MapInv
  BY MapsInit, CountInit DEF MapInv
<1>2. MapInv /\ [Next]_vars => MapInv'
  BY MapStep
<1>3. QED
  BY <1>1, <1>2, PTL DEF Spec

\* A conversation has one run in a session, so two turns never interleave in
\* it, whatever is switched to, adopted, re-keyed or deleted.
THEOREM TurnsApart == ASSUME "stale" \notin Features PROVE Spec => []OneTurnPerConversation
<1>1. MapInv => OneTurnPerConversation
  <2> SUFFICES ASSUME MapInv, NEW s \in DOMAIN cc, NEW q \in Live(cc[s]), NEW r \in Live(cc[s]),
                      generating(cc[s], q), cc[s].run[q].infl = cc[s].run[r].infl
               PROVE  q = r
    BY DEF OneTurnPerConversation
  <2>1. TurnsInPlace(cc[s])
    BY DEF MapInv, MapsInv, Sound
  <2>2. PICK k \in Keys : q = cc[s].m_runs[k] /\ q # Nil
    BY DEF Live
  <2>3. PICK l \in Keys : r = cc[s].m_runs[l] /\ r # Nil
    BY DEF Live
  <2>4. cc[s].run[q].infl = k /\ cc[s].run[r].infl = l
    BY <2>1, <2>2, <2>3 DEF TurnsInPlace, generating
  <2>5. QED
    BY <2>2, <2>3, <2>4
<1>2. QED
  BY <1>1, MapsStaySound, PTL

\* Deleting a conversation ends the desktop's turn in it, and no later step
\* brings one back.
THEOREM DeletedStaysQuiet == ASSUME "stale" \notin Features PROVE Spec => []DesktopLeavesDeleted
<1>1. MapInv => DesktopLeavesDeleted
  <2> SUFFICES ASSUME MapInv, NEW r \in Live(cc[Local]), cc[Local].run[r].infl \in convs.gone
               PROVE  FALSE
    BY DEF DesktopLeavesDeleted, NoTurnInDeleted
  <2>1. /\ TurnsInPlace(cc[Local]) /\ convs.gone \subseteq Convs
        /\ \A k \in convs.gone : cc[Local].m_runs[k] = Nil
    BY DEF MapInv, MapsInv, Sound
  <2>2. PICK k \in Keys : r = cc[Local].m_runs[k] /\ r # Nil
    BY DEF Live
  <2>3. cc[Local].run[r].infl = k
    BY <2>1, <2>2, ConvsAssumption DEF TurnsInPlace
  <2>4. QED
    BY <2>1, <2>2, <2>3
<1>2. QED
  BY <1>1, MapsStaySound, PTL

\* No switch disturbs a turn that is under way.
THEOREM SwitchIsHarmless == ASSUME "stale" \notin Features PROVE Spec => SwitchKeepsTurns
<1>1. ASSUME MapInv, [Next]_vars
      PROVE  [\A s \in Sessions, id \in Keys : Switch(s, id) =>
                \A k \in Keys : (cc[s].m_runs[k] # Nil /\ generating(cc[s], cc[s].m_runs[k])) =>
                  /\ cc'[s].m_runs[k] = cc[s].m_runs[k]
                  /\ cc'[s].run[cc[s].m_runs[k]].infl = cc[s].run[cc[s].m_runs[k]].infl]_vars
  BY <1>1, SwitchInv DEF MapInv
<1>2. QED
  BY <1>1, MapsStaySound, PTL DEF Spec, SwitchKeepsTurns

\* Bringing up another run tells the router what the session really does.
THEOREM RepointTellsTruth == ASSUME "stale" \notin Features PROVE Spec => RepointResynchronises
<1>1. ASSUME MapInv, [Next]_vars
      PROVE  [\A s \in DOMAIN cc \cap DOMAIN cc' : cc'[s].active # cc[s].active
                => genState'[s] = isAnyConvGenerating(cc'[s])]_vars
  BY <1>1, MapStep DEF Resync
<1>2. QED
  BY <1>1, MapsStaySound, PTL DEF Spec, RepointResynchronises

=============================================================================
