--------------------------- MODULE ChatController ---------------------------
(***************************************************************************)
(* ChatController's run map as operators on one controller: conversation    *)
(* ids map to runs, one run is active and drives the facade.  A run is what  *)
(* the map needs of a ConversationRun: the conversation it shows and the     *)
(* one its turn is for.  SessionRouter.tla closes them with users, clients   *)
(* and deletions.                                                            *)
(***************************************************************************)
EXTENDS Naturals, FiniteSets

CONSTANT Convs   \* conversation ids

NoConv == "no conversation"   \* the empty id, a key of the map as well
ASSUME ConvsAssumption == IsFiniteSet(Convs) /\ NoConv \notin Convs

Nil == 0                      \* nullptr
Keys == Convs \cup {NoConv}
RunIds == 1..(Cardinality(Keys) + 1)

\* A run without a conversation and without a turn.
NewRun == [conv |-> NoConv, infl |-> NoConv]
generating(c, r) == c.run[r].infl # NoConv

\* A run lives as long as the map owns it.
Live(c) == {c.m_runs[k] : k \in Keys} \ {Nil}
isAnyConvGenerating(c) == \E r \in Live(c) : generating(c, r)

\* A destroyed run keeps nothing.
reaped(c) == [c EXCEPT !.run = [r \in RunIds |-> IF r \in Live(c) THEN c.run[r] ELSE NewRun]]

\* m_activeRun points to a run that has been destroyed.
Dangling(c) == c.active # Nil /\ c.active \notin Live(c)

\* A key that is taken keeps its run: the new one is destroyed on the spot.
createRun(c, k) ==
  LET r == CHOOSE x \in RunIds : x # c.active /\ x \notin Live(c)
  IN  [r |-> r,
       c |-> IF c.m_runs[k] # Nil THEN c
             ELSE [c EXCEPT !.m_runs[k] = r, !.run[r] = NewRun]]

\* runFor with createIfMissing
runFor(c, k) ==
  IF c.m_runs[k] # Nil THEN [r |-> c.m_runs[k], c |-> c] ELSE createRun(c, k)

\* The facade follows another run, or none.
repointFacade(c, r, k) == [c EXCEPT !.active = r, !.activeConv = k]

rekeyNothing(c, old, new, r) == c

\* The entry moves; when the new key is taken, the moved run is destroyed.
rekeyRun(c, old, new, r) ==
  IF old = new \/ c.m_runs[old] # r THEN c
  ELSE [c EXCEPT !.m_runs[old] = Nil,
                 !.m_runs[new] = IF @ = Nil THEN r ELSE @]

rekeyActiveRunIfNeeded(c) ==
  IF c.active = Nil \/ c.run[c.active].conv = c.activeConv THEN c
  ELSE LET conv == c.run[c.active].conv
       IN  [rekeyRun(c, c.activeConv, conv, c.active) EXCEPT !.activeConv = conv]

\* A run adopts a conversation and says so; the facade listens to one run.
adopt(c, r, id) ==
  LET k == [c EXCEPT !.run[r].conv = id]
  IN  IF r = c.active THEN rekeyActiveRunIfNeeded(k) ELSE k

\* ConversationRun::switchConversation: an unknown conversation is an error.
runSwitches(c, r, id, exists) ==
  IF c.run[r].conv = id \/ ~exists THEN c ELSE adopt(c, r, id)

reusesActiveRun(c) == c.active # Nil

\* The idle active run moves on; a generating one stays behind on its own.
mayReuse(c) == c.active # Nil /\ ~generating(c, c.active)

\* switchConversation.  The facade is repointed except where it says so.
switchConversation(c, id, exists) ==
  CASE id = NoConv -> [c |-> repointFacade(c, Nil, NoConv), repoints |-> TRUE]
    [] id # NoConv /\ id = c.activeConv /\ c.active # Nil ->
         [c |-> c, repoints |-> FALSE]
    [] id # NoConv /\ ~(id = c.activeConv /\ c.active # Nil) /\ c.m_runs[id] # Nil ->
         LET r == c.m_runs[id]
         IN  [c |-> repointFacade(runSwitches(rekeyActiveRunIfNeeded(c), r, id, exists), r, id),
              repoints |-> TRUE]
    [] id # NoConv /\ id # c.activeConv /\ c.m_runs[id] = Nil /\ mayReuse(c) ->
         LET moved == rekeyRun([c EXCEPT !.activeConv = id],
                               c.run[c.active].conv, id, c.active)
             k == runSwitches(moved, c.active, id, exists)
         IN  [c |-> [k EXCEPT !.activeConv = k.run[k.active].conv], repoints |-> FALSE]
    [] OTHER ->
         LET n == createRun(c, id)
         IN  [c |-> repointFacade(runSwitches(n.c, n.r, id, exists), n.r, id),
              repoints |-> TRUE]

\* ensureActiveRun
ensureActiveRun(c) ==
  IF c.active # Nil THEN c
  ELSE LET n == createRun(c, NoConv) IN repointFacade(n.c, n.r, NoConv)

\* The constructor's controller: one run, active, without a conversation.
NewController ==
  [m_runs |-> [k \in Keys |-> IF k = NoConv THEN 1 ELSE Nil],
   run |-> [r \in RunIds |-> NewRun], active |-> 1, activeConv |-> NoConv]

stopsBackground(c, r, id) ==
  generating(c, r) /\ r # c.active /\ id \in {c.run[r].conv, c.run[r].infl}

\* onExternalConversationAboutToBeDeleted of the run: its turn is stopped.
stopsFor(c, r, id) ==
  generating(c, r) /\ id \in {c.run[r].conv, c.run[r].infl}

\* onExternalConversationDeleted: the run of the deleted conversation lets go of
\* it and is reaped under its key, the facade detached when the key was active.
onExternalConversationDeleted(c, id) ==
  LET r == c.m_runs[id]
      cleared == IF r # Nil /\ c.run[r].conv = id THEN adopt(c, r, NoConv) ELSE c
      detached == IF cleared.activeConv = id THEN repointFacade(cleared, Nil, NoConv)
                  ELSE cleared
  IN  [detached EXCEPT !.m_runs[id] = Nil]
=============================================================================
