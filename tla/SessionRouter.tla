---------------------------- MODULE SessionRouter ---------------------------
(***************************************************************************)
(* Session::SessionRouter over its ChatControllers: the desktop session and  *)
(* one session per remote client, each with a run map of its own, sharing    *)
(* the conversations.  The router counts the controllers that generate from  *)
(* the isGeneratingChanged signal of their facades.                          *)
(***************************************************************************)
EXTENDS ChatController

CONSTANTS Wire,      \* remote clients' session ids
          Features   \* what else may happen, of the set below

\* A conversation is deleted; an entry of a deleted one is still opened (a
\* search result, a banner, a client's list); the selection is cleared.
ASSUME FeaturesAssumption == Features \subseteq {"delete", "stale", "clear"}

Local == "local"
ASSUME WireAssumption == IsFiniteSet(Wire) /\ Local \notin Wire

Sessions == Wire \cup {Local}

VARIABLES cc,       \* the controller of each open session
          convs,    \* conversations: those that exist and those deleted
          genState, \* m_genStateByCC
          count     \* m_generatingCount

vars == <<cc, convs, genState, count>>

Init == /\ cc = [s \in {Local} |-> NewController]
        /\ convs = [exist |-> {}, gone |-> {}]
        /\ genState = [s \in Sessions |-> FALSE]
        /\ count = 0

\* A controller that uses a destroyed run has no defined behaviour left.
Usable(s) == s \in DOMAIN cc /\ ~Dangling(cc[s])

onActiveGeneratingChanged(s, c) ==
  LET nowGen == c.active # Nil /\ generating(c, c.active)
  IN  /\ genState' = [genState EXCEPT ![s] = nowGen]
      /\ count' = CASE nowGen = genState[s] -> count
                    [] nowGen /\ ~genState[s] -> count + 1
                    [] OTHER -> IF count > 0 THEN count - 1 ELSE 0

\* onChatGeneratingChanged, with the controller as it is at the signal.
onChatGeneratingChanged(s, c) ==
  LET nowGen == isAnyConvGenerating(c)
  IN  /\ genState' = [genState EXCEPT ![s] = nowGen]
      /\ count' = CASE nowGen = genState[s] -> count
                    [] nowGen /\ ~genState[s] -> count + 1
                    [] OTHER -> IF count > 0 THEN count - 1 ELSE 0

\* The controller of s after a step, and whether its facade signalled.
Become(s, c, signals) ==
  /\ cc' = [cc EXCEPT ![s] = reaped(c)]
  /\ IF signals THEN onChatGeneratingChanged(s, c) ELSE UNCHANGED <<genState, count>>

---------------------------------------------------------------------------

CreateConversation(id) ==
  /\ id \notin convs.exist \cup convs.gone
  /\ convs' = [convs EXCEPT !.exist = @ \cup {id}]
  /\ UNCHANGED <<cc, genState, count>>

Switch(s, id) ==
  /\ Usable(s)
  /\ \/ id \in convs.exist
     \/ id \in convs.gone /\ "stale" \in Features
     \/ id = NoConv /\ "clear" \in Features
  /\ LET n == switchConversation(cc[s], id, id \in convs.exist)
     IN  Become(s, n.c, n.repoints)
  /\ UNCHANGED convs

\* sendMessage in a run that shows a conversation: its turn starts.
Send(s) ==
  /\ Usable(s) /\ cc[s].active # Nil
  /\ LET r == cc[s].active
     IN  /\ cc[s].run[r].conv # NoConv /\ ~generating(cc[s], r)
         /\ Become(s, [cc[s] EXCEPT !.run[r].infl = cc[s].run[r].conv], TRUE)
  /\ UNCHANGED convs

\* sendMessage where no conversation is shown: one is created and adopted.
SendNew(s, id) ==
  /\ Usable(s) /\ id \notin convs.exist \cup convs.gone
  /\ LET c == ensureActiveRun(cc[s])
     IN  /\ c.run[c.active].conv = NoConv /\ ~generating(c, c.active)
         /\ Become(s, [adopt(c, c.active, id) EXCEPT !.run[c.active].infl = id], TRUE)
  /\ convs' = [convs EXCEPT !.exist = @ \cup {id}]

\* A sub-agent's reaction; a queued text that leaves later looks the same.
Reaction(id) ==
  /\ Usable(Local) /\ id \in convs.exist
  /\ LET n == runFor(cc[Local], id)
     IN  /\ ~generating(n.c, n.r)
         /\ Become(Local, [n.c EXCEPT !.run[n.r].infl = id], n.r = n.c.active)
  /\ UNCHANGED convs

\* A task starts or an image is ready in a conversation: its run is created,
\* and takes a turn when it shows that conversation.
BackgroundEvent(id) ==
  /\ Usable(Local) /\ id \in convs.exist
  /\ LET n == runFor(cc[Local], id)
         starts == n.c.run[n.r].conv = id /\ ~generating(n.c, n.r)
     IN  Become(Local, IF starts THEN [n.c EXCEPT !.run[n.r].infl = id] ELSE n.c,
                starts /\ n.r = n.c.active)
  /\ UNCHANGED convs

\* A turn ends: it finished, failed or was stopped.
TurnEnds(s, r) ==
  /\ Usable(s) /\ r \in Live(cc[s]) /\ generating(cc[s], r)
  /\ Become(s, [cc[s] EXCEPT !.run[r].infl = NoConv], r = cc[s].active)
  /\ UNCHANGED convs

\* deleteConversation: only the desktop's controller is told.
Delete(id) ==
  /\ "delete" \in Features /\ Usable(Local) /\ id \in convs.exist
  /\ convs' = [exist |-> convs.exist \ {id}, gone |-> convs.gone \cup {id}]
  /\ LET c == cc[Local]
         r == c.m_runs[id]
         stops == r # Nil /\ stopsFor(c, r, id)
         stopped == IF stops THEN [c EXCEPT !.run[r].infl = NoConv] ELSE c
         k == onExternalConversationDeleted(stopped, id)
     IN  Become(Local, k, (stops /\ r = c.active) \/ (k.active = Nil /\ c.active # Nil))

createWireSession(s) ==
  /\ s \in Wire \ DOMAIN cc
  /\ cc' = [x \in DOMAIN cc \cup {s} |-> IF x = s THEN NewController ELSE cc[x]]
  /\ genState' = [genState EXCEPT ![s] = FALSE]
  /\ UNCHANGED <<convs, count>>

destroyForgetsCount(ss) ==
  /\ ss # {} /\ ss \subseteq DOMAIN cc
  /\ cc' = [s \in DOMAIN cc \ ss |-> cc[s]]
  /\ genState' = [s \in Sessions |-> s \notin ss /\ genState[s]]
  /\ UNCHANGED <<convs, count>>

\* destroySession and destroyAllWireSessions: the sessions take their share of
\* the count with them.
destroySessions(ss) ==
  /\ ss # {} /\ ss \subseteq DOMAIN cc
  /\ cc' = [s \in DOMAIN cc \ ss |-> cc[s]]
  /\ genState' = [s \in Sessions |-> s \notin ss /\ genState[s]]
  /\ LET n == Cardinality({s \in ss : genState[s]})
     IN  count' = IF n < count THEN count - n ELSE 0
  /\ UNCHANGED convs

destroySession(s) == destroySessions({s})
destroyAllWireSessions == destroySessions(Wire \cap DOMAIN cc)

Next == \/ \E id \in Convs : \/ CreateConversation(id)
                             \/ Reaction(id) \/ BackgroundEvent(id) \/ Delete(id)
        \/ \E s \in Sessions : \/ Send(s)
                               \/ \E id \in Keys : Switch(s, id)
                               \/ \E id \in Convs : SendNew(s, id)
                               \/ \E r \in RunIds : TurnEnds(s, r)
        \/ \E s \in Wire : createWireSession(s) \/ destroySession(s)
        \/ destroyAllWireSessions

Spec == Init /\ [][Next]_vars

---------------------------------------------------------------------------
\* Properties

\* Controllers and counter have the shapes the classes declare.
TypeOK ==
  /\ count \in Nat /\ genState \in [Sessions -> BOOLEAN]
  /\ \A s \in DOMAIN cc :
       /\ cc[s].m_runs \in [Keys -> RunIds \cup {Nil}]
       /\ cc[s].run \in [RunIds -> [conv : Keys, infl : Keys]]
       /\ cc[s].active \in RunIds \cup {Nil} /\ cc[s].activeConv \in Keys

\* session-router.h:327-328: the counter is the sum of the recorded states,
\* through every order of turns, switches, disconnects and deletions.
CountIsSum == count = Cardinality({s \in Sessions : genState[s]})

\* chat-controller.cpp:361-367: no switch disturbs a turn: the run that drives
\* it stays in the map, under the same key and for the same conversation.
SwitchKeepsTurns ==
  [][\A s \in Sessions, id \in Keys : Switch(s, id) =>
       \A k \in Keys : (cc[s].m_runs[k] # Nil /\ generating(cc[s], cc[s].m_runs[k])) =>
         /\ cc'[s].m_runs[k] = cc[s].m_runs[k]
         /\ cc'[s].run[cc[s].m_runs[k]].infl = cc[s].run[cc[s].m_runs[k]].infl]_vars

\* chat-controller.cpp:347-349: a conversation has one run in a session, so two
\* turns never interleave in it.
OneTurnPerConversation ==
  \A s \in DOMAIN cc :
    \A q, r \in Live(cc[s]) :
      generating(cc[s], q) /\ cc[s].run[q].infl = cc[s].run[r].infl => q = r

\* chat-controller.cpp:278-301: bringing up another run tells the router what
\* the session really does, whatever it missed of background runs.
RepointResynchronises ==
  [][\A s \in DOMAIN cc \cap DOMAIN cc' : cc'[s].active # cc[s].active
       => genState'[s] = isAnyConvGenerating(cc'[s])]_vars

\* session-router.h:316-317: "True iff any registered ChatController instance
\* currently has its raw m_isGenerating set."
CountIsTruth ==
  count > 0 <=> \E s \in DOMAIN cc : isAnyConvGenerating(cc[s])

\* chat-controller.h:1331-1333: the active run is the one m_runs[m_activeConvId]
\* resolves to.
ActiveRunResolves ==
  \A s \in DOMAIN cc : cc[s].active # Nil
    => cc[s].m_runs[cc[s].activeConv] = cc[s].active

\* chat-controller.h:1413-1415: creating a run "primes the run's view state to
\* convId", so it answers for its conversation.
RunShowsItsKey ==
  \A s \in DOMAIN cc :
    \A k \in Keys : cc[s].m_runs[k] # Nil => cc[s].run[cc[s].m_runs[k]].conv = k

\* conversation-controller.cpp:124-129: a request that targets the conversation
\* is cancelled before the row goes, so no turn writes to a vanished one.
NoTurnInDeleted(s) == \A r \in Live(cc[s]) : cc[s].run[r].infl \notin convs.gone

\* The desktop keeps to that, whatever run and key the turn has.
DesktopLeavesDeleted == NoTurnInDeleted(Local)

\* The same of every session, the remote clients' included.
NoTurnInDeletedConversation == \A s \in DOMAIN cc : NoTurnInDeleted(s)
=============================================================================
