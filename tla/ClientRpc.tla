----------------------------- MODULE ClientRpc -----------------------------
(***************************************************************************)
(* A tool that works on a folder a paired client shares calls the client:  *)
(* the tool's worker thread blocks while its request passes the bridge's   *)
(* thread (HostBridgePeer), the local socket, the verzeta-remote daemon    *)
(* (WireHostClient, WireServer) and one of the client's WebSocket sessions *)
(* (WireSession).  Bridge and session each keep a table of pending calls   *)
(* and a sweeper; connections break and processes end at any moment.       *)
(*                                                                         *)
(* Request ids are UUIDs and name their request.  Time is abstract: a      *)
(* deadline passes when the sweeper finds that it has.  Of an error's kind *)
(* only whether FileService takes it for a lost transport is kept.         *)
(***************************************************************************)
EXTENDS Integers, FiniteSets, Sequences, FiniteSetsExt, SequencesExt

CONSTANTS Requests,
          ExecRequests,               \* those with op vfs.execute
          MaxSessions, MaxLinks,      \* bounds: sockets ever opened
          MaxAbandoned,               \* bound: callers that stop waiting
          kMaxPendingBridgeRpc, kMaxPendingClientRequests

ASSUME ClientRpcAssumption ==
  /\ IsFiniteSet(Requests) /\ ExecRequests \subseteq Requests
  /\ MaxSessions \in Nat /\ MaxLinks \in Nat /\ MaxAbandoned \in Nat
  /\ kMaxPendingBridgeRpc \in Nat /\ kMaxPendingClientRequests \in Nat

Sessions == 1..MaxSessions
Links == 1..MaxLinks

VARIABLES caller,     \* blockingDispatch, per request
          outcome,    \* how often a request's callback fired, and with what
          inbox,      \* dispatches posted to the bridge's thread
          peer,       \* HostBridgePeer
          link,       \* the local sockets, in the order they were opened
          daemon,     \* WireHostClient
          session,    \* WireServer's sessions, in the order they connected
          performed   \* how often the client carried a request out

vars == <<caller, outcome, inbox, peer, link, daemon, session, performed>>

Refusals == {"refused", "unreachable"}
Kinds == {"ok"} \cup Refusals

Reply == [r : Requests, k : Kinds]

NewSession == [st |-> "none",       \* m_socket->state()
               bound |-> FALSE,     \* m_clientId is the client's
               exec |-> FALSE,      \* the client advertised vfs.execute
               pending |-> {},      \* m_pendingClientRequests
               down |-> <<>>, up |-> <<>>]

NewLink == [host |-> "none", remote |-> FALSE, down |-> <<>>, up |-> <<>>]

Init ==
  /\ caller = [r \in Requests |-> "idle"]
  /\ outcome = [r \in Requests |-> [n |-> 0, k |-> "none"]]
  /\ inbox = <<>>
  /\ peer = [st |-> "new",        \* onStart has not run, has run, onStop has run
             socket |-> 0,        \* m_socket
             pending |-> {}]      \* m_pendingClientRpc
  /\ link = [l \in Links |-> NewLink]
  /\ daemon = [up |-> FALSE,
               link |-> 0,        \* m_socket's connection
               retry |-> FALSE]   \* m_reconnectTimer is active
  /\ session = [s \in Sessions |-> NewSession]
  /\ performed = [r \in Requests |-> 0]

---------------------------------------------------------------------------
\* The worker thread

\* The callbacks of E fire with k.
Fire(E, k) ==
  outcome' = [r \in Requests |-> IF r \in E THEN [n |-> outcome[r].n + 1, k |-> k]
                                 ELSE outcome[r]]

\* dispatchClientRequest posts the call to the bridge's thread; the worker
\* waits on the semaphore.
blockingDispatch(r) ==
  /\ caller[r] = "idle"
  /\ peer.st # "new"
  /\ caller' = [caller EXCEPT ![r] = "waiting"]
  /\ inbox' = Append(inbox, r)
  /\ UNCHANGED <<outcome, peer, link, daemon, session, performed>>

\* tryAcquire gives up after the timeout and the grace period; the callback may
\* still fire, into a state nobody reads.
GiveUp(r) ==
  /\ caller[r] = "waiting" /\ outcome[r].n = 0
  /\ Cardinality({q \in Requests : caller[q] = "gaveUp"}) < MaxAbandoned
  /\ caller' = [caller EXCEPT ![r] = "gaveUp"]
  /\ UNCHANGED <<outcome, inbox, peer, link, daemon, session, performed>>

---------------------------------------------------------------------------
\* The bridge's thread

onStart ==
  /\ peer.st = "new"
  /\ peer' = [peer EXCEPT !.st = "running"]
  /\ UNCHANGED <<caller, outcome, inbox, link, daemon, session, performed>>

dispatchSilentlyOffline ==
  /\ peer.st = "running" /\ inbox # <<>>
  /\ inbox' = Tail(inbox)
  /\ IF peer.socket = 0 THEN UNCHANGED <<outcome, peer, link>>
     ELSE /\ peer' = [peer EXCEPT !.pending = @ \cup {Head(inbox)}]
          /\ link' = [link EXCEPT ![peer.socket].down = Append(@, Head(inbox))]
          /\ UNCHANGED outcome
  /\ UNCHANGED <<caller, daemon, session, performed>>

\* Every refusal fires the callback at once.
dispatchClientRequestOnPeerThread ==
  /\ peer.st = "running" /\ inbox # <<>>
  /\ inbox' = Tail(inbox)
  /\ LET r == Head(inbox)
         full == Cardinality(peer.pending) >= kMaxPendingBridgeRpc
     IN  \/ /\ peer.socket = 0
            /\ Fire({r}, "unreachable")
            /\ UNCHANGED <<peer, link>>
         \/ /\ peer.socket # 0 /\ full
            /\ Fire({r}, "refused")
            /\ UNCHANGED <<peer, link>>
         \/ /\ peer.socket # 0 /\ ~full
            /\ peer' = [peer EXCEPT !.pending = @ \cup {r}]
            /\ link' = [link EXCEPT ![peer.socket].down = Append(@, r)]
            /\ UNCHANGED outcome
  /\ UNCHANGED <<caller, daemon, session, performed>>

\* Replies to calls that already ended are dropped.
handleClientRpcReply ==
  /\ peer.socket # 0 /\ link[peer.socket].up # <<>>
  /\ LET m == Head(link[peer.socket].up)
     IN  IF m.r \in peer.pending
         THEN /\ Fire({m.r}, m.k)
              /\ peer' = [peer EXCEPT !.pending = @ \ {m.r}]
         ELSE UNCHANGED <<outcome, peer>>
  /\ link' = [link EXCEPT ![peer.socket].up = Tail(@)]
  /\ UNCHANGED <<caller, inbox, daemon, session, performed>>

\* The deadlines of E have passed.
sweepClientRpcTimeouts(E) ==
  /\ peer.st = "running"
  /\ E # {}
  /\ Fire(E, "unreachable")
  /\ peer' = [peer EXCEPT !.pending = @ \ E]
  /\ UNCHANGED <<caller, inbox, link, daemon, session, performed>>

Unopened == {l \in Links : link[l].host = "none"}
\* The bridge closes its end: what it has not read is lost.
HostCloses(k) == [k EXCEPT !.host = "closed", !.up = <<>>]

Backlog == {l \in Links : link[l].host = "pending"}

\* One remote at a time: the newest connection wins and what was sent over the
\* older one is refused.
onNewConnection ==
  /\ peer.st = "running" /\ Backlog # {}
  /\ Fire(IF peer.socket = 0 THEN {} ELSE peer.pending, "refused")
  /\ peer' = [peer EXCEPT !.socket = Max(Backlog),
                          !.pending = IF peer.socket = 0 THEN @ ELSE {}]
  /\ link' = [l \in Links |->
                CASE l \in Backlog /\ l = Max(Backlog) -> [link[l] EXCEPT !.host = "open"]
                  [] l # Max(Backlog) /\ l \in Backlog \cup {peer.socket} -> HostCloses(link[l])
                  [] OTHER -> link[l]]
  /\ UNCHANGED <<caller, inbox, daemon, session, performed>>

\* onSocketDisconnected: the daemon's end is gone and the frames that arrived
\* were read, or onSocketReadyRead met one above kMaxWireFrameBytes
\* (bound: a connection is left for the next).
bridgeDisconnected ==
  /\ peer.st = "running" /\ peer.socket # 0
  /\ link[peer.socket].up = <<>>
  /\ link[peer.socket].remote => Unopened # {}
  /\ Fire(peer.pending, "refused")
  /\ peer' = [peer EXCEPT !.socket = 0, !.pending = {}]
  /\ link' = [link EXCEPT ![peer.socket] = HostCloses(@)]
  /\ UNCHANGED <<caller, inbox, daemon, session, performed>>

\* The destructor ends the thread; what was posted to it is never run.
onStop ==
  /\ peer.st = "running"
  /\ Fire(peer.pending, "refused")
  /\ peer' = [st |-> "stopped", socket |-> 0, pending |-> {}]
  /\ link' = [l \in Links |-> IF link[l].host = "none" THEN link[l] ELSE HostCloses(link[l])]
  /\ UNCHANGED <<caller, inbox, daemon, session, performed>>

---------------------------------------------------------------------------
\* The daemon's connection to the host

\* connectToServer succeeds when the host listens.
connectToServer ==
  /\ Unopened # {}
  /\ LET l == Min(Unopened)
     IN  /\ link' = [link EXCEPT ![l].host = "pending", ![l].remote = TRUE]
         /\ daemon' = [up |-> TRUE, link |-> l, retry |-> FALSE]

\* The process starts; a first attempt that fails is not repeated.
start ==
  /\ ~daemon.up
  /\ IF peer.st = "running" THEN connectToServer
     ELSE daemon' = [daemon EXCEPT !.up = TRUE] /\ UNCHANGED link
  /\ UNCHANGED <<caller, outcome, inbox, peer, session, performed>>

\* WireHostClient::onSocketDisconnected.
hostLost ==
  /\ daemon.link # 0
  /\ link[daemon.link].host = "closed" /\ link[daemon.link].down = <<>>
  /\ daemon' = [daemon EXCEPT !.link = 0, !.retry = TRUE]
  /\ link' = [link EXCEPT ![daemon.link].remote = FALSE]
  /\ UNCHANGED <<caller, outcome, inbox, peer, session, performed>>

\* onSocketReadyRead meets a frame above kMaxWireFrameBytes and drops the
\* connection, with what else it carried (the same bound).
dropConnection ==
  /\ daemon.link # 0 /\ link[daemon.link].host = "open" /\ Unopened # {}
  /\ daemon' = [daemon EXCEPT !.link = 0, !.retry = TRUE]
  /\ link' = [link EXCEPT ![daemon.link].remote = FALSE, ![daemon.link].down = <<>>]
  /\ UNCHANGED <<caller, outcome, inbox, peer, session, performed>>

\* While the host is down the tick only arms the timer again.
onReconnectTick ==
  /\ daemon.up /\ daemon.retry
  /\ peer.st = "running"
  /\ connectToServer
  /\ UNCHANGED <<caller, outcome, inbox, peer, session, performed>>

\* The user stops the daemon, or it crashes: everything it held is gone.
\* Bound: a connection is left for its successor.
DaemonEnds ==
  /\ daemon.up /\ Unopened # {}
  /\ daemon' = [up |-> FALSE, link |-> 0, retry |-> FALSE]
  /\ link' = [l \in Links |-> IF l # daemon.link THEN link[l]
                              ELSE [link[l] EXCEPT !.remote = FALSE, !.down = <<>>]]
  /\ session' = [s \in Sessions |-> IF session[s].st = "none" THEN session[s]
                                    ELSE [NewSession EXCEPT !.st = "gone"]]
  /\ UNCHANGED <<caller, outcome, inbox, peer, performed>>

---------------------------------------------------------------------------
\* The daemon's sessions

m_sessions == {s \in Sessions : session[s].st \in {"open", "closing"}}

Messages(E, k) == LET q == SetToSeq(E)
                  IN  [i \in 1..Cardinality(E) |-> [r |-> q[i], k |-> k]]

\* What the daemon sends over a connection the bridge has closed is lost.
Sent(k, E, kind) == IF k.host = "closed" THEN k
                    ELSE [k EXCEPT !.up = @ \o Messages(E, kind)]

\* sendClientRpcReply for every request of E; dropped without a connection.
sendClientRpcReply(E, kind) ==
  link' = IF daemon.link = 0 THEN link
          ELSE [link EXCEPT ![daemon.link] = Sent(@, E, kind)]

sessionForClientId == {s \in m_sessions : session[s].bound}

\* The daemon answers a dispatch itself.
refuse(r, kind) ==
  LET read == [link[daemon.link] EXCEPT !.down = Tail(@)]
  IN  /\ link' = [link EXCEPT ![daemon.link] = Sent(read, {r}, kind)]
      /\ UNCHANGED session

\* sendClientRequest; its rate limit is a choice.
sendClientRequest(s, r) ==
  \/ /\ session[s].st # "open"
     /\ refuse(r, "unreachable")
  \/ /\ session[s].st = "open"
     /\ refuse(r, "refused")
  \/ /\ session[s].st = "open"
     /\ Cardinality(session[s].pending) < kMaxPendingClientRequests
     /\ session' = [session EXCEPT ![s].pending = @ \cup {r}, ![s].down = Append(@, r)]
     /\ link' = [link EXCEPT ![daemon.link].down = Tail(@)]

\* The first session of the client in the order of connection gets the call.
handleClientRpcDispatch ==
  /\ daemon.link # 0 /\ link[daemon.link].down # <<>>
  /\ LET r == Head(link[daemon.link].down)
         s == Min(sessionForClientId)
         none == sessionForClientId = {}
     IN  IF none \/ (r \in ExecRequests /\ ~session[s].exec)
         THEN refuse(r, "refused")
         ELSE sendClientRequest(s, r)
  /\ UNCHANGED <<caller, outcome, inbox, peer, daemon, performed>>

\* WireServer::onNewConnection.
clientConnects(s) ==
  /\ daemon.up
  /\ session[s].st = "none"
  /\ \A t \in 1..(s - 1) : session[t].st # "none"
  /\ session' = [session EXCEPT ![s] = [@ EXCEPT !.st = "open"]]
  /\ UNCHANGED <<caller, outcome, inbox, peer, link, daemon, performed>>

authWithoutEviction(s, exec) ==
  /\ session[s].st = "open"
  /\ session' = [session EXCEPT ![s].bound = TRUE, ![s].exec = exec]
  /\ UNCHANGED <<caller, outcome, inbox, peer, link, daemon, performed>>

authWithHandover(s, exec) ==
  LET evict == sessionForClientId \ {s}
      moved == UNION {session[t].pending : t \in evict}
  IN  /\ session[s].st = "open"
      /\ session' = [t \in Sessions |->
                       CASE t = s -> [session[s] EXCEPT !.bound = TRUE, !.exec = exec,
                                                        !.pending = @ \cup moved,
                                                        !.down = @ \o SetToSeq(moved)]
                         [] t \in evict -> [session[t] EXCEPT !.st = "closing",
                                                              !.pending = {}, !.up = <<>>]
                         [] OTHER -> session[t]]
      /\ UNCHANGED <<caller, outcome, inbox, peer, link, daemon, performed>>

\* opAuthToken, with onClientIdRebound and forceClose: the client's other
\* sessions are drained and closed; nothing is pending there for what they still
\* receive.
opAuthToken(s, exec) ==
  LET evict == sessionForClientId \ {s}
  IN  /\ session[s].st = "open"
      /\ session' = [t \in Sessions |->
                       CASE t = s -> [session[s] EXCEPT !.bound = TRUE, !.exec = exec]
                         [] t \in evict -> [session[t] EXCEPT !.st = "closing",
                                                              !.pending = {}, !.up = <<>>]
                         [] OTHER -> session[t]]
      /\ sendClientRpcReply(UNION {session[t].pending : t \in evict}, "unreachable")
      /\ UNCHANGED <<caller, outcome, inbox, peer, daemon, performed>>

\* A response to a call that ended is dropped.
onClientResponse(s) ==
  /\ s \in m_sessions /\ session[s].up # <<>>
  /\ LET m == Head(session[s].up)
     IN  /\ session' = [session EXCEPT ![s].up = Tail(@), ![s].pending = @ \ {m.r}]
         /\ sendClientRpcReply({m.r} \cap session[s].pending, m.k)
  /\ UNCHANGED <<caller, outcome, inbox, peer, daemon, performed>>

onClientRpcTimeoutSweep(s, E) ==
  /\ E # {}
  /\ session' = [session EXCEPT ![s].pending = @ \ E]
  /\ sendClientRpcReply(E, "unreachable")
  /\ UNCHANGED <<caller, outcome, inbox, peer, daemon, performed>>

\* WireSession::onSocketDisconnected and WireServer::onSessionDisconnected.
sessionDisconnected(s) ==
  /\ s \in m_sessions
  /\ session' = [session EXCEPT ![s] = [NewSession EXCEPT !.st = "gone"]]
  /\ sendClientRpcReply(session[s].pending, "unreachable")
  /\ UNCHANGED <<caller, outcome, inbox, peer, daemon, performed>>

---------------------------------------------------------------------------
\* The client performs a call and says so, or fails it.  Nothing makes it: a
\* client that hangs, or whose network went away without a word, is one that
\* takes no more steps.

ClientServes(s, k) ==
  /\ s \in m_sessions /\ session[s].down # <<>>
  /\ LET r == Head(session[s].down)
     IN  /\ performed' = [performed EXCEPT ![r] = IF k = "ok" THEN @ + 1 ELSE @]
         /\ session' = [session EXCEPT ![s].down = Tail(@),
                                       ![s].up = IF session[s].st = "closing" THEN @
                                                 ELSE Append(@, [r |-> r, k |-> k])]
  /\ UNCHANGED <<caller, outcome, inbox, peer, link, daemon>>

---------------------------------------------------------------------------
Host == \/ \E r \in Requests : blockingDispatch(r) \/ GiveUp(r)
        \/ onStart \/ dispatchClientRequestOnPeerThread \/ handleClientRpcReply
        \/ \E E \in SUBSET peer.pending : sweepClientRpcTimeouts(E)
        \/ onNewConnection \/ bridgeDisconnected \/ onStop

\* A client authenticates a connection once.
Daemon == \/ start \/ hostLost \/ dropConnection \/ onReconnectTick \/ DaemonEnds
          \/ handleClientRpcDispatch
          \/ \E s \in Sessions :
               \/ clientConnects(s) \/ onClientResponse(s) \/ sessionDisconnected(s)
               \/ /\ ~session[s].bound
                  /\ \E exec \in {FALSE, ExecRequests # {}} : opAuthToken(s, exec)
               \/ \E E \in SUBSET session[s].pending : onClientRpcTimeoutSweep(s, E)

Client == \E s \in Sessions, k \in {"ok", "refused"} : ClientServes(s, k)

Next == Host \/ Daemon \/ Client

\* The bridge's thread runs what is posted to it, its sweeper ticks and every
\* deadline passes; the daemon's reconnect timer ticks.  Nothing is asked of
\* the client or of the network.
Fairness ==
  /\ WF_vars(dispatchClientRequestOnPeerThread)
  /\ \A r \in Requests :
       WF_vars(\E E \in SUBSET peer.pending : r \in E /\ sweepClientRpcTimeouts(E))
  /\ WF_vars(onReconnectTick) /\ WF_vars(hostLost)

Spec == Init /\ [][Next]_vars
FairSpec == Spec /\ Fairness

---------------------------------------------------------------------------
\* Properties

LinkState == [host : {"none", "pending", "open", "closed"}, remote : BOOLEAN,
              down : Seq(Requests), up : Seq(Reply)]
SessionState == [st : {"none", "open", "closing", "gone"}, bound : BOOLEAN,
                 exec : BOOLEAN, pending : SUBSET Requests,
                 down : Seq(Requests), up : Seq(Reply)]

\* Tables, sockets and sessions have the shapes the classes declare.
TypeOK ==
  /\ caller \in [Requests -> {"idle", "waiting", "gaveUp"}]
  /\ outcome \in [Requests -> [n : Nat, k : {"none"} \cup Kinds]]
  /\ inbox \in Seq(Requests)
  /\ peer \in [st : {"new", "running", "stopped"}, socket : {0} \cup Links,
               pending : SUBSET Requests]
  /\ link \in [Links -> LinkState]
  /\ daemon \in [up : BOOLEAN, link : {0} \cup Links, retry : BOOLEAN]
  /\ session \in [Sessions -> SessionState]
  /\ performed \in [Requests -> Nat]

\* What the caller of a request sees, as OneShotCall has it: one that gave up
\* has told its tool of an internal_error.
StatusOf(r) ==
  CASE caller[r] = "idle" -> "idle"
    [] caller[r] = "waiting" /\ outcome[r].n = 0 -> "asked"
    [] caller[r] = "waiting" /\ outcome[r].n = 1 ->
         IF outcome[r].k = "ok" THEN "answered" ELSE "refused"
    [] caller[r] = "gaveUp" /\ outcome[r].n <= 1 -> "refused"
    [] OTHER -> "resolved again"

Call == INSTANCE OneShotCall WITH status <- [r \in Requests |-> StatusOf(r)]

\* A call ends once, and well only if the client performed it, which it does
\* at most once however it ended: whatever replies, timeouts, drains and connections overtake
\* each other on the way ("Never fired twice for the same request",
\* wire-host-bridge.h:163).
ImplementsOneShotCall == Call!Spec

\* Every call posted to the bridge ends while the bridge lives, whether or not
\* the daemon, the client or the network ever answers.
CallbackFires ==
  \A r \in Requests : (caller[r] # "idle") ~> (outcome[r].n > 0 \/ peer.st = "stopped")

\* A client that reconnects takes its place: two open sessions never carry the
\* same client, so no call waits in a session that was replaced.
ReplacedSessionIsEmpty ==
  /\ Cardinality({s \in sessionForClientId : session[s].st = "open"}) <= 1
  /\ \A s \in m_sessions : session[s].st = "closing" => session[s].pending = {}

\* Violated.  With a live session of its client, a call is not refused because
\* an older one is closed (wire-session.h:240).
LiveSessionIsReached ==
  [][\A s \in Sessions :
       (handleClientRpcDispatch /\ session[s].st = "open" /\ session[s].bound
          /\ Head(link[daemon.link].down) \notin ExecRequests)
       => ~(daemon.link' # 0 /\ link'[daemon.link].up # link[daemon.link].up
            /\ Last(link'[daemon.link].up).k = "unreachable")]_vars

\* Violated.  The daemon reconnects when the host is down (wire-host-client.h:11).
DaemonConnects ==
  (daemon.up /\ daemon.link = 0 /\ Unopened # {} /\ peer.st = "running")
     ~> (daemon.link # 0 \/ ~daemon.up \/ peer.st = "stopped")

\* Violated.  A file the client wrote is not saved on the host as well
\* (file-service.cpp:961 takes a timeout for a write that did not happen).
WrittenOnce ==
  \A r \in Requests : performed[r] > 0 /\ caller[r] = "waiting" => outcome[r].k # "unreachable"
============================================================================
