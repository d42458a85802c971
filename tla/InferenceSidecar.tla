--------------------------- MODULE InferenceSidecar ---------------------------
(***************************************************************************)
(* The local inference engine: verzeta-inference, a child process that     *)
(* answers one frame at a time; the IO worker that owns it and sends it    *)
(* one request at a time; the callers that block on the host; and          *)
(* LlamaCppProvider, whose chat streams share the same lane.               *)
(*                                                                         *)
(* The IO thread handles one event at a time: a posted call, a frame of    *)
(* the child, the child's exit, or one turn of the pumpQueue recursion.    *)
(* Requests are numbered in the order they are made; a frame carries the   *)
(* number of its request once that has been sent, 0 otherwise.  A model is *)
(* a GGUF path with its context window.                                    *)
(***************************************************************************)
EXTENDS Naturals, Sequences, FiniteSets, SequencesExt

CONSTANTS
  Models,                        \* GGUF files
  NoModel,                       \* an empty slot
  CallSlots,                     \* slots that blocking callers use
  kMaxConsecutiveSpawnFailures,
  MaxRequests                    \* bound: requests ever made

ASSUME SidecarAssumption ==
  /\ NoModel \notin Models /\ CallSlots \subseteq {"embed", "ragp"}
  /\ kMaxConsecutiveSpawnFailures \in Nat \ {0} /\ MaxRequests \in Nat

VARIABLES
  reqs,    \* the requests made so far: [op, slot, gguf]
  ended,   \* per request: the outcomes given to its caller
  caller,  \* the blocked caller holding callerMutex, 0 for none
  posts,   \* calls posted to the IO thread
  host,    \* SidecarIoWorker
  child,   \* the process
  toMain,  \* stream signals queued to the main thread
  active,  \* LlamaCppProvider::m_activeStreamId
  fresh,   \* bound: cancelRequest is called once per stream
  shut     \* the host is being destroyed

vars == <<reqs, ended, caller, posts, host, child, toMain, active, fresh, shut>>

Slots == CallSlots \cup {"chat"}
Empty == [s \in Slots |-> NoModel]

NoChild == [alive |-> FALSE, slot |-> Empty, inbox |-> <<>>, outbox |-> <<>>,
            stream |-> 0,        \* the request being generated
            said |-> FALSE]      \* it has produced a piece

Init == /\ reqs = <<>> /\ ended = <<>> /\ caller = 0 /\ posts = <<>>
        /\ host = [queue |-> <<>>, current |-> 0,
                   sent |-> FALSE,       \* m_current->id is set
                   awaiting |-> FALSE,   \* m_awaitingLoad
                   loaded |-> Empty, failures |-> 0,
                   running |-> FALSE,    \* QProcess::state
                   pump |-> FALSE]       \* inside pumpQueue
        /\ child = NoChild /\ toMain = <<>> /\ active = 0 /\ fresh = FALSE /\ shut = FALSE

\* The state an IO-thread handler works on.
Sys == [ended |-> ended, caller |-> caller, host |-> host, child |-> child, toMain |-> toMain]

Become(S) == \E T \in {S} : /\ ended' = T.ended /\ caller' = T.caller
                            /\ host' = T.host /\ child' = T.child /\ toMain' = T.toMain

IsStream(r) == reqs[r].op = "stream"

---------------------------------------------------------------------------
\* The IO worker

Outcome(ok, finish, model) == [ok |-> ok, finish |-> finish, model |-> model]
Failed == Outcome(FALSE, "", NoModel)

\* The semaphore of a blocked caller, or the terminal signal of a stream.
Tell(S, r, out) ==
  [S EXCEPT !.ended[r] = Append(@, out),
            !.caller = IF @ = r THEN 0 ELSE @,
            !.toMain = IF IsStream(r) THEN Append(@, [kind |-> "end", id |-> r]) ELSE @]

finishCurrentKept(S, out) ==
  IF S.host.current = 0 THEN S ELSE Tell(S, S.host.current, out)

finishCurrent(S, out) ==
  IF S.host.current = 0 THEN S
  ELSE [Tell(S, S.host.current, out) EXCEPT !.host.current = 0, !.host.sent = FALSE]

\* The streams among the waiting requests q hear their end in order.
StreamEnds(q) == LET streams == SelectSeq(q, IsStream)
                 IN  [i \in DOMAIN streams |-> [kind |-> "end", id |-> streams[i]]]

failAll(S) ==
  LET T == finishCurrent(S, Failed)
      waiting == ToSet(T.host.queue)
  IN  [T EXCEPT !.ended = [r \in DOMAIN T.ended |-> IF r \in waiting THEN Append(T.ended[r], Failed)
                                                    ELSE T.ended[r]],
                !.caller = IF @ \in waiting THEN 0 ELSE @,
                !.toMain = @ \o StreamEnds(T.host.queue),
                !.host.queue = <<>>]

\* A frame for a child that has died goes nowhere.
sendFrame(S, frame) ==
  [S EXCEPT !.child.inbox = IF S.child.alive THEN Append(@, frame) ELSE @]

\* A prompt over the protocol's frame cap is refused on this side.
dispatchCurrent(S) ==
  {[sendFrame(S, [op |-> "request", id |-> S.host.current])
      EXCEPT !.host.sent = TRUE, !.host.pump = FALSE],
   [finishCurrent(S, Failed) EXCEPT !.host.pump = TRUE]}

latchedUnavailable(S) == S.host.failures >= kMaxConsecutiveSpawnFailures

\* The process starts, or the binary is missing or does not start in time.
ensureProcess(S) ==
  IF S.host.running \/ latchedUnavailable(S) THEN {S}
  ELSE LET T == [S EXCEPT !.host.loaded = Empty]
       IN  {[T EXCEPT !.host.failures = 0, !.host.running = TRUE,
                      !.child = [NoChild EXCEPT !.alive = TRUE]],
            [T EXCEPT !.host.failures = @ + 1]}

\* A load frame the pipe does not take fails its request.
requestLoad(S) ==
  {[sendFrame(S, [op |-> "load", id |-> S.host.current])
      EXCEPT !.host.awaiting = TRUE, !.host.pump = FALSE],
   [finishCurrent(S, Failed) EXCEPT !.host.pump = TRUE]}

\* What pumpQueue does with a running process: the slot's model is loaded
\* first when the request names another one.
SendAny(S) == IF S.host.loaded[reqs[S.host.current].slot] # NoModel
              THEN dispatchCurrent(S)
              ELSE requestLoad(S)

Send(S) ==
  LET r == reqs[S.host.current]
  IN  IF r.gguf = S.host.loaded[r.slot] THEN dispatchCurrent(S) ELSE requestLoad(S)

\* One turn of pumpQueue; it calls itself while requests fail here.
pumpQueue ==
  /\ host.pump
  /\ IF host.current # 0 \/ host.queue = <<>>
     THEN Become([Sys EXCEPT !.host.pump = FALSE])
     ELSE LET T == [Sys EXCEPT !.host.current = Head(host.queue), !.host.sent = FALSE,
                               !.host.queue = Tail(@)]
          IN  \E S \in ensureProcess(T) :
                IF S.host.running THEN \E U \in Send(S) : Become(U)
                ELSE LET U == finishCurrent(S, Failed)
                     IN  Become(IF latchedUnavailable(U) THEN failAll(U) ELSE U)
  /\ UNCHANGED <<reqs, posts, active, fresh, shut>>

submit(S, r) == [S EXCEPT !.host.queue = Append(@, r), !.host.pump = TRUE]

\* takeAt of the request's place in the queue.
Without(q, r) == RemoveAt(q, CHOOSE i \in DOMAIN q : q[i] = r)

\* A live stream is asked to stop by the id of its frame, a queued one is
\* taken out of the queue.
cancelStream(S, r) ==
  IF S.host.current = r
  THEN sendFrame(S, [op |-> "cancel", id |-> IF S.host.sent THEN r ELSE 0])
  ELSE IF r \in ToSet(S.host.queue)
  THEN Tell([S EXCEPT !.host.queue = Without(@, r)], r, Outcome(TRUE, "cancelled", NoModel))
  ELSE S

setBinaryOverride(S) == [S EXCEPT !.host.failures = 0]

\* The IO thread takes the next posted call.
Posted ==
  /\ ~host.pump /\ posts # <<>> /\ ~shut
  /\ posts' = Tail(posts)
  /\ LET p == Head(posts)
     IN  Become(CASE p.call = "submit" -> submit(Sys, p.id)
                  [] p.call = "cancel" -> cancelStream(Sys, p.id))
  /\ UNCHANGED <<reqs, active, fresh, shut>>

OverrideBinary == /\ ~host.pump /\ ~shut /\ host.failures > 0
                  /\ Become(setBinaryOverride(Sys))
                  /\ UNCHANGED <<reqs, posts, active, fresh, shut>>

\* The answer to the implicit load: whatever frame comes first.
LoadAnsweredStuck(S, frame) ==
  LET slot == reqs[S.host.current].slot
      T == [S EXCEPT !.host.awaiting = FALSE]
  IN  IF frame.ok
      THEN dispatchCurrent([T EXCEPT !.host.loaded[slot] = reqs[S.host.current].gguf])
      ELSE {finishCurrent(T, Failed)}

LoadAnswered(S, frame) ==
  LET slot == reqs[S.host.current].slot
      T == [S EXCEPT !.host.awaiting = FALSE]
  IN  IF frame.ok
      THEN dispatchCurrent([T EXCEPT !.host.loaded[slot] = reqs[S.host.current].gguf])
      ELSE {[finishCurrent(T, Failed) EXCEPT !.host.pump = TRUE]}

onFrame(S, frame) ==
  IF S.host.awaiting THEN LoadAnswered(S, frame)
  ELSE IF S.host.current = 0 \/ ~S.host.sent \/ frame.id # S.host.current THEN {S}
  ELSE IF frame.op = "chunk"
  THEN {[S EXCEPT !.toMain = Append(@, [kind |-> "chunk", id |-> frame.id])]}
  ELSE {[finishCurrent(S, Outcome(frame.ok, frame.finish, frame.model))
           EXCEPT !.host.pump = TRUE]}

ForgetWaiting(S) == [S EXCEPT !.host.loaded = Empty, !.host.awaiting = FALSE,
                              !.host.running = FALSE, !.child = NoChild]

\* What the worker forgets with the process; a later request starts another.
Forget(S) == failAll([S EXCEPT !.host.loaded = Empty, !.host.awaiting = FALSE,
                               !.host.running = FALSE, !.child = NoChild])

\* A malformed frame is skipped.  An oversized one is unreadable: everything
\* fails and the child is stopped, whose exit is handled before the call
\* returns.
onStdout ==
  /\ ~host.pump /\ host.running /\ child.outbox # <<>>
  /\ LET frame == Head(child.outbox)
         S == [Sys EXCEPT !.child.outbox = Tail(@)]
     IN  IF frame.op = "unreadable" THEN Become(Forget(failAll(S)))
         ELSE IF frame.op = "malformed" THEN Become(S)
         ELSE \E T \in onFrame(S, frame) : Become(T)
  /\ UNCHANGED <<reqs, posts, active, fresh, shut>>

\* The exit is reported once the child's output has been read.
onFinished ==
  /\ ~host.pump /\ host.running /\ ~child.alive /\ child.outbox = <<>>
  /\ Become(Forget(Sys))
  /\ UNCHANGED <<reqs, posts, active, fresh, shut>>

---------------------------------------------------------------------------
\* The process

Reply(C, frame) == [C EXCEPT !.outbox = Append(@, frame)]
Answer(op, id, ok, finish, model) ==
  [op |-> op, id |-> id, ok |-> ok, finish |-> finish, model |-> model]

\* A missing file leaves the slot alone; otherwise the old model is released
\* before the new one is tried.
load(C, r) ==
  LET slot == reqs[r].slot
  IN  {Reply(C, Answer("error", 0, FALSE, "", NoModel)),
       Reply([C EXCEPT !.slot[slot] = NoModel], Answer("error", 0, FALSE, "", NoModel)),
       Reply([C EXCEPT !.slot[slot] = reqs[r].gguf],
             Answer("load_result", 0, TRUE, "", NoModel))}

\* status is answered whatever is loaded; a stream starts generating.
serve(C, r) ==
  LET model == C.slot[reqs[r].slot]
      error == Reply(C, Answer("error", r, FALSE, "", NoModel))
  IN  CASE reqs[r].op = "warm" -> {Reply(C, Answer("result", r, TRUE, "", model))}
        [] reqs[r].op # "warm" /\ model = NoModel -> {error}
        [] reqs[r].op = "call" /\ model # NoModel ->
             {error, Reply(C, Answer("result", r, TRUE, "", model))}
        [] OTHER -> {error, [C EXCEPT !.stream = r, !.said = FALSE]}

\* The frame loop; a cancel outside a stream is ignored.
Dispatch ==
  /\ child.alive /\ child.stream = 0 /\ child.inbox # <<>>
  /\ LET f == Head(child.inbox)
         C == [child EXCEPT !.inbox = Tail(@)]
     IN  child' \in CASE f.op = "load" -> load(C, f.id)
                      [] f.op = "request" -> serve(C, f.id)
                      [] f.op = "cancel" -> {C}
  /\ UNCHANGED <<reqs, ended, caller, posts, host, toMain, active, fresh, shut>>

\* pollCancelOrEof before every token: the stream stops for a cancel of its
\* own id and drops any other.
Generate ==
  /\ child.alive /\ child.stream # 0
  /\ LET r == child.stream
         C == [child EXCEPT !.inbox = <<>>]
         End(finish) == [Reply(C, Answer("result", r, TRUE, finish, child.slot["chat"]))
                           EXCEPT !.stream = 0, !.said = FALSE]
     IN  IF [op |-> "cancel", id |-> r] \in ToSet(child.inbox)
         THEN child' = End("cancelled")
         ELSE \/ child' = End("stop")
              \/ child' = [Reply(C, Answer("error", r, FALSE, "", NoModel))
                             EXCEPT !.stream = 0, !.said = FALSE]
              \/ /\ ~child.said
                 /\ child' = [Reply(C, Answer("chunk", r, TRUE, "", NoModel)) EXCEPT !.said = TRUE]
  /\ UNCHANGED <<reqs, ended, caller, posts, host, toMain, active, fresh, shut>>

Crash == /\ child.alive
         /\ child' = [child EXCEPT !.alive = FALSE, !.inbox = <<>>, !.stream = 0, !.said = FALSE]
         /\ UNCHANGED <<reqs, ended, caller, posts, host, toMain, active, fresh, shut>>

\* Something other than a frame reaches stdout, its length bounded or not; one
\* at a time (bound).
Noise == {[op |-> "unreadable"], [op |-> "malformed"]}

Garble == /\ child.alive /\ ToSet(child.outbox) \cap Noise = {}
          /\ \E frame \in Noise : child' = Reply(child, frame)
          /\ UNCHANGED <<reqs, ended, caller, posts, host, toMain, active, fresh, shut>>

---------------------------------------------------------------------------
\* Callers

NewRequest(op, slot, gguf) ==
  /\ Len(reqs) < MaxRequests
  /\ reqs' = Append(reqs, [op |-> op, slot |-> slot, gguf |-> gguf])
  /\ ended' = Append(ended, <<>>)

Submit == [call |-> "submit", id |-> Len(reqs) + 1]

\* embedBlocking, completeBlocking and warmModelBlocking hold callerMutex for
\* the whole wait.
Block(op, slot, gguf) ==
  /\ ~shut /\ caller = 0
  /\ NewRequest(op, slot, gguf)
  /\ caller' = Len(reqs) + 1
  /\ posts' = Append(posts, Submit)
  /\ UNCHANGED <<host, child, toMain, active, fresh, shut>>

\* The caller gives up; the request stays in the lane.
TimeOut == /\ caller # 0 /\ caller' = 0
           /\ UNCHANGED <<reqs, ended, posts, host, child, toMain, active, fresh, shut>>

\* LlamaCppProvider::sendRequest: a stream that is still active is cancelled
\* and no longer listened to.
sendRequest(gguf) ==
  /\ ~shut /\ ~latchedUnavailable(Sys)
  /\ NewRequest("stream", "chat", gguf)
  /\ active' = Len(reqs) + 1 /\ fresh' = TRUE
  /\ posts' = IF active = 0 THEN Append(posts, Submit)
              ELSE Append(Append(posts, [call |-> "cancel", id |-> active]), Submit)
  /\ UNCHANGED <<caller, host, child, toMain, shut>>

cancelRequest ==
  /\ active # 0 /\ fresh /\ fresh' = FALSE
  /\ posts' = Append(posts, [call |-> "cancel", id |-> active])
  /\ UNCHANGED <<reqs, ended, caller, host, child, toMain, active, shut>>

\* The provider's slots for the stream signals.
Deliver ==
  /\ toMain # <<>> /\ toMain' = Tail(toMain)
  /\ active' = IF Head(toMain).kind = "end" /\ Head(toMain).id = active THEN 0 ELSE active
  /\ fresh' = (fresh /\ active' # 0)
  /\ UNCHANGED <<reqs, ended, caller, posts, host, child, shut>>

\* The destructor: consumers' threads have been joined, what was posted before
\* has run; the signals queued to the host are dropped with it.
Shutdown ==
  /\ ~shut /\ ~host.pump /\ posts = <<>> /\ caller = 0
  /\ shut' = TRUE
  /\ Become([failAll(Sys) EXCEPT !.host.running = FALSE, !.child = NoChild,
                                 !.toMain = <<>>])
  /\ UNCHANGED <<reqs, posts, active, fresh>>

Worker == pumpQueue \/ Posted \/ onStdout \/ onFinished
Process == Dispatch \/ Generate
Faults == Crash \/ Garble \/ TimeOut

Next == \/ Worker \/ Process \/ Faults \/ OverrideBinary
        \/ \E gguf \in Models :
             \/ sendRequest(gguf)
             \/ \E op \in {"call", "warm"}, slot \in CallSlots : Block(op, slot, gguf)
        \/ cancelRequest \/ Deliver \/ Shutdown

\* The event loops run and the child computes; it may crash, but a child that
\* neither answers nor exits blocks the lane: the host has no watchdog.
Spec == /\ Init /\ [][Next]_vars
        /\ WF_vars(pumpQueue) /\ WF_vars(Posted) /\ WF_vars(onStdout) /\ WF_vars(onFinished)
        /\ WF_vars(Process) /\ WF_vars(Deliver)

---------------------------------------------------------------------------
\* Properties

Made == DOMAIN reqs

\* Records, queues and slots have the values their types give them.
TypeOK ==
  /\ reqs \in Seq([op : {"stream", "call", "warm"}, slot : Slots, gguf : Models])
  /\ Len(ended) = Len(reqs) /\ caller \in Made \cup {0} /\ active \in Made \cup {0}
  /\ host.current \in Made \cup {0} /\ ToSet(host.queue) \subseteq Made
  /\ host.failures \in 0..kMaxConsecutiveSpawnFailures
  /\ host.loaded \in [Slots -> Models \cup {NoModel}]
  /\ child.slot \in [Slots -> Models \cup {NoModel}] /\ child.stream \in Made \cup {0}

\* inference-sidecar-host.h:170,241 and the "exactly once" of PendingRequest:
\* whatever crashes, fails to start, is cancelled or is shut down, no caller is
\* answered twice and a caller gone by timeout is not mixed up with the next.
EndsOnce ==
  /\ \A r \in Made : Len(ended[r]) <= 1
  /\ \A r \in Made : ended[r] # <<>> => r # host.current /\ r \notin ToSet(host.queue)

\* inference-sidecar-host.h:93-94: an answer was computed by the model the
\* request names, across reloads, crashes and restarts of the process.
OwnModelAnswers ==
  \A r \in Made : \A i \in DOMAIN ended[r] :
    LET out == ended[r][i]
    IN  out.ok /\ reqs[r].op # "warm" /\ out.finish # "cancelled" => out.model = reqs[r].gguf

\* While the IO thread waits for an answer there is one to wait for: the frame
\* is with the child, its answer on the pipe, or the child's exit unreported.
InFlightIsReal ==
  (host.current # 0 /\ ~host.pump /\ ~shut) =>
    /\ host.running
    /\ \/ ~child.alive
       \/ child.stream = host.current
       \/ \E i \in DOMAIN child.inbox : child.inbox[i].op # "cancel"
       \/ \E i \in DOMAIN child.outbox : child.outbox[i].op \notin {"chunk", "malformed"}

\* Every request is answered, and every stream the provider started ends for
\* it unless the host is destroyed first, whose last signals nobody delivers: a
\* crash, a failed load, a refused frame or the latch never leaves one waiting.
RequestEnds ==
  \A r \in 1..MaxRequests :
    (r \in Made) ~> (r \in Made /\ ended[r] # <<>> /\ (active # r \/ shut))

\* inference-sidecar-host.h:123: warmModelBlocking "True when the slot is
\* loaded and ready".
WarmMeansLoaded ==
  \A r \in Made : \A i \in DOMAIN ended[r] :
    reqs[r].op = "warm" /\ ended[r][i].ok => ended[r][i].model = reqs[r].gguf

\* inference-sidecar-host.h:187-190: "cancellation lands within one token": a
\* cancel the worker has handled stops the stream before it generates.
CancelLands ==
  [][\A r \in Made :
       (/\ posts # <<>> /\ Head(posts) = [call |-> "cancel", id |-> r] /\ Posted
        /\ host.current = r)
         => host.sent]_vars
=============================================================================
