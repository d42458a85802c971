--------------------------- MODULE ProviderBuckets --------------------------
(***************************************************************************)
(* Chat::ProviderScheduler's methods as operators on a provider's bucket:  *)
(* a counter of requests in flight, a limit and a FIFO queue of waiting    *)
(* runs with their callbacks.  ProviderScheduler.tla closes them with      *)
(* well-behaved clients, ConversationRun.tla with the real caller.         *)
(***************************************************************************)
EXTENDS Integers, Sequences

\* ProviderState with the default capacity of one request per provider.
ProviderState == [inFlight |-> 0, limit |-> 1, queue |-> <<>>, peak |-> 0]

\* Per-provider high-water mark, taken wherever inFlight grows.
recordPeak(st) ==
  [st EXCEPT !.peak = IF st.inFlight > st.peak THEN st.inFlight ELSE st.peak]

\* The queue position of a waiter; 0 when it does not wait in this bucket.
QueueIndex(q, w) ==
  IF \E i \in DOMAIN q : q[i].waiterId = w
  THEN CHOOSE i \in DOMAIN q : q[i].waiterId = w
  ELSE 0

\* The FIFO grant both release and setProviderLimit make: the head's slot is
\* counted before its callback runs.
grantHead(st) ==
  recordPeak([st EXCEPT !.inFlight = @ + 1, !.queue = Tail(@)])

acquireOverLimit(st, w, cb) ==
  IF st.inFlight <= st.limit
  THEN [granted |-> TRUE, st |-> recordPeak([st EXCEPT !.inFlight = @ + 1])]
  ELSE [granted |-> FALSE,
        st |-> [st EXCEPT !.queue = Append(@, [waiterId |-> w, onGranted |-> cb])]]

\* A free slot is taken at once; otherwise the waiter queues, at most once.
acquire(st, w, cb) ==
  IF st.inFlight < st.limit
  THEN [granted |-> TRUE, st |-> recordPeak([st EXCEPT !.inFlight = @ + 1])]
  ELSE [granted |-> FALSE,
        st |-> IF QueueIndex(st.queue, w) # 0 THEN st
               ELSE [st EXCEPT !.queue =
                       Append(@, [waiterId |-> w, onGranted |-> cb])]]

\* Whether release hands the freed slot to a waiter, and to which.
GrantsOnRelease(st) == st.inFlight > 0 /\ st.queue # <<>>

releaseForgetsSlot(st) ==
  CASE st.inFlight <= 0 -> st
    [] GrantsOnRelease(st) -> [st EXCEPT !.queue = Tail(@), !.inFlight = @ - 1]
    [] OTHER -> [st EXCEPT !.inFlight = @ - 1]

releaseGrantsNewest(st) ==
  CASE st.inFlight <= 0 -> st
    [] GrantsOnRelease(st) -> [st EXCEPT !.queue = SubSeq(@, 1, Len(@) - 1)]
    [] OTHER -> [st EXCEPT !.inFlight = @ - 1]

\* A release without a slot in flight is ignored; the freed slot goes to the
\* head of the queue in the same step.
release(st) ==
  CASE st.inFlight <= 0 -> st
    [] GrantsOnRelease(st) -> grantHead([st EXCEPT !.inFlight = @ - 1])
    [] OTHER -> [st EXCEPT !.inFlight = @ - 1]

cancelGivesSlotBack(st, w) ==
  LET i == QueueIndex(st.queue, w)
  IN  IF i = 0 THEN st
      ELSE [st EXCEPT !.queue = SubSeq(@, 1, i - 1) \o SubSeq(@, i + 1, Len(@)),
                      !.inFlight = @ - 1]

cancelHeadOnly(st, w) ==
  IF QueueIndex(st.queue, w) = 1 THEN [st EXCEPT !.queue = Tail(@)] ELSE st

\* Drops a waiter from a bucket's queue (acquire keeps it there at most once)
\* and leaves inFlight alone.
cancel(st, w) ==
  LET i == QueueIndex(st.queue, w)
  IN  IF i = 0 THEN st
      ELSE [st EXCEPT !.queue = [j \in 1..(Len(st.queue) - 1) |->
                                   IF j < i THEN st.queue[j] ELSE st.queue[j + 1]]]

\* How many queued waiters a new limit admits.
Admitted(st, limit) ==
  LET room == limit - st.inFlight
  IN  IF room <= 0 THEN 0 ELSE IF room < Len(st.queue) THEN room ELSE Len(st.queue)

setProviderLimitNoDrain(st, limit) ==
  [st EXCEPT !.limit = IF limit > 1 THEN limit ELSE 1]

\* Clamps the limit to one or more and admits queued waiters, oldest first.
setProviderLimit(st, limit) ==
  LET l == IF limit > 1 THEN limit ELSE 1
      n == Admitted(st, l)
  IN  recordPeak([st EXCEPT !.limit = l, !.inFlight = @ + n,
                            !.queue = SubSeq(@, n + 1, Len(@))])
=============================================================================
