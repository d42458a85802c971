------------------------- MODULE ProviderScheduler -------------------------
(***************************************************************************)
(* Chat::ProviderScheduler with clients that keep the contract of its class *)
(* comment: a waiter holds at most one slot, releases what it holds and     *)
(* cancels what it queued.  A freed slot is taken on behalf of the queue's  *)
(* head inside release(); the head's callback runs later, from the event    *)
(* loop (QTimer::singleShot(0)), in any order between providers.            *)
(***************************************************************************)
EXTENDS ProviderBuckets, FiniteSets

CONSTANTS Providers,  \* provider buckets (an empty id is a bucket as well)
          Waiters,    \* stable waiterIds, one per ConversationRun
          Limits      \* the limits setProviderLimit may be called with

ASSUME WaitersAssumption == IsFiniteSet(Waiters)
ASSUME LimitsAssumption == Limits \subseteq Int

---------------------------------------------------------------------------
\* The component with contract-abiding clients

VARIABLES states,   \* m_states: a bucket per provider
          client    \* what each waiter's run believes and is owed

vars == <<states, client>>

Idle == [at |-> "idle"]
Client(at, p) == [at |-> at, p |-> p]
ClientStates == {Idle} \cup [at : {"queued", "posted", "held"}, p : Providers]

Init == /\ states = [p \in Providers |-> ProviderState]
        /\ client = [w \in Waiters |-> Idle]

\* A run dispatches a turn: acquire() either grants at once or queues it.
Acquire(w, p) ==
  /\ client[w].at = "idle"
  /\ LET a == acquire(states[p], w, "dispatch")
     IN  /\ states' = [states EXCEPT ![p] = a.st]
         /\ client' = [client EXCEPT
              ![w] = Client(IF a.granted THEN "held" ELSE "queued", p)]

\* The waiters a bucket's step takes out of the queue, for whom it posts the
\* grant callbacks they queued with.
Granted(before, after) ==
  {w \in Waiters : QueueIndex(before.queue, w) # 0 /\ QueueIndex(after.queue, w) = 0}

Posting(p, ws) ==
  [w \in Waiters |-> IF w \in ws THEN Client("posted", p) ELSE client[w]]

\* A turn's terminal path: the slot is released, which may post a grant.
Release(w, p) ==
  /\ client[w] = Client("held", p)
  /\ states' = [states EXCEPT ![p] = release(@)]
  /\ client' = [Posting(p, Granted(states[p], release(states[p])))
                EXCEPT ![w] = Idle]

\* The posted callback runs on a clean stack: the turn is dispatched and the
\* run now holds the slot that was counted for it.
RunGrant(w, p) ==
  /\ client[w] = Client("posted", p)
  /\ client' = [client EXCEPT ![w] = Client("held", p)]
  /\ UNCHANGED states

\* A queued turn is torn down.  cancel() visits every bucket.
Cancel(w) ==
  /\ client[w].at = "queued"
  /\ states' = [p \in Providers |-> cancel(states[p], w)]
  /\ client' = [client EXCEPT ![w] = Idle]

\* A new limit, which may post several grants at once.
SetProviderLimit(p, limit) ==
  /\ states' = [states EXCEPT ![p] = setProviderLimit(@, limit)]
  /\ client' = Posting(p, Granted(states[p], setProviderLimit(states[p], limit)))

Next == \/ \E w \in Waiters, p \in Providers :
             Acquire(w, p) \/ Release(w, p) \/ RunGrant(w, p)
        \/ \E w \in Waiters : Cancel(w)
        \/ \E p \in Providers, l \in Limits : SetProviderLimit(p, l)

\* The event loop runs posted callbacks, and every turn reaches a terminal
\* path (finish, error, stop), which releases what the run holds.
Fairness == \A w \in Waiters, p \in Providers :
              WF_vars(RunGrant(w, p)) /\ WF_vars(Release(w, p))

Spec == Init /\ [][Next]_vars
FairSpec == Spec /\ Fairness

---------------------------------------------------------------------------
\* Properties

\* The abstract slot pool this component implements: a run owns its slot from
\* the moment the counter is raised for it, posted callback or not.
Pool == INSTANCE SlotPool WITH
  Clients <- Waiters,
  capacity <- [p \in Providers |-> states[p].limit],
  turn <- [w \in Waiters |->
             CASE client[w].at = "idle" -> Idle
               [] client[w].at = "queued" -> [at |-> "waiting", p |-> client[w].p]
               [] OTHER -> [at |-> "owning", p |-> client[w].p]]

\* provider-scheduler.h:33-60: every step is a step of the slot pool, so a slot
\* passes from run to run with no window in which a third run could take it.
ImplementsSlotPool == Pool!Spec

Waiter == [waiterId : Waiters, onGranted : {"dispatch"}]
Queues == Seq(Waiter)
Bucket == [inFlight : Nat, limit : Nat \ {0}, peak : Nat, queue : Queues]

\* Buckets and clients have the shapes the class declares.
TypeOK == /\ states \in [Providers -> Bucket]
          /\ client \in [Waiters -> ClientStates]

\* The runs a provider's counter stands for: those that hold a slot and those
\* whose grant is posted but has not run.
Owners(p) == {w \in Waiters : client[w] \in {Client("held", p), Client("posted", p)}}

\* provider-scheduler.h:33-45: every slot in flight belongs to exactly one run,
\* so no release is lost (a wedged provider) and none happens twice (an extra
\* request), across queueing, deferred grants, cancels and limit changes.
SlotAccounting == \A p \in Providers :
                    states[p].inFlight = Cardinality(Owners(p))

\* A waiter sits in exactly the queue it believes it sits in, and only once:
\* cancel() from a torn-down turn leaves no entry that could be granted later.
QueueMatchesClients ==
  \A p \in Providers :
    /\ \A i \in 1..Len(states[p].queue) :
         client[states[p].queue[i].waiterId] = Client("queued", p)
    /\ \A i, j \in 1..Len(states[p].queue) :
         states[p].queue[i].waiterId = states[p].queue[j].waiterId => i = j
    /\ \A w \in Waiters : client[w] = Client("queued", p) =>
         \E i \in 1..Len(states[p].queue) : states[p].queue[i].waiterId = w

\* provider-scheduler.h:57-60: a run waits only while the provider is full; no
\* order of releases, cancels and limit changes strands one behind a free slot.
NoIdleSlotWithWaiters ==
  \A p \in Providers :
    states[p].queue # <<>> => states[p].inFlight >= states[p].limit

\* v stands in p's line in front of w, who queues behind it or not at all.
Ahead(p, v, w) ==
  LET q == states[p].queue
  IN  /\ QueueIndex(q, v) # 0
      /\ QueueIndex(q, w) = 0 \/ QueueIndex(q, v) < QueueIndex(q, w)

\* provider-scheduler.h:57-60, grants are FIFO: a step that gives w a slot of p,
\* queued or just arrived, also serves everybody in front of it, and a run that
\* queues or queues again takes its place behind all that stay in the line.
NoOvertaking ==
  [][\A p \in Providers : \A v, w \in Waiters : Ahead(p, v, w) =>
       /\ w \notin Owners(p) /\ w \in Owners(p)' => v \in Owners(p)'
       /\ client'[v] = Client("queued", p) => Ahead(p, v, w)']_vars

\* provider-scheduler.h:57-60, liveness: a queued run is dispatched or torn
\* down; a provider whose holders finish never wedges.
QueuedIsServed ==
  \A w \in Waiters : (client[w].at = "queued") ~> (client[w].at # "queued")

\* provider-scheduler.h:170-172: a limit lowered below the count in flight
\* "simply stops new grants until the count drops under the new limit".
LoweredLimitStopsGrants ==
  [][\A p \in Providers :
       (\E w \in Waiters : client[w].at # "posted" /\ client'[w] = Client("posted", p))
         => states'[p].inFlight <= states'[p].limit]_vars
=============================================================================
