------------------------------ MODULE SlotPool ------------------------------
(***************************************************************************)
(* What the provider scheduler promises its clients, with no queues,       *)
(* counters or callbacks: a client waits only for a full provider, and a   *)
(* slot that is given up while someone waits changes hands in one step.    *)
(***************************************************************************)
EXTENDS Integers, FiniteSets

CONSTANTS Providers, Clients
VARIABLES capacity,  \* the requests a provider may run at once
          turn       \* per client: idle, waiting for or owning a slot

vars == <<capacity, turn>>

Idle == [at |-> "idle"]
Waiting(p) == [at |-> "waiting", p |-> p]
Owning(p) == [at |-> "owning", p |-> p]

Owners(p) == {c \in Clients : turn[c] = Owning(p)}
Queue(p) == {c \in Clients : turn[c] = Waiting(p)}
Full(p) == Cardinality(Owners(p)) >= capacity[p]

Init == /\ capacity = [p \in Providers |-> 1]
        /\ turn = [c \in Clients |-> Idle]

Take(c, p) == /\ turn[c] = Idle /\ ~Full(p)
              /\ turn' = [turn EXCEPT ![c] = Owning(p)]
              /\ UNCHANGED capacity

Wait(c, p) == /\ turn[c] = Idle /\ Full(p)
              /\ turn' = [turn EXCEPT ![c] = Waiting(p)]
              /\ UNCHANGED capacity

GiveUp(c, p) == /\ turn[c] = Owning(p) /\ Queue(p) = {}
                /\ turn' = [turn EXCEPT ![c] = Idle]
                /\ UNCHANGED capacity

HandOver(c, d, p) == /\ turn[c] = Owning(p) /\ d \in Queue(p)
                     /\ turn' = [turn EXCEPT ![c] = Idle, ![d] = Owning(p)]
                     /\ UNCHANGED capacity

Withdraw(c) == /\ turn[c].at = "waiting"
               /\ turn' = [turn EXCEPT ![c] = Idle]
               /\ UNCHANGED capacity

\* A new capacity admits waiting clients until it is used up or none waits.
Resize(p, n) ==
  /\ n \in Nat \ {0}
  /\ capacity' = [capacity EXCEPT ![p] = n]
  /\ \E admitted \in SUBSET Queue(p) :
       /\ turn' = [c \in Clients |-> IF c \in admitted THEN Owning(p) ELSE turn[c]]
       /\ admitted # {} => Cardinality(Owners(p) \cup admitted) <= n
       /\ admitted = Queue(p) \/ Cardinality(Owners(p) \cup admitted) >= n

Next == \/ \E c \in Clients, p \in Providers :
             Take(c, p) \/ Wait(c, p) \/ GiveUp(c, p)
        \/ \E c, d \in Clients, p \in Providers : HandOver(c, d, p)
        \/ \E c \in Clients : Withdraw(c)
        \/ \E p \in Providers : Resize(p, capacity'[p])

Spec == Init /\ [][Next]_vars
=============================================================================
