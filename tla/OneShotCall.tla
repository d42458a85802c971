---------------------------- MODULE OneShotCall ----------------------------
(***************************************************************************)
(* What a host-initiated call to a paired client promises its caller: it   *)
(* ends once, with the client's answer or with a refusal, and the client   *)
(* performs it at most once.  A refused call may still be performed: the   *)
(* client may have it already, or receive it later.                        *)
(***************************************************************************)
CONSTANT Requests

VARIABLES status,    \* what the caller knows of a request
          performed  \* how often the client has carried it out

vars == <<status, performed>>

TypeOK == /\ status \in [Requests -> {"idle", "asked", "answered", "refused"}]
          /\ performed \in [Requests -> {0, 1}]

Init == /\ status = [r \in Requests |-> "idle"]
        /\ performed = [r \in Requests |-> 0]

Ask(r) == /\ status[r] = "idle"
          /\ status' = [status EXCEPT ![r] = "asked"]
          /\ UNCHANGED performed

Perform(r) == /\ status[r] # "idle"
              /\ performed[r] = 0
              /\ performed' = [performed EXCEPT ![r] = 1]
              /\ UNCHANGED status

Answer(r) == /\ status[r] = "asked"
             /\ performed[r] = 1
             /\ status' = [status EXCEPT ![r] = "answered"]
             /\ UNCHANGED performed

\* A lost connection refuses every call that waits on it at once.
Refuse(E) == /\ \A r \in E : status[r] = "asked"
             /\ status' = [r \in Requests |-> IF r \in E THEN "refused" ELSE status[r]]
             /\ UNCHANGED performed

Next == \/ \E r \in Requests : Ask(r) \/ Perform(r) \/ Answer(r)
        \/ \E E \in SUBSET Requests : Refuse(E)

Spec == Init /\ [][Next]_vars
============================================================================
