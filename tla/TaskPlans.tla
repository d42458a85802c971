------------------------------ MODULE TaskPlans ------------------------------
(***************************************************************************)
(* Task plans: the rows PlanService keeps, TaskRunner's rules on them, the *)
(* task tools of TaskController, and the one TaskGateService whose active  *)
(* plan every conversation run of the application shares.                  *)
(*                                                                         *)
(* Everything runs on the main thread, one handler at a time.  A turn of a *)
(* conversation is an alternation of requests and tool batches; what users *)
(* do (switch, stop, press a button of the plans overlay) comes between    *)
(* any two of its handlers.  Plan ids are row numbers.                     *)
(***************************************************************************)
EXTENDS Naturals, Sequences, FiniteSets

CONSTANTS
  Conversations,  \* conversations with at most one run each
  None,           \* no conversation
  Outlines,       \* how many steps start_task may be given
  MaxPlans,       \* bound: plans ever created
  MaxGenerating,  \* bound: turns under way at a time
  MaxSteps        \* bound: what the user does to plans and conversations

ASSUME TaskPlansAssumption ==
  /\ None \notin Conversations
  /\ Outlines \subseteq Nat \ {0}
  /\ MaxPlans \in Nat \ {0} /\ MaxGenerating \in Nat \ {0} /\ MaxSteps \in Nat

VARIABLES
  rows,    \* agent_plans with their plan_steps
  later,   \* updated_at: the pairs of plans whose first was updated after the second
  anchor,  \* TaskGateService::m_activePlanId, 0 for none
  front,   \* the desktop's active conversation
  loaded,  \* conversations whose run has loaded them (m_activeConvId)
  keyed,   \* conversations whose run exists in the map without having loaded
  turn,    \* per conversation: the turn of its run
  left     \* how much of MaxSteps is left

vars == <<rows, later, anchor, front, loaded, keyed, turn, left>>

Open == {"executing", "blocked"}
Closed == {"completed", "failed"}

NoTurn == [phase |-> "idle",      \* "request" and "tools" while generating
           snap |-> 0,            \* m_batchInputs.activeTaskPlanId
           iterations |-> FALSE,  \* the dispatcher ran a tool in this turn
           cancelled |-> FALSE]   \* m_userCancelledInFlight

Init == /\ rows = <<>> /\ later = {} /\ anchor = 0
        /\ front = None /\ loaded = {} /\ keyed = {}
        /\ turn = [c \in Conversations |-> NoTurn] /\ left = MaxSteps

Sys == [rows |-> rows, later |-> later, anchor |-> anchor, turn |-> turn]

Become(S) == \E T \in {S} : /\ rows' = T.rows /\ later' = T.later
                            /\ anchor' = T.anchor /\ turn' = T.turn

Exists(S, p) == p \in DOMAIN S.rows /\ S.rows[p].status # "gone"

---------------------------------------------------------------------------
\* PlanService and the gate's listener

\* The plans of E become the newest ones, in their order among each other.
Touched(S, E) ==
  {x \in S.later : x[1] \in E \/ x[2] \notin E}
    \cup {x \in E \X DOMAIN S.rows : x[2] \notin E /\ Exists(S, x[2])}

updatePlanStatusUnheard(S, p, status) ==
  [S EXCEPT !.rows[p].status = status, !.later = Touched(S, {p})]

\* A plan status is written, the row moves to the front of the updated_at
\* order, and planStatusChanged lets the gate drop its anchor before the call
\* returns.
updatePlanStatus(S, p, status) ==
  [S EXCEPT !.rows[p].status = status,
            !.later = Touched(S, {p}),
            !.anchor = IF @ = p /\ status \in Closed THEN 0 ELSE @]

updateStepStatus(S, p, i, status) == [S EXCEPT !.rows[p].steps[i].status = status]

Step(owner) == [owner |-> owner, status |-> "pending"]

\* startTaskFromToolCall and createPlan: at most kMaxStepsPerPlan steps.
createPlan(S, c, owners) ==
  LET p == Len(S.rows) + 1
      steps == [i \in 1..Len(owners) |-> Step(owners[i])]
  IN  [S EXCEPT !.rows = Append(@, [conv |-> c, status |-> "executing",
                                    steps |-> steps, old |-> FALSE]),
                !.later = @ \cup {x \in {p} \X DOMAIN S.rows : Exists(S, x[2])}]

\* What is left of a deleted plan: its id.
Gone == [conv |-> None, status |-> "gone", steps |-> <<>>, old |-> FALSE]

Room(S) == Len(S.rows) < MaxPlans

\* activePlansForConversation, and the newest plan of it that still executes.
activePlansForConversation(S, c) ==
  {p \in DOMAIN S.rows : S.rows[p].conv = c /\ S.rows[p].status \in Open}

NewestExecuting(S, c) ==
  LET mine == {p \in DOMAIN S.rows : S.rows[p].conv = c /\ S.rows[p].status = "executing"}
      newest == {p \in mine : \A q \in mine \ {p} : <<p, q>> \in S.later}
  IN  IF newest = {} THEN 0 ELSE CHOOSE p \in newest : TRUE

---------------------------------------------------------------------------
\* TaskRunner

handleStopTask(S, p) == IF Exists(S, p) THEN updatePlanStatus(S, p, "failed") ELSE S

\* Steps assigned to the user up to the first one an agent can be asked for.
WaitForUser(steps) ==
  [i \in DOMAIN steps |->
     IF /\ steps[i].status = "pending" /\ steps[i].owner = "user"
        /\ \A j \in 1..(i - 1) : ~(steps[j].status = "pending" /\ steps[j].owner = "agent")
     THEN [steps[i] EXCEPT !.status = "blocked"] ELSE steps[i]]

\* The request goes to a queue of the run that is only ever dropped.
Dispatches(steps) == \E i \in DOMAIN steps : /\ steps[i].status = "pending"
                                             /\ steps[i].owner = "agent"

advancePlan(S, p) ==
  LET T == [S EXCEPT !.rows[p].steps = WaitForUser(@)]
      statuses == {T.rows[p].steps[i].status : i \in DOMAIN T.rows[p].steps}
  IN  CASE S.rows[p].old -> updatePlanStatus(S, p, "failed")
        [] ~S.rows[p].old /\ Dispatches(S.rows[p].steps) -> T
        [] OTHER -> IF statuses = {"done"} THEN updatePlanStatus(T, p, "completed")
                    ELSE updatePlanStatus(T, p, "blocked")

userRetryStep(S, p, i) ==
  LET T == updateStepStatus(S, p, i, "pending")
  IN  IF S.rows[p].status \in {"blocked", "failed"}
      THEN updatePlanStatus(T, p, "executing") ELSE T

userOverrideStepAsDone(S, p, i) == advancePlan(updateStepStatus(S, p, i, "done"), p)

userSkipStepAsBlocked(S, p, i) ==
  LET T == updateStepStatus(S, p, i, "done")
  IN  IF S.rows[p].status = "blocked" THEN updatePlanStatus(T, p, "executing") ELSE T

userSkipStep(S, p, i) ==
  LET T == updateStepStatus(S, p, i, "done")
  IN  advancePlan(IF S.rows[p].status = "blocked"
                  THEN updatePlanStatus(T, p, "executing") ELSE T, p)

---------------------------------------------------------------------------
\* The gate at the end of a turn

MarkFirst(S, p, status) == updateStepStatus(S, p, 1, status)

applyDeclaredStatus(S, declared) ==
  LET p == S.anchor
  IN  IF ~Exists(S, p) THEN S
      ELSE CASE declared = "completed" ->
                  updatePlanStatus(MarkFirst(S, p, "done"), p, "completed")
             [] declared = "blocked" ->
                  [updatePlanStatus(MarkFirst(S, p, "blocked"), p, "blocked")
                     EXCEPT !.anchor = 0]
             [] OTHER -> S

\* The caller asks for it only where the conversation's settings say so.
applyImplicitCompletion(S, declared, stop, iterations) ==
  LET p == S.anchor
  IN  IF declared = "" /\ stop /\ iterations /\ Exists(S, p) /\ S.rows[p].status \notin Closed
      THEN updatePlanStatus(MarkFirst(S, p, "done"), p, "completed") ELSE S

handleUserCancel(S) == [handleStopTask(S, S.anchor) EXCEPT !.anchor = 0]

\* RequestBuilder clears an anchor whose plan is closed or has no row.
buildRequest(S) ==
  IF Exists(S, S.anchor) /\ S.rows[S.anchor].status \notin Closed THEN S
  ELSE [S EXCEPT !.anchor = 0]

onConversationSwitched(S, c) == [S EXCEPT !.anchor = NewestExecuting(S, c)]

---------------------------------------------------------------------------
\* Turns

Generating(S, c) == S.turn[c].phase # "idle"
MayGenerate == Cardinality({c \in Conversations : Generating(Sys, c)}) < MaxGenerating

\* A message, a sub-agent's reaction or an image starts a turn; the run of a
\* conversation nobody has opened is created without loading it.
StartTurn(c) ==
  /\ ~Generating(Sys, c) /\ MayGenerate
  /\ Become(buildRequest([Sys EXCEPT !.turn[c] =
                            [@ EXCEPT !.phase = "request", !.iterations = FALSE]]))
  /\ keyed' = keyed \cup ({c} \ loaded)
  /\ UNCHANGED <<front, loaded>>

\* The end of a turn: the marker of the reply counts first, then the implicit
\* rule where the conversation has it.
onCascadeComplete(S, c, declared, stop, implicit) ==
  LET D == applyDeclaredStatus(S, declared)
      I == IF implicit
           THEN applyImplicitCompletion(D, declared, stop, S.turn[c].iterations) ELSE D
  IN  [I EXCEPT !.turn[c] = NoTurn]

\* The reply of a cancelled turn, a reply that calls tools, or the last one.
RequestFinished(c) ==
  LET S == [Sys EXCEPT !.turn[c].cancelled = FALSE]
      userCancel == turn[c].cancelled /\ anchor # 0
  IN  /\ turn[c].phase = "request"
      /\ \/ /\ userCancel
            /\ Become([handleUserCancel(S) EXCEPT !.turn[c] = NoTurn])
         \/ /\ ~userCancel
            /\ Become([S EXCEPT !.turn[c] = [@ EXCEPT !.phase = "tools", !.snap = anchor]])
         \/ /\ ~userCancel
            /\ \E stop, implicit \in BOOLEAN,
                  declared \in {"", "completed", "blocked", "working"} :
                 Become(onCascadeComplete(S, c, declared, stop, implicit))
      /\ UNCHANGED <<front, loaded, keyed>>

RequestError(c) ==
  /\ turn[c].phase = "request"
  /\ turn' = [turn EXCEPT ![c] = [NoTurn EXCEPT !.cancelled = turn[c].cancelled]]
  /\ UNCHANGED <<rows, later, anchor, front, loaded, keyed>>

\* onToolBatchCompleted builds the next request.
BatchCompleted(c) ==
  /\ turn[c].phase = "tools" /\ turn[c].iterations
  /\ Become(buildRequest([Sys EXCEPT !.turn[c] = [@ EXCEPT !.phase = "request", !.snap = 0]]))
  /\ UNCHANGED <<front, loaded, keyed>>

\* The owners of start_task's steps: whoever the model names, a step goes to a
\* member or to the default owner.  Without an outline the caller owns the only
\* step, or the user where a group without members leaves nobody; a step without
\* title or criteria refuses the outline (no owners here).
StepOwners == {<<>>, <<"agent">>, <<"user">>} \cup {[i \in 1..n |-> "agent"] : n \in Outlines}

\* start_task: an open plan in the anchor is answered with its id, any other
\* anchor is cleared; the plan is made in the conversation the desktop shows.
startTask(S, owners) ==
  IF Exists(S, S.anchor) /\ S.rows[S.anchor].status \notin Closed THEN S
  ELSE IF front = None \/ owners = <<>> THEN [S EXCEPT !.anchor = 0]
  ELSE [createPlan(S, front, owners) EXCEPT !.anchor = Len(S.rows) + 1]

\* stop_task: the anchor overrides the plan the model names.
stopTask(S, p) == handleStopTask(S, IF S.anchor # 0 THEN S.anchor ELSE p)

\* complete_task: the anchor, else the caller's newest executing plan, else the
\* plan the model names; its whole outline closes with it.
completeTask(S, c, named) ==
  LET own == NewestExecuting(S, c)
      p == CASE S.anchor # 0 -> S.anchor
             [] S.anchor = 0 /\ own # 0 -> own
             [] OTHER -> named
      T == updatePlanStatus(S, p, "completed")
  IN  IF ~Exists(S, p) THEN S
      ELSE [T EXCEPT !.rows[p].steps =
              [i \in DOMAIN @ |-> [@[i] EXCEPT !.status = "done"]]]

\* A tool that writes a file or runs a shell anchors a plan made after the
\* fact, unless the batch began with one.
autoAnchor(S, c, worded) ==
  IF S.turn[c].snap = 0 /\ worded
  THEN [createPlan(S, c, <<"agent">>) EXCEPT !.anchor = Len(S.rows) + 1,
                                           !.turn[c].snap = Len(S.rows) + 1]
  ELSE S

ToolCall(c) ==
  /\ turn[c].phase = "tools"
  /\ LET S == [Sys EXCEPT !.turn[c].iterations = TRUE]
     IN  \/ \E owners \in StepOwners : Room(S) /\ Become(startTask(S, owners))
         \/ \E p \in DOMAIN rows \cup {0} : Become(stopTask(S, p))
         \/ \E p \in DOMAIN rows \cup {0} : Become(completeTask(S, c, p))
         \/ \E worded \in BOOLEAN : Room(S) /\ Become(autoAnchor(S, c, worded))
  /\ UNCHANGED <<front, loaded, keyed>>

stopGeneration(S, c) ==
  IF Generating(S, c) THEN [S EXCEPT !.turn[c] = [NoTurn EXCEPT !.cancelled = TRUE]] ELSE S

StopTurn(c) == /\ Generating(Sys, c)
               /\ Become(stopGeneration(Sys, c))
               /\ UNCHANGED <<front, loaded, keyed>>

---------------------------------------------------------------------------
\* What users do

\* TaskController::userInitiatedStartTask and the run's slot: the anchor and
\* the first turn only where the run has loaded the conversation and is idle.
userInitiatedStartTask(c) ==
  /\ Room(Sys)
  /\ LET S == createPlan(Sys, c, <<"agent">>)
     IN  IF c \notin loaded \/ Generating(S, c) THEN Become(S)
         ELSE /\ MayGenerate
              /\ Become([S EXCEPT !.anchor = Len(S.rows),
                   !.turn[c] = [@ EXCEPT !.phase = "request", !.iterations = FALSE]])
  /\ keyed' = keyed \cup ({c} \ loaded)
  /\ UNCHANGED <<front, loaded>>

\* planStopped reaches every run, in the order of the run map; the first that
\* finds its plan anchored stops and drops the anchor.
onExternalPlanStopped(S, p, first) ==
  IF S.anchor = p THEN [stopGeneration(S, first) EXCEPT !.anchor = 0] ELSE S

stopPlan(p) ==
  /\ Exists(Sys, p)
  /\ \E first \in Conversations :
       Become(onExternalPlanStopped(handleStopTask(Sys, p), p, first))
  /\ UNCHANGED <<front, loaded, keyed>>

\* Every active plan of the conversation fails, then its run stops.
stopAllActivePlansInConversation(c) ==
  LET mine == activePlansForConversation(Sys, c)
      S == [Sys EXCEPT !.rows = [p \in DOMAIN @ |-> IF p \in mine
                                   THEN [@[p] EXCEPT !.status = "failed"] ELSE @[p]],
                       !.later = Touched(Sys, mine),
                       !.anchor = IF @ \in mine THEN 0 ELSE @]
      T == IF c \in loaded \cup keyed THEN stopGeneration(S, c) ELSE S
  IN  /\ mine # {}
      /\ Become(IF c \in loaded THEN [T EXCEPT !.anchor = 0] ELSE T)
      /\ UNCHANGED <<front, loaded, keyed>>

UserStep(p) ==
  /\ Exists(Sys, p)
  /\ \E i \in DOMAIN rows[p].steps :
       \/ Become(userRetryStep(Sys, p, i))
       \/ Become(userOverrideStepAsDone(Sys, p, i))
       \/ Become(userSkipStep(Sys, p, i))
  /\ UNCHANGED <<front, loaded, keyed>>

\* kMaxPlanWallClockMs passes for a plan.
PlanAges(p) == /\ Exists(Sys, p) /\ rows[p].status # "completed" /\ ~rows[p].old
               /\ rows' = [rows EXCEPT ![p].old = TRUE]
               /\ UNCHANGED <<later, anchor, front, loaded, keyed, turn>>

\* ChatController::switchConversation: a run that has loaded the conversation
\* comes forward as it is; otherwise it is loaded by a run of its own or by
\* the idle foreground run, which the gate is told of.
SwitchConversation(c) ==
  /\ c # front /\ front' = c
  /\ IF c \in loaded
     THEN UNCHANGED <<rows, later, anchor, loaded, keyed, turn>>
     ELSE LET S == onConversationSwitched(Sys, c)
              reuse == c \notin keyed /\ front # None /\ ~Generating(Sys, front)
          IN  IF reuse
              THEN /\ Become([S EXCEPT !.turn[c] = S.turn[front], !.turn[front] = NoTurn])
                   /\ loaded' = (loaded \ {front}) \cup {c} /\ keyed' = keyed
              ELSE /\ Become(S)
                   /\ loaded' = loaded \cup {c} /\ keyed' = keyed \ {c}

ClearSelection == /\ front # None /\ front' = None
                  /\ UNCHANGED <<rows, later, anchor, loaded, keyed, turn>>

\* The turn stops, the rows go with the conversation and its run is erased; the
\* identifier then stands for another conversation.
DeleteConversation(c) ==
  /\ Become([Sys EXCEPT !.rows = [p \in DOMAIN @ |-> IF @[p].conv = c
                                    THEN Gone ELSE @[p]],
                        !.later = {x \in @ : \A i \in 1..2 : rows[x[i]].conv # c},
                        !.turn[c] = NoTurn])
  /\ front' = IF front = c THEN None ELSE front
  /\ loaded' = loaded \ {c} /\ keyed' = keyed \ {c}

TurnStep(c) == \/ StartTurn(c) \/ RequestFinished(c) \/ RequestError(c)
               \/ BatchCompleted(c) \/ ToolCall(c)

UserDoes == \/ \E c \in Conversations :
                 \/ StopTurn(c) \/ SwitchConversation(c) \/ DeleteConversation(c)
                 \/ userInitiatedStartTask(c) \/ stopAllActivePlansInConversation(c)
            \/ ClearSelection
            \/ \E p \in DOMAIN rows : stopPlan(p) \/ UserStep(p) \/ PlanAges(p)

Next == \/ /\ \E c \in Conversations : TurnStep(c)
           /\ UNCHANGED left
        \/ left > 0 /\ left' = left - 1 /\ UserDoes

Spec == Init /\ [][Next]_vars

---------------------------------------------------------------------------
\* Properties

\* Rows, anchor and turns have the values their types give them.
TypeOK ==
  /\ \A p \in DOMAIN rows :
       \/ rows[p] = Gone
       \/ /\ rows[p].conv \in Conversations /\ rows[p].status \in Open \cup Closed
          /\ rows[p].steps \in Seq([owner : {"agent", "user"}, status : {"pending", "done", "blocked"}])
          /\ rows[p].steps # <<>>
  /\ anchor \in 0..Len(rows)
  /\ later \subseteq (DOMAIN rows) \X (DOMAIN rows)
  /\ \A p, q \in DOMAIN rows :
       (<<p, q>> \in later) <=> /\ rows[p] # Gone /\ rows[q] # Gone
                               /\ p # q /\ <<q, p>> \notin later
  /\ front \in loaded \cup {None} /\ loaded \cap keyed = {}

\* task-gate-service.cpp:56-60: whichever path closes a plan, and whichever
\* conversation it belongs to, no later step works under its anchor.  It speaks of
\* plans that are closed: the id of a plan deleted with its conversation
\* (plan-service.cpp:446-472) stays anchored until a reader misses its row.
AnchorIsLive == anchor # 0 => rows[anchor].status \notin Closed

\* task-runner.cpp:372-378: a plan whose steps are all done, skipped or
\* overridden has ended; none is left open with nothing to do.
NothingLeftMeansClosed ==
  \A p \in DOMAIN rows :
    (\A i \in DOMAIN rows[p].steps : rows[p].steps[i].status = "done")
      => rows[p].status \notin Open

\* Only the user reopens a plan: nothing a model's reply or tool call does takes
\* a completed or failed plan back to an open state.
OnlyUserReopens ==
  [][\A c \in Conversations : TurnStep(c) =>
       \A p \in DOMAIN rows :
         rows[p].status \in Closed => rows'[p].status \notin Open]_vars

\* task-gate-service.h:232-236: "The active-task tag is per-conversation": a
\* turn of one conversation leaves the plans of the others alone.
TurnTouchesOwnPlans ==
  [][\A c \in Conversations : TurnStep(c) =>
       \A p \in DOMAIN rows : rows'[p] # rows[p] => rows[p].conv = c]_vars

\* task-controller.h:222-225: stopping the active plan stops the generation
\* that works on it.
StopPlanStopsTurn ==
  [][\A p \in DOMAIN rows :
       (stopPlan(p) /\ anchor = p) => ~Generating([turn |-> turn'], rows[p].conv)]_vars
=============================================================================
