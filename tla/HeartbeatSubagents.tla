------------------------- MODULE HeartbeatSubagents -------------------------
(* Heartbeat subagents: HeartbeatSubagentService, its queue, the reports it *)
(* keeps, the background slot of ModelRouter and the HttpClient below it.   *)
(*                                                                          *)
(* A config fires on its schedule or by hand, waits in one FIFO, runs on    *)
(* the background slot (Tier 1) and leaves a report; a report that passes   *)
(* the gates is reviewed on the same slot (Tier 2) and posted to its        *)
(* conversation, or kept back while that conversation streams.              *)
EXTENDS HeartbeatSchedule, Sequences, FiniteSets, FiniteSetsExt, SequencesExt

CONSTANTS Configs,        \* heartbeat_configs rows, in the order of their ids
          Convs,          \* conversations
          ScheduleOf,     \* schedule of a config
          TargetOf,       \* conversation a config's reports go to, or NoConv
          AutoSurface,    \* conversations that allow automatic posts
          NoConv, NoRun, NoConfig,
          SoftCap,        \* soft cap of the queue
          MaxRunsPerDay,  \* per config; 0 is no limit
          SurfaceCap,     \* automatic posts per conversation and day
          MaxRuns,        \* bound: run ids handed out
          MaxRetryTimers, \* bound: retry timers of the HTTP client at once
          MaxPosts,       \* bound: deferred posts of a conversation
          MaxSteps        \* bound: steps of the user and of other turns

ASSUME HeartbeatAssumption ==
    /\ Configs \subseteq Nat
    /\ ScheduleOf \in [Configs -> Schedules]
    /\ TargetOf \in [Configs -> Convs \cup {NoConv}]
    /\ AutoSurface \subseteq Convs
    /\ NoConv \notin Convs /\ NoConfig \notin Configs
    /\ NoRun = 0
    /\ SoftCap \in Nat \ {0} /\ MaxRunsPerDay \in Nat /\ SurfaceCap \in Nat
    /\ MaxRuns \in Nat \ {0} /\ MaxRetryTimers \in Nat /\ MaxPosts \in Nat \ {0}
    /\ MaxSteps \in Nat

VARIABLES hb,         \* the service: queue, run in flight, deferred posts
          db,         \* configs and reports, which survive a restart
          net,        \* background slot and HTTP client
          streaming,  \* conversations with a turn in flight
          now,        \* position in the week
          left        \* bound: steps of the user and of other turns left

vars == <<hb, db, net, streaming, now, left>>

-----------------------------------------------------------------------------
Runs == 1 .. MaxRuns
Outcomes == {"pending", "success", "error", "timeout", "cancelled",
             "rate_limited", "queue_overflow"}
\* The three ways of skipping a report are one here.
Surfaces == {"pending", "skipped", "posted_auto", "posted_manual", "dismissed_by_user"}
Posted == {"posted_auto", "posted_manual"}
NoRow == [config |-> NoConfig, outcome |-> "pending", surface |-> "pending", age |-> 0,
          sent |-> FALSE]
NoReq == <<"None", NoRun>>

\* What the service starts with, after a launch.
NewService(next) ==
    [paused |-> FALSE, fifo |-> <<>>, marked |-> {},
     phase |-> "None", run |-> NoRun, config |-> NoConfig, req |-> NoReq,
     review |-> NoRun, target |-> NoConv,
     timer |-> FALSE, connected |-> FALSE, acc |-> 0,
     posts |-> [v \in Convs |-> <<>>], draining |-> NoConv, sweep |-> {}, round |-> 0,
     next |-> next, accepted |-> {}]
NewNet == [relay |-> NoReq, reply |-> NoReq, last |-> NoReq, timers |-> 0, streamed |-> FALSE]

Init ==
    /\ hb = NewService(1)
    /\ db = [exists |-> Configs, enabled |-> Configs,
             lastFire |-> [c \in Configs |-> Never],
             rows |-> [r \in Runs |-> NoRow], posts |-> [r \in Runs |-> 0], provider |-> TRUE]
    /\ net = NewNet
    /\ streaming = {}
    /\ now = 0
    /\ left = MaxSteps

\* Every operation below works on the whole state at once.
Sys == [hb |-> hb, db |-> db, net |-> net]
Become(s) == \E t \in {s} : hb' = t.hb /\ db' = t.db /\ net' = t.net

-----------------------------------------------------------------------------
(* Reports and configs in the database.                                    *)

\* A report of a deleted config is refused by its foreign key.
persistReportRow(s, r, c, outcome, sent) ==
    IF c \in s.db.exists
    THEN [s EXCEPT !.db.rows[r] = [config |-> c, outcome |-> outcome, surface |-> "pending",
                                   age |-> 0, sent |-> sent]]
    ELSE s

\* An UPDATE of a row that a deleted config took along touches nothing.
setOutcome(s, r, outcome) ==
    IF s.db.rows[r] = NoRow THEN s ELSE [s EXCEPT !.db.rows[r].outcome = outcome]
updateReportSurface(s, r, surface) ==
    IF s.db.rows[r] = NoRow THEN s ELSE [s EXCEPT !.db.rows[r].surface = surface]
updateLastFire(s, c) ==
    IF c \in s.db.exists THEN [s EXCEPT !.db.lastFire[c] = 0] ELSE s

Recent(s, r) == s.db.rows[r] # NoRow /\ s.db.rows[r].age < DayLen
runsInLast24h(s, c) ==
    Cardinality({r \in Runs : /\ Recent(s, r)
                              /\ s.db.rows[r].config = c
                              /\ s.db.rows[r].outcome \in {"success", "error", "timeout", "cancelled"}})
\* Mutant: one run more than the limit.
isRateLimitedLate(s, c) == MaxRunsPerDay > 0 /\ runsInLast24h(s, c) > MaxRunsPerDay
isRateLimited(s, c) == MaxRunsPerDay > 0 /\ runsInLast24h(s, c) >= MaxRunsPerDay

isAutoSurfaceRateLimited(s, v) ==
    Cardinality({r \in Runs : /\ Recent(s, r)
                              /\ s.db.rows[r].surface = "posted_auto"
                              /\ TargetOf[s.db.rows[r].config] = v}) >= SurfaceCap

-----------------------------------------------------------------------------
(* The queue: at most one waiting entry per config, SoftCap in all.        *)
Waiting(fifo, c) == \E i \in DOMAIN fifo : fifo[i].config = c
enqueueResult(fifo, c) == IF Waiting(fifo, c) THEN "throttled"
                          ELSE IF Len(fifo) >= SoftCap THEN "overflow" ELSE "accepted"

-----------------------------------------------------------------------------
(* The background slot and the HTTP client.  A request is named by its tier *)
(* and its run.  `reply' is the request whose reply the client listens to.  *)

\* postStream: drops the reply in progress and remembers what it sends, for the retry
\* timers to send again (`last' is kept only while one is set).
postStream(n, req) == [n EXCEPT !.reply = req, !.last = IF n.timers > 0 THEN req ELSE NoReq,
                                !.streamed = FALSE]
routeBackground(s, req) == [s EXCEPT !.net = postStream([@ EXCEPT !.relay = req], req)]
\* cancel: the reply is dropped; the relay and a retry timer stay.
cancelBackground(s) == [s EXCEPT !.net.reply = NoReq, !.net.streamed = FALSE]
teardownBackgroundRelay(s) == [s EXCEPT !.net.relay = NoReq]

-----------------------------------------------------------------------------
(* Dispatch.                                                               *)

Dispatchable(s, c) == c \in s.db.exists /\ ~isRateLimited(s, c) /\ s.db.provider

\* Mutant: an entry that cannot run is forgotten.
refuseSilently(s, e) == s

\* An entry that cannot run leaves a row and lets the next one pass.  Without a
\* usable provider the request is not built, or fails as soon as it is sent.
refuse(s, e) ==
    CASE e.config \notin s.db.exists -> s
      [] e.config \in s.db.exists /\ isRateLimited(s, e.config) ->
            updateLastFire(persistReportRow(s, e.run, e.config, "rate_limited", FALSE), e.config)
      [] OTHER ->
            updateLastFire(persistReportRow(s, e.run, e.config, "error", FALSE), e.config)

\* Mutant: the run timer is not armed.
startUntimed(s, e) ==
    routeBackground(
        [persistReportRow(s, e.run, e.config, "pending", TRUE) EXCEPT
            !.hb.phase = "Tier1", !.hb.run = e.run, !.hb.config = e.config,
            !.hb.req = <<"Tier1", e.run>>, !.hb.acc = 0, !.hb.connected = TRUE,
            !.hb.marked = @ \cup {e.config}],
        <<"Tier1", e.run>>)

start(s, e) ==
    routeBackground(
        [persistReportRow(s, e.run, e.config, "pending", TRUE) EXCEPT
            !.hb.phase = "Tier1", !.hb.run = e.run, !.hb.config = e.config,
            !.hb.req = <<"Tier1", e.run>>, !.hb.acc = 0, !.hb.timer = TRUE,
            !.hb.connected = TRUE, !.hb.marked = @ \cup {e.config}],
        <<"Tier1", e.run>>)

\* Mutant: the queue is drained while heartbeats are paused.
drainQueueUnpaused(s) ==
    IF s.hb.run # NoRun THEN s
    ELSE LET fifo  == s.hb.fifo
             able  == {i \in DOMAIN fifo : Dispatchable(s, fifo[i].config)}
             stop  == IF able = {} THEN Len(fifo) + 1 ELSE Min(able)
             done  == FoldLeft(refuse, s, SubSeq(fifo, 1, stop - 1))
             rest  == [done EXCEPT !.hb.fifo = SubSeq(fifo, stop + 1, Len(fifo))]
         IN  IF able = {} THEN rest ELSE start(rest, fifo[stop])

\* drainQueue and dispatchEntry call each other until an entry runs or the queue
\* is empty.
drainQueue(s) ==
    IF s.hb.paused \/ s.hb.run # NoRun THEN s
    ELSE LET fifo  == s.hb.fifo
             able  == {i \in DOMAIN fifo : Dispatchable(s, fifo[i].config)}
             stop  == IF able = {} THEN Len(fifo) + 1 ELSE Min(able)
             done  == FoldLeft(refuse, s, SubSeq(fifo, 1, stop - 1))
             rest  == [done EXCEPT !.hb.fifo = SubSeq(fifo, stop + 1, Len(fifo))]
         IN  IF able = {} THEN rest ELSE start(rest, fifo[stop])

\* The gates of reviewReport, in their order; Tier 2 takes the slot when all pass.
reviewReport(s, r, c) ==
    LET v == TargetOf[c] IN
    CASE s.hb.paused \/ c \notin s.db.exists -> s
      [] OTHER ->
            IF v \in AutoSurface /\ ~isAutoSurfaceRateLimited(s, v) /\ s.db.provider
            THEN routeBackground([s EXCEPT !.hb.phase = "Tier2", !.hb.req = <<"Tier2", r>>,
                                           !.hb.acc = 0, !.hb.review = r, !.hb.target = v,
                                           !.hb.timer = TRUE,
                                           !.hb.connected = TRUE],
                                 <<"Tier2", r>>)
            ELSE updateReportSurface(s, r, "skipped")

\* finishCurrentRun does not touch the report; its callers do, or do not.
finishCurrentRun(s, outcome) ==
    LET r == s.hb.run
        c == s.hb.config
        t == [updateLastFire(s, c) EXCEPT
                !.hb.timer = FALSE, !.hb.connected = FALSE, !.hb.marked = @ \ {c},
                !.hb.phase = "None", !.hb.run = NoRun, !.hb.config = NoConfig,
                !.hb.req = NoReq, !.hb.acc = 0]
        u == IF outcome = "success" THEN reviewReport(t, r, c) ELSE t
    IN  IF s.hb.run = NoRun THEN s
        ELSE IF u.hb.phase = "Tier2" THEN u ELSE drainQueue(u)

\* A post waits while its conversation streams.
doInsertAndCascade(s, r, v, mode, stored) ==
    IF v \in streaming
    THEN [s EXCEPT !.hb.posts[v] = Append(@, [report |-> r, mode |-> mode])]
    ELSE IF s.db.rows[r] = NoRow THEN s
    ELSE IF ~stored THEN updateReportSurface(s, r, "skipped")
    ELSE [updateReportSurface(s, r, IF mode = "manual" THEN "posted_manual" ELSE "posted_auto")
            EXCEPT !.db.posts[r] = @ + 1]

endReview(s) == [s EXCEPT !.hb.timer = FALSE, !.hb.connected = FALSE, !.hb.phase = "None",
                          !.hb.req = NoReq, !.hb.acc = 0, !.hb.review = NoRun,
                          !.hb.target = NoConv]
onReviewError(s) ==
    drainQueue(updateReportSurface(endReview(s), s.hb.review, "skipped"))
onReviewFinished(s, skip, stored) ==
    IF skip THEN onReviewError(s)
    ELSE drainQueue(doInsertAndCascade(endReview(s), s.hb.review, s.hb.target, "auto", stored))
-----------------------------------------------------------------------------
(* Events.  The main thread handles one at a time; while it drains the      *)
(* deferred posts of a conversation it handles nothing else.                *)
Free == hb.draining = NoConv /\ hb.sweep = {}
Step == left > 0 /\ left' = left - 1

\* One config that is due: queued, or recorded as dropped.
fire(s, c) ==
    LET r == s.hb.next
        t == [s EXCEPT !.hb.next = r + 1]
    IN  IF enqueueResult(s.hb.fifo, c) = "accepted"
        THEN [t EXCEPT !.hb.fifo = Append(@, [run |-> r, config |-> c]),
                       !.hb.accepted = @ \cup {[run |-> r, config |-> c]}]
        ELSE updateLastFire(persistReportRow(t, r, c, "queue_overflow", FALSE), c)

\* enabledConfigs: never fired first, then the longest ago, then by id.
Staleness(c) == IF db.lastFire[c] = Never THEN MaxAge + 1 ELSE db.lastFire[c]
Before(c, d) == Staleness(c) > Staleness(d) \/ (Staleness(c) = Staleness(d) /\ c < d)

Aged(s) ==
    [s EXCEPT !.db.lastFire = [c \in Configs |-> Older(@[c])],
              !.db.rows = [r \in Runs |-> IF @[r] = NoRow \/ @[r].age >= DayLen THEN @[r]
                                          ELSE [@[r] EXCEPT !.age = @ + 1]]]

\* The schedule timer, once per tick of the clock.
onScheduleTick ==
    LET later == (now + 1) % WeekLen
        old   == Aged(Sys)
        due   == IF hb.paused THEN {}
                 ELSE {c \in db.enabled : Due(ScheduleOf[c], later, old.db.lastFire[c])}
    IN  /\ Free
        /\ hb.next + Cardinality(due) <= MaxRuns + 1
        /\ now' = later
        /\ Become(IF hb.paused THEN old
                  ELSE drainQueue(FoldLeft(fire, old, SetToSortSeq(due, Before))))
        /\ UNCHANGED <<streaming, left>>

\* A drop by hand leaves no row: only the anchor moves.
runNow(c) ==
    /\ Free /\ ~hb.paused /\ c \in db.exists
    /\ \/ /\ enqueueResult(hb.fifo, c) = "accepted" /\ hb.next <= MaxRuns
          /\ Become(drainQueue(fire(Sys, c)))
       \/ /\ enqueueResult(hb.fifo, c) # "accepted"
          /\ Become(updateLastFire(Sys, c))
    /\ UNCHANGED <<streaming, now, left>>

\* Cancelling the run in flight frees the slot; a queued one gets its row.
cancelled(s, r) ==
    IF s.hb.run = r THEN finishCurrentRun(cancelBackground(s), "cancelled")
    ELSE LET e == CHOOSE x \in ToSet(s.hb.fifo) : x.run = r
         IN  updateLastFire(persistReportRow([s EXCEPT !.hb.fifo = SelectSeq(@, LAMBDA x : x # e)],
                                             r, e.config, "cancelled", FALSE), e.config)
cancelRun(r) ==
    /\ Free /\ Step
    /\ hb.run = r \/ \E i \in DOMAIN hb.fifo : hb.fifo[i].run = r
    /\ Become(cancelled(Sys, r))
    /\ UNCHANGED <<streaming, now>>

setGloballyPaused ==
    /\ Free /\ Step
    /\ LET s == [Sys EXCEPT !.hb.paused = ~hb.paused]
       IN  Become(IF s.hb.paused /\ hb.run # NoRun THEN cancelled(s, hb.run) ELSE s)
    /\ UNCHANGED <<streaming, now>>

onRunTimeout ==
    /\ Free /\ hb.timer
    /\ LET s == [Sys EXCEPT !.hb.timer = FALSE]
       IN  Become(IF hb.run = NoRun THEN s
                  ELSE finishCurrentRun(setOutcome(cancelBackground(s), hb.run, "timeout"), "timeout"))
    /\ UNCHANGED <<streaming, now, left>>

-----------------------------------------------------------------------------
(* What the provider does with a request.                                  *)

\* The service hears a signal of the slot only for its own request.
Heard == hb.connected /\ net.relay = hb.req /\ hb.phase # "None"

Chunk ==
    /\ Free /\ net.reply # NoReq /\ ~net.streamed
    /\ net' = [net EXCEPT !.streamed = TRUE]
    /\ hb' = IF net.relay # NoReq /\ Heard THEN [hb EXCEPT !.acc = IF @ < 2 THEN @ + 1 ELSE @]
             ELSE hb
    /\ UNCHANGED <<db, streaming, now, left>>

Hangup(s) == teardownBackgroundRelay(cancelBackground(s))

onBgFinished(s, skip, stored) ==
    IF ~(net.relay # NoReq /\ Heard) THEN s
    ELSE IF hb.phase = "Tier2" THEN onReviewFinished(s, skip \/ hb.acc = 0, stored)
    ELSE finishCurrentRun(setOutcome(s, hb.run, "success"), "success")

\* The end of a stream.  When it is the end of the connection that ends it, the
\* client forgets its reply after the handlers, whichever reply that is by then.
Finished ==
    /\ Free /\ net.reply # NoReq
    /\ \E eof, skip, stored \in BOOLEAN :
         LET s == onBgFinished(Hangup(Sys), skip, stored)
         IN  Become(IF eof THEN [s EXCEPT !.net.reply = NoReq, !.net.streamed = FALSE] ELSE s)
    /\ UNCHANGED <<streaming, now, left>>

onBgError(s) ==
    IF ~(net.relay # NoReq /\ Heard) THEN s
    ELSE IF hb.phase = "Tier2" THEN onReviewError(s)
    ELSE finishCurrentRun(setOutcome(s, hb.run, "error"), "error")
Failed ==
    /\ Free /\ net.reply # NoReq
    /\ Become(onBgError(Hangup(Sys)))
    /\ UNCHANGED <<streaming, now, left>>

\* 429: the reply is dropped and a timer will send the last request again.
scheduleRetry ==
    /\ Free /\ net.reply # NoReq /\ ~net.streamed /\ net.timers < MaxRetryTimers
    /\ net' = [net EXCEPT !.reply = NoReq, !.timers = @ + 1, !.last = net.reply]
    /\ UNCHANGED <<hb, db, streaming, now, left>>
Retry ==
    /\ Free /\ net.timers > 0
    /\ net' = postStream([net EXCEPT !.timers = @ - 1], net.last)
    /\ UNCHANGED <<hb, db, streaming, now, left>>

-----------------------------------------------------------------------------
(* Conversations: a turn streams, its message is finalised, the turn ends.  *)

TurnStarts(v) == /\ Free /\ Step /\ v \notin streaming
                 /\ streaming' = streaming \cup {v} /\ UNCHANGED <<hb, db, net, now>>
TurnEnds(v)   == /\ Free /\ v \in streaming
                 /\ streaming' = streaming \ {v} /\ UNCHANGED <<hb, db, net, now, left>>

\* The message is finalised while its turn still counts as in flight.  Its
\* conversation is drained, then every other one that does not stream.
onStreamFinalized(v, known) ==
    LET idle == {w \in Convs \ streaming : hb.posts[w] # <<>>}
        head == known /\ hb.posts[v] # <<>>
    IN  /\ Free /\ v \in streaming
        /\ head \/ idle # {}
        /\ hb' = [hb EXCEPT !.draining = IF head THEN v ELSE NoConv, !.sweep = idle]
        /\ UNCHANGED <<db, net, streaming, now, left>>

\* One round of the loop of drainPendingPostsFor; `round' only tells rounds apart.
drainPendingPostsFor ==
    /\ hb.draining # NoConv
    /\ LET v == hb.draining
           p == Head(hb.posts[v])
       IN  IF hb.posts[v] = <<>>
           THEN Become([Sys EXCEPT !.hb.draining = NoConv, !.hb.round = 0])
           ELSE \E stored \in BOOLEAN :
                  Become(doInsertAndCascade([Sys EXCEPT !.hb.posts[v] = Tail(@), !.hb.round = 1 - @],
                                            p.report, v, p.mode, stored))
    /\ UNCHANGED <<streaming, now, left>>
SweepNext ==
    /\ hb.draining = NoConv
    /\ \E v \in hb.sweep : hb' = [hb EXCEPT !.draining = v, !.sweep = @ \ {v}]
    /\ UNCHANGED <<db, net, streaming, now, left>>

-----------------------------------------------------------------------------
(* The user, the settings and the process.                                 *)

manualPost(r) ==
    LET row == db.rows[r] IN
    /\ Free /\ Step /\ row # NoRow /\ row.surface \notin Posted
    /\ TargetOf[row.config] # NoConv
    /\ Len(hb.posts[TargetOf[row.config]]) < MaxPosts
    /\ \E stored \in BOOLEAN :
         Become(doInsertAndCascade(Sys, r, TargetOf[row.config], "manual", stored))
    /\ UNCHANGED <<streaming, now>>

manualDismiss(r) ==
    /\ Free /\ Step /\ db.rows[r] # NoRow
    /\ db.rows[r].surface \notin Posted \cup {"dismissed_by_user"}
    /\ Become(updateReportSurface(Sys, r, "dismissed_by_user"))
    /\ UNCHANGED <<streaming, now>>

\* The reports of a config go with it; its queue entry stays.
deleteConfig(c) ==
    /\ Free /\ Step /\ c \in db.exists
    /\ db' = [db EXCEPT !.exists = @ \ {c}, !.enabled = @ \ {c}, !.lastFire[c] = Never,
                        !.rows = [r \in Runs |-> IF @[r].config = c THEN NoRow ELSE @[r]]]
    /\ UNCHANGED <<hb, net, streaming, now>>

updateConfig(c) ==
    /\ Free /\ Step /\ c \in db.exists
    /\ db' = [db EXCEPT !.enabled = IF c \in @ THEN @ \ {c} ELSE @ \cup {c}]
    /\ UNCHANGED <<hb, net, streaming, now>>

SetProvider ==
    /\ Free /\ Step /\ db' = [db EXCEPT !.provider = ~@]
    /\ UNCHANGED <<hb, net, streaming, now>>

\* An exit, orderly or not, and the next launch: the queue, the deferred posts and
\* the run in flight are gone.  An orderly exit finishes the run first.
Restart(orderly) ==
    /\ (orderly => Free) /\ Step
    /\ LET s == IF orderly /\ hb.run # NoRun
                THEN finishCurrentRun(cancelBackground(Sys), "cancelled") ELSE Sys
       IN  db' = s.db /\ hb' = NewService(s.hb.next) /\ net' = NewNet
    /\ streaming' = {} /\ now' = now

User ==
    \/ setGloballyPaused \/ SetProvider
    \/ \E c \in Configs : runNow(c) \/ deleteConfig(c) \/ updateConfig(c)
    \/ \E r \in Runs : cancelRun(r) \/ manualPost(r) \/ manualDismiss(r)
    \/ \E orderly \in BOOLEAN : Restart(orderly)

Provider == Chunk \/ Finished \/ Failed \/ scheduleRetry \/ Retry
Chat == \E v \in Convs : \/ TurnStarts(v) \/ TurnEnds(v)
                         \/ \E known \in BOOLEAN : onStreamFinalized(v, known)

Next == User \/ Provider \/ Chat \/ onScheduleTick \/ onRunTimeout
        \/ drainPendingPostsFor \/ SweepNext

Spec == Init /\ [][Next]_vars

\* A loop of the main thread goes on, and a timer that stays set fires.  (The run timer's
\* weak fairness is written with its guard: ENABLED of so large an action is slow.)
LoopsGoOn == WF_vars(drainPendingPostsFor) /\ WF_vars(SweepNext)
RunTimerFires == []<>~(Free /\ hb.timer) \/ []<><<onRunTimeout>>_vars
FairSpec == Spec /\ LoopsGoOn /\ RunTimerFires

\* The same system while nobody touches it: only time and the provider move it.
Untouched == onScheduleTick \/ onRunTimeout \/ Provider
ScheduleSpec == Init /\ [][Untouched]_vars /\ WF_vars(onScheduleTick)

-----------------------------------------------------------------------------
(* Properties.                                                             *)
Entries == [run : Runs, config : Configs]
Requests == {"None", "Tier1", "Tier2"} \X (0 .. MaxRuns)

\* The fields stay in their types; the configs marked as in flight in the queue are
\* the one the service runs.
TypeOK ==
    /\ hb.paused \in BOOLEAN /\ ToSet(hb.fifo) \subseteq Entries
    /\ hb.phase \in {"None", "Tier1", "Tier2"} /\ hb.run \in 0 .. MaxRuns
    /\ hb.req \in Requests /\ hb.review \in 0 .. MaxRuns /\ hb.acc \in 0 .. 2
    /\ hb.marked = IF hb.run = NoRun THEN {} ELSE {hb.config}
    /\ \A v \in Convs : ToSet(hb.posts[v]) \subseteq [report : Runs, mode : {"auto", "manual"}]
    /\ db.exists \subseteq Configs /\ db.enabled \subseteq db.exists
    /\ \A r \in Runs : db.rows[r].outcome \in Outcomes /\ db.rows[r].surface \in Surfaces
    /\ net.relay \in Requests /\ net.reply \in Requests /\ net.timers \in 0 .. MaxRetryTimers
    /\ net.reply # NoReq => net.relay \in {NoReq, net.reply}
    /\ streaming \subseteq Convs /\ now \in 0 .. WeekLen - 1
    /\ left \in 0 .. MaxSteps

\* A run that was accepted is accounted for: it waits in the queue and has no row yet,
\* or it has left the queue and has a row, unless its config was deleted.
NoLostRun ==
    \A e \in hb.accepted :
        LET waits == e \in ToSet(hb.fifo)
            row   == db.rows[e.run] # NoRow
        IN  e.config \in db.exists => waits # row

\* The kill switch holds: while heartbeats are paused no run is in flight, whatever was
\* queued, reviewed or due when the switch was thrown.
PausedMeansQuiet == hb.paused => hb.run = NoRun

\* No config has more runs behind it in a day than it may: the runs that went out and
\* ended by themselves, counted from their start.
DailyCap ==
    MaxRunsPerDay > 0 =>
        \A c \in Configs :
            Cardinality({r \in Runs : /\ Recent(Sys, r) /\ db.rows[r].config = c
                                      /\ db.rows[r].sent
                                      /\ db.rows[r].outcome \in {"success", "error", "timeout"}})
                <= MaxRunsPerDay

\* A run in flight comes to an end, whatever the provider does: the run timer sees to
\* it, unless the thread is caught in the loop over the deferred posts.
RunEnds == \A r \in Runs : hb.run = r ~> (hb.run # r \/ hb.draining # NoConv)

\* The loop over the deferred posts of a conversation comes to an end.  The comment in
\* the loop says an entry that meets a new stream "gets re-queued cleanly".
DrainEnds == hb.draining # NoConv ~> hb.draining = NoConv

\* A schedule fires: a config that stays enabled, while heartbeats are not paused, has a
\* run sooner or later.  The schedule's documentation says when each form fires.
Fires(c) == \E e \in hb.accepted : e.config = c
ScheduledFires ==
    \A c \in Configs : [](c \in db.enabled /\ ~hb.paused) /\ ScheduleOf[c].kind # "Empty" => <>Fires(c)

\* A run that leaves flight leaves a final outcome in its row (unless the process ends
\* or the row is gone).
CancelIsRecorded ==
    [][\A r \in Runs : hb.run = r /\ hb'.run # r /\ hb'.accepted # {} /\ db'.rows[r] # NoRow
                          => db'.rows[r].outcome # "pending"]_vars

\* A report is posted once.
PostedOnce == \A r \in Runs : db.posts[r] <= 1

\* A review that has started is decided, or the service says that the report was skipped.
ReviewDecided ==
    \A r \in Runs : (hb.review = r /\ hb.phase = "Tier2")
                      ~> (db.rows[r].surface # "pending" \/ hb.accepted = {} \/ hb.draining # NoConv
                          \/ \E v \in Convs : hb.posts[v] # <<>>)
=============================================================================
