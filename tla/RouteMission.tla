--------------------------- MODULE RouteMission ---------------------------
(***************************************************************************)
(* route_executor.py: a mission of several chunks, each sent to            *)
(* nav_command_server as one goal, the results read back from its          *)
(* telemetry, waypoint actions, blocked waiting and retries, the low       *)
(* battery response, patrols, and the services that install and cancel a   *)
(* mission.                                                                *)
(*                                                                         *)
(* A process is a worker of the node's executor, which runs one callback   *)
(* at a time, or a daemon thread (a blocked retry, the action of a         *)
(* waypoint).  job[p].todo is what is left of its handler: calls to        *)
(* nav_command_server and the sections under _lock between them.  A call   *)
(* is served by that node at some moment; its answer reaches the caller    *)
(* through a free worker, or the caller stops waiting.  Sections with only *)
(* local computation between them are one step.  Which waypoints a chunk   *)
(* holds is RoutePlan's subject: here the chunks of a route are numbered.  *)
(***************************************************************************)
EXTENDS Naturals, FiniteSets, Sequences

CONSTANTS
    Workers,        \* MultiThreadedExecutor(num_threads=2)
    Threads,        \* the daemon threads that may run at a time (a bound)
    Chunks,         \* the chunks of a route
    ActionChunks,   \* those that end at a waypoint with a brake_hold action
    ExitChunk,      \* the one that ends at the waypoint closest to HOME
    MaxAttempts,    \* blocked_retry_max_attempts
    Kinds,          \* the missions operators ask for (a bound)
    MaxEvents,      \* how much happens to the node from outside (a bound)
    MaxResults,     \* how many results nav_command_server reports (a bound)
    MaxQueue,       \* how many telemetry messages may wait (a bound)
    TimeOuts        \* the calls that may time out while a worker is free (a bound)

ASSUME RouteAssumption ==
    /\ Workers \cap Threads = {}
    /\ Chunks \in Nat \ {0} /\ ExitChunk \in 1..Chunks /\ ActionChunks \subseteq 1..Chunks
    /\ MaxAttempts \in Nat /\ MaxEvents \in Nat /\ MaxResults \in Nat /\ MaxQueue \in Nat
    /\ Kinds \subseteq {"line", "loop", "bareloop", "patrol"}
    /\ TimeOuts \subseteq {"goal", "home", "brake", "cancel"}

Procs == Workers \cup Threads

VARIABLES
    m,         \* the fields of the node that _lock protects
    job,       \* job[p]: the handler process p is running
    ans,       \* ans[p]: the answer of nav_command_server to p's call
    nav,       \* nav_command_server
    stray,     \* a set_goal request given up before it was served
    tel,       \* telemetry messages on their way
    left       \* how much may still happen from outside

vars == <<m, job, ans, nav, stray, tel, left>>

Calls == {"goal", "home", "brake", "cancel"}
Idle == [todo |-> <<>>, ctx |-> "", k |-> 0, kind |-> "none"]
Free(p) == job[p].todo = <<>>
Doing(p, step) == ~Free(p) /\ Head(job[p].todo) = step
Calling(p) == \E c \in Calls : Doing(p, c)

\* The kinds of a mission: "line" is not a loop, "bareloop" a loop without a
\* HOME waypoint, the last three the phases of a patrol.
RouteKinds == {"none", "line", "loop", "bareloop", "depart", "main", "connector"}
Loops == {"loop", "bareloop", "main"}
Connectors == {"depart", "connector"}
Size(kind) == IF kind \in Connectors THEN 1 ELSE Chunks
NextChunk(k, kind) == IF k < Size(kind) THEN k + 1 ELSE IF kind \in Loops THEN 1 ELSE 0

TypeOK ==
    /\ m \in [kind : RouteKinds, active : BOOLEAN, paused : BOOLEAN, awaiting : BOOLEAN,
              cur : 0..Chunks, blocked : {"", "waiting", "retrying", "operator"},
              tries : 0..MaxAttempts, inflight : BOOLEAN, stop : {"no", "seen", "handled"},
              acting : BOOLEAN, low : BOOLEAN, requested : BOOLEAN, home : BOOLEAN,
              phase : {"idle", "depart", "main", "pending", "connector", "parked"},
              plan : BOOLEAN, patrol : BOOLEAN, last : 0..MaxResults, handled : 0..MaxResults]
    /\ \A p \in Procs : /\ job[p].k \in 0..Chunks
                        /\ job[p].kind \in RouteKinds \cup {"patrol"} /\ Len(job[p].todo) <= 3
                        /\ ans[p] \in {"none", "ok", "refused"}
                        /\ ans[p] # "none" => Calling(p)
    /\ nav \in [active : BOOLEAN, status : {"unknown", "succeeded", "blocked", "failed", "canceled"},
                id : 0..MaxResults, late : 0..MaxResults, manual : BOOLEAN, collision : BOOLEAN]
    /\ stray \in BOOLEAN
    /\ Len(tel) <= MaxQueue
    /\ left \in 0..MaxEvents

Init ==
    /\ m = [kind |-> "none", active |-> FALSE, paused |-> FALSE, awaiting |-> FALSE,
            cur |-> 0, blocked |-> "", tries |-> 0, inflight |-> FALSE, stop |-> "no",
            acting |-> FALSE, low |-> FALSE, requested |-> FALSE, home |-> FALSE,
            phase |-> "idle", plan |-> FALSE, patrol |-> FALSE, last |-> 0, handled |-> 0]
    /\ job = [p \in Procs |-> Idle] /\ ans = [p \in Procs |-> "none"]
    /\ nav = [active |-> FALSE, status |-> "unknown", id |-> 0, late |-> 0,
              manual |-> FALSE, collision |-> FALSE]
    /\ stray = FALSE /\ tel = <<>> /\ left = MaxEvents

-----------------------------------------------------------------------------
(* The sections of the node, as functions of its fields.                   *)

Unblocked(r) == [r EXCEPT !.blocked = "", !.tries = 0, !.inflight = FALSE, !.stop = "no"]
Stopped(r) == [r EXCEPT !.active = FALSE, !.paused = FALSE, !.awaiting = FALSE]
NoReturn(r) == [r EXCEPT !.requested = FALSE, !.home = FALSE]

Reset(r) ==
    Unblocked(NoReturn([Stopped(r) EXCEPT
        !.kind = "none", !.cur = 0, !.acting = FALSE, !.low = FALSE,
        !.phase = "idle", !.plan = FALSE, !.patrol = FALSE, !.handled = r.last]))

\* What _activate_prepared_route and _on_set_route assign.
Installed(r, kind) ==
    LET keep == kind = "connector"
    IN  Unblocked([r EXCEPT
            !.kind = kind, !.active = TRUE, !.paused = FALSE, !.awaiting = FALSE,
            !.acting = FALSE, !.handled = r.last, !.low = keep /\ @,
            !.requested = keep /\ @, !.home = keep /\ @])

Phase(r, phase) ==
    Installed([r EXCEPT !.phase = phase, !.patrol = TRUE,
                        !.home = phase = "connector" \/ (@ /\ phase # "main"),
                        !.requested = @ /\ phase # "connector"], phase)

\* _enter_blocked_waiting once the brake and the cancel have been called
Waiting(r) ==
    IF ~r.active \/ r.blocked = "operator" THEN r
    ELSE IF r.tries >= MaxAttempts
         THEN [r EXCEPT !.blocked = "operator", !.awaiting = FALSE]
         ELSE [r EXCEPT !.blocked = "waiting", !.inflight = FALSE, !.awaiting = FALSE]

Completed(r) ==
    IF r.patrol /\ r.phase = "connector"
    THEN [Stopped(r) EXCEPT !.phase = "parked", !.patrol = FALSE, !.home = FALSE]
    ELSE Stopped(r)

\* What the sender of a chunk does when set_goal fails or times out.
SendFailed(r, ctx) ==
    CASE ctx = "set"                -> [r EXCEPT !.active = FALSE, !.paused = FALSE]
      [] ctx \in {"next", "act"}    -> Stopped(r)
      [] ctx = "home"               -> NoReturn(Stopped(r))
      [] ctx \in {"patrol", "main"} -> Reset(r)
      [] OTHER                      -> [r EXCEPT !.inflight = FALSE]

-----------------------------------------------------------------------------
(* What a process does next.                                               *)

Done(p) == [job EXCEPT ![p] = Idle]
Following(p) == IF Len(job[p].todo) = 1 THEN Idle ELSE [job[p] EXCEPT !.todo = Tail(@)]

\* _send_chunk up to its request
Send(p, r, k, ctx) ==
    /\ m' = [r EXCEPT !.cur = k]
    /\ job' = [job EXCEPT ![p].todo = <<"goal">>, ![p].ctx = ctx]

AtExit(r) == r.requested /\ ~r.home /\ r.kind \notin Connectors /\ r.cur = ExitChunk

\* Where the mission goes once a chunk is done: HOME, the next phase of the
\* patrol, the end, or the chunk next (0 when the route has ended).  A new
\* phase is refused when its route is too close to the robot.
GoOn(p, r, next, ctx) ==
    IF AtExit(r)
    THEN IF r.patrol
         THEN \/ Send(p, Phase(r, "connector"), 1, "home")
              \/ m' = NoReturn(Stopped(r)) /\ job' = Done(p)
         ELSE m' = r /\ job' = [job EXCEPT ![p].todo = <<"home">>, ![p].ctx = "home"]
    ELSE IF next # 0 \/ r.kind \in Loops
    THEN Send(p, r, IF next = 0 THEN 1 ELSE next, ctx)
    ELSE IF r.patrol /\ r.phase = "depart"
    THEN \/ Send(p, Phase(r, "main"), 1, "main")
         \/ m' = Reset(r) /\ job' = Done(p)
    ELSE m' = Completed(r) /\ job' = Done(p)

Start(p, todo, ctx, k, kind) ==
    [job EXCEPT ![p] = [todo |-> todo, ctx |-> ctx, k |-> k, kind |-> kind]]

\* _start_next_chunk_after_success
Advance(p) ==
    /\ Doing(p, "advance")
    /\ IF ~m.active \/ m.paused THEN m' = m /\ job' = Done(p)
       ELSE IF m.cur \in ActionChunks /\ m.kind \notin Connectors /\ ~m.acting
       THEN \E t \in Threads :
              /\ Free(t) /\ m' = m
              /\ job' = [Start(t, <<"hold">>, "", m.cur, m.kind) EXCEPT ![p] = Idle]
       ELSE GoOn(p, m, NextChunk(m.cur, m.kind), "next")
    /\ UNCHANGED <<ans, nav, stray, tel>>

\* _run_waypoint_actions_then_continue: the brake_hold action, and what follows
Hold(p) ==
    /\ Doing(p, "hold")
    /\ IF ~m.active \/ m.paused \/ m.cur # job[p].k
       THEN m' = [m EXCEPT !.acting = FALSE] /\ job' = Done(p)
       ELSE m' = [m EXCEPT !.acting = TRUE] /\ job' = [job EXCEPT ![p].todo = <<"brake", "held">>]
    /\ UNCHANGED <<ans, nav, stray, tel>>

Held(p) ==
    /\ Doing(p, "held")
    /\ LET r == [m EXCEPT !.acting = FALSE]
       IN  IF ~m.active \/ m.paused THEN m' = r /\ job' = Done(p)
           ELSE GoOn(p, r, NextChunk(job[p].k, job[p].kind), "act")
    /\ UNCHANGED <<ans, nav, stray, tel>>

\* _run_blocked_retry reads where the chunk started, clears the costmaps, and
\* sends the chunk of the route there is by then; a reset mission has none.
Look(p) ==
    /\ Doing(p, "look")
    /\ job' = [job EXCEPT ![p].todo = Tail(@), ![p].k = IF m.cur = 0 THEN 1 ELSE m.cur]
    /\ m' = m
    /\ UNCHANGED <<ans, nav, stray, tel>>

Retry(p) ==
    /\ Doing(p, "retry")
    /\ IF m.kind = "none" \/ job[p].k > Size(m.kind)
       THEN /\ m' = SendFailed(m, "retry")
            /\ job' = [job EXCEPT ![p].todo = <<"brake", "enter">>, ![p].k = 0]
       ELSE /\ m' = [m EXCEPT !.cur = job[p].k]
            /\ job' = [job EXCEPT ![p].todo = <<"goal">>, ![p].k = 0]
    /\ UNCHANGED <<ans, nav, stray, tel>>

Retried(p) ==
    /\ Doing(p, "retried")
    /\ m' = [m EXCEPT !.blocked = "", !.inflight = FALSE, !.stop = "no"]
    /\ job' = Done(p)
    /\ UNCHANGED <<ans, nav, stray, tel>>

EnterBlocked(p) ==
    /\ Doing(p, "enter")
    /\ m' = Waiting(m) /\ job' = Done(p)
    /\ UNCHANGED <<ans, nav, stray, tel>>

(* Variant: forgets the return but leaves the mission active. *)
StopLowKeepsMission(p) ==
    /\ Doing(p, "stop")
    /\ m' = NoReturn(m) /\ job' = Done(p)
    /\ UNCHANGED <<ans, nav, stray, tel>>

\* The ends of _stop_for_low_battery_non_loop and _stop_for_missing_home.
StopLow(p) ==
    /\ Doing(p, "stop")
    /\ m' = NoReturn(Stopped(m)) /\ job' = Done(p)
    /\ UNCHANGED <<ans, nav, stray, tel>>

Install(p) ==
    /\ Doing(p, "install")
    /\ m' = [Installed(m, job[p].kind) EXCEPT !.cur = 1]
    /\ job' = [job EXCEPT ![p].todo = <<"goal">>]
    /\ UNCHANGED <<ans, nav, stray, tel>>

ResetMission(p) ==
    /\ Doing(p, "reset")
    /\ m' = Reset(m) /\ job' = Done(p)
    /\ UNCHANGED <<ans, nav, stray, tel>>

-----------------------------------------------------------------------------
(* Calls to nav_command_server: _call_service and what follows it.         *)

Answered(p, ok) ==
    /\ ans' = [ans EXCEPT ![p] = "none"]
    /\ IF ~Doing(p, "goal") /\ ~Doing(p, "home")
       THEN m' = m /\ job' = [job EXCEPT ![p] = Following(p)]
       ELSE IF ok
       THEN /\ m' = [m EXCEPT !.awaiting = TRUE, !.home = @ \/ Doing(p, "home")]
            /\ job' = IF job[p].ctx = "retry" THEN [job EXCEPT ![p].todo = <<"retried">>] ELSE Done(p)
       ELSE /\ m' = SendFailed(m, job[p].ctx)
            /\ job' = IF job[p].ctx = "retry" THEN [job EXCEPT ![p].todo = <<"brake", "enter">>]
                                              ELSE Done(p)

\* The answer of a service is taken by a worker that is not itself waiting.
Return(p) ==
    /\ ans[p] # "none" /\ \E w \in Workers : Free(w)
    /\ Answered(p, ans[p] = "ok")
    /\ UNCHANGED <<nav, stray, tel>>

(* Variant: a call that timed out is made again. *)
TimeOutAsksAgain(p) ==
    /\ Calling(p)
    /\ Head(job[p].todo) \in TimeOuts \/ \A w \in Workers : ~Free(w)
    /\ ans' = [ans EXCEPT ![p] = "none"]
    /\ UNCHANGED <<m, job, nav, stray, tel>>

TimeOut(p) ==
    /\ Calling(p)
    /\ Head(job[p].todo) \in TimeOuts \/ \A w \in Workers : ~Free(w)
    /\ Answered(p, FALSE)
    /\ stray' = (stray \/ (ans[p] = "none" /\ (Doing(p, "goal") \/ Doing(p, "home"))))
    /\ UNCHANGED <<nav, tel>>

-----------------------------------------------------------------------------
(* nav_command_server, as far as the route executor can tell.  late counts *)
(* the goals it has cancelled whose results have not come yet.             *)

Detached(n) == [n EXCEPT !.active = FALSE, !.late = @ + (IF n.active THEN 1 ELSE 0)]
Room(n) == n.id + n.late < MaxResults
Accepted(n) == [Detached(n) EXCEPT !.active = TRUE]
Refused(n) == IF n.manual THEN {n}
              ELSE {Detached(n)} \cup
                   {x \in {[Detached(n) EXCEPT !.id = @ + 1, !.status = "failed"]} : Room(Detached(n))}

Serve(p) ==
    /\ Calling(p) /\ ans[p] = "none"
    /\ IF Doing(p, "brake") \/ Doing(p, "cancel")
       THEN nav' = Detached(nav) /\ ans' = [ans EXCEPT ![p] = "ok"]
       ELSE \/ /\ ~nav.manual /\ Room(Detached(nav))
               /\ nav' = Accepted(nav) /\ ans' = [ans EXCEPT ![p] = "ok"]
            \/ nav' \in Refused(nav) /\ ans' = [ans EXCEPT ![p] = "refused"]
    /\ UNCHANGED <<m, job, stray, tel>>

ServeStray ==
    /\ stray /\ stray' = FALSE
    /\ \/ ~nav.manual /\ Room(Detached(nav)) /\ nav' = Accepted(nav)
       \/ nav' \in Refused(nav)
    /\ UNCHANGED <<m, job, ans, tel>>

Result ==
    /\ nav.active
    /\ \E status \in {"succeeded", "blocked", "failed"} :
         nav' = [nav EXCEPT !.active = FALSE, !.status = status, !.id = @ + 1]
    /\ UNCHANGED <<m, job, ans, stray, tel>>

\* The result callback does not ask whose result it is.
LateResult ==
    /\ nav.late > 0 /\ nav.id < MaxResults
    /\ nav' = [nav EXCEPT !.active = FALSE, !.status = "canceled", !.id = @ + 1, !.late = @ - 1]
    /\ UNCHANGED <<m, job, ans, stray, tel>>

ManualMode ==
    /\ nav' = IF nav.manual THEN [nav EXCEPT !.manual = FALSE]
                            ELSE [Detached(nav) EXCEPT !.manual = TRUE]
    /\ UNCHANGED <<m, job, ans, stray, tel>>

CollisionStop ==
    /\ nav' = [nav EXCEPT !.collision = ~@]
    /\ UNCHANGED <<m, job, ans, stray, tel>>

Seen == [active |-> nav.active, status |-> nav.status, id |-> nav.id,
         manual |-> nav.manual, collision |-> nav.collision]

Publish ==
    /\ Len(tel) < MaxQueue
    /\ tel' = Append(tel, Seen)
    /\ UNCHANGED <<m, job, ans, nav, stray>>

-----------------------------------------------------------------------------
(* The callbacks of the Reentrant group: telemetry, the battery guard, the *)
(* retry timer.                                                            *)

\* The part about collision stops; how long one lasts is open.
StopWatched(r, s) ==
    IF ~(s.collision /\ s.active) THEN {[r EXCEPT !.stop = "no"]}
    ELSE IF r.stop = "no" THEN {[r EXCEPT !.stop = "seen"]}
    ELSE IF r.stop = "seen" /\ r.blocked = "" THEN {r, [r EXCEPT !.stop = "handled"]}
    ELSE {r}

(* Variant: does not look at the id of the result. *)
IsResultByStatus(r, s) ==
    /\ ~s.active /\ r.awaiting /\ s.id > 0 /\ s.status # "unknown"

IsResult(r, s) ==
    /\ ~s.active /\ r.awaiting /\ s.id > 0 /\ s.id # r.handled /\ s.status # "unknown"

Dropped(r) == Unblocked([r EXCEPT !.active = FALSE, !.acting = FALSE])

OnResult(w, r, status) ==
    CASE status = "succeeded" /\ r.home /\ r.phase # "connector" ->
            m' = NoReturn(Stopped(r)) /\ job' = job
      [] status = "succeeded" /\ ~(r.home /\ r.phase # "connector") ->
            m' = Unblocked(r) /\ job' = Start(w, <<"advance">>, "", 0, "none")
      [] status = "blocked" -> m' = r /\ job' = Start(w, <<"brake", "enter">>, "", 0, "none")
      [] OTHER -> m' = Dropped(r) /\ job' = job

Telemetry(w) ==
    /\ Free(w) /\ tel # <<>> /\ tel' = Tail(tel)
    /\ LET s == Head(tel)
           known == [m EXCEPT !.last = s.id]
       IN
          IF ~m.active THEN m' = known /\ job' = job
           ELSE \E r \in StopWatched(known, s) :
                  IF s.manual /\ ~r.paused
                  THEN /\ m' = Unblocked([r EXCEPT !.paused = TRUE, !.awaiting = FALSE,
                                                   !.acting = FALSE])
                       /\ job' = job
                  ELSE IF r.paused THEN m' = r /\ job' = job
                  ELSE IF r.stop = "handled" /\ m.stop # "handled"
                  THEN m' = r /\ job' = Start(w, <<"brake", "cancel", "enter">>, "collision", 0, "none")
                  ELSE IF IsResult(r, s)
                  THEN OnResult(w, [r EXCEPT !.handled = s.id, !.awaiting = FALSE], s.status)
                  ELSE m' = r /\ job' = job
    /\ UNCHANGED <<ans, nav, stray>>

\* _activate_low_battery_response
LowBattery(w) ==
    /\ Free(w) /\ ~m.low
    /\ LET r == [m EXCEPT !.low = TRUE]
       IN  IF ~m.active \/ m.paused \/ m.requested \/ m.home THEN m' = r /\ job' = job
           ELSE IF m.kind \in {"loop", "main"}
           THEN /\ m' = [r EXCEPT !.requested = TRUE, !.phase = IF m.plan THEN "pending" ELSE @]
                /\ job' = job
           ELSE m' = r /\ job' = Start(w, <<"brake", "cancel", "stop">>, "", 0, "none")
    /\ UNCHANGED <<ans, nav, stray, tel>>

\* _clear_low_battery_recovery_state
BatteryRecovered(w) ==
    /\ Free(w) /\ (m.low \/ m.requested \/ m.home)
    /\ m' = Unblocked(NoReturn([Stopped(m) EXCEPT !.acting = FALSE, !.low = FALSE]))
    /\ job' = IF m.active \/ m.requested \/ m.home
              THEN Start(w, <<"cancel", "brake">>, "", 0, "none")
              ELSE IF m.awaiting THEN Start(w, <<"cancel">>, "", 0, "none") ELSE job
    /\ UNCHANGED <<ans, nav, stray, tel>>

(* Variant: retries whatever the blocked state is. *)
RetryTickOnAnyBlock(w) ==
    /\ Free(w) /\ m.active /\ m.blocked # "" /\ ~m.inflight
    /\ m' = [m EXCEPT !.blocked = "retrying", !.inflight = TRUE, !.tries = @ + 1]
    /\ \E t \in Threads : Free(t) /\ job' = Start(t, <<"look", "retry">>, "retry", 0, "none")
    /\ UNCHANGED <<ans, nav, stray, tel>>

(* Variant: does not count the attempt. *)
RetryTickUncounted(w) ==
    /\ Free(w) /\ m.active /\ m.blocked = "waiting" /\ ~m.inflight
    /\ m' = [m EXCEPT !.blocked = "retrying", !.inflight = TRUE]
    /\ \E t \in Threads : Free(t) /\ job' = Start(t, <<"look", "retry">>, "retry", 0, "none")
    /\ UNCHANGED <<ans, nav, stray, tel>>

\* _blocked_retry_tick: when the wait is over is open
RetryTick(w) ==
    /\ Free(w) /\ m.active /\ m.blocked = "waiting" /\ ~m.inflight
    /\ m' = [m EXCEPT !.blocked = "retrying", !.inflight = TRUE, !.tries = @ + 1]
    /\ \E t \in Threads : Free(t) /\ job' = Start(t, <<"look", "retry">>, "retry", 0, "none")
    /\ UNCHANGED <<ans, nav, stray, tel>>

-----------------------------------------------------------------------------
(* The services: one at a time, they share a MutuallyExclusive group.      *)

Services == {"set", "patrol", "cancel"}
Request(w) == Free(w) /\ \A v \in Workers : job[v].ctx \notin Services

SetRoute(w, kind) ==
    /\ Request(w)
    /\ m' = m
    /\ job' = Start(w, (IF m.active \/ m.paused THEN <<"cancel">> ELSE <<>>) \o <<"install">>,
                    "set", 0, kind)
    /\ UNCHANGED <<ans, nav, stray, tel>>

\* A patrol starts with the connector from HOME when the robot stands there.
SetPatrol(w) ==
    /\ Request(w)
    /\ \/ \E phase \in {"depart", "main"} :
            /\ m' = [Phase([m EXCEPT !.plan = TRUE], phase) EXCEPT !.cur = 1]
            /\ job' = Start(w, <<"goal">>, "patrol", 0, "none")
       \/ m' = Reset(m) /\ job' = job
    /\ UNCHANGED <<ans, nav, stray, tel>>

\* cancel_route and cancel_patrol
CancelRoute(w) ==
    /\ Request(w)
    /\ m' = m /\ job' = Start(w, <<"cancel", "reset">>, "cancel", 0, "none")
    /\ UNCHANGED <<ans, nav, stray, tel>>

RequestReturnHome(w) ==
    /\ Request(w) /\ m.plan /\ m.patrol /\ m.phase = "main"
    /\ m' = [m EXCEPT !.requested = TRUE, !.home = FALSE, !.phase = "pending"]
    /\ UNCHANGED <<job, ans, nav, stray, tel>>

-----------------------------------------------------------------------------
Step(p) ==
    \/ Advance(p) \/ Hold(p) \/ Held(p) \/ Look(p) \/ Retry(p) \/ Retried(p) \/ EnterBlocked(p)
    \/ StopLow(p) \/ Install(p) \/ ResetMission(p)

Inside ==
    \/ \E p \in Procs : Step(p) \/ Return(p) \/ TimeOut(p) \/ Serve(p)
    \/ \E w \in Workers : Telemetry(w) \/ RetryTick(w)
    \/ ServeStray \/ Result \/ LateResult \/ Publish

Outside ==
    \/ ManualMode \/ CollisionStop
    \/ \E w \in Workers :
         \/ LowBattery(w) \/ BatteryRecovered(w) \/ CancelRoute(w) \/ RequestReturnHome(w)
         \/ "patrol" \in Kinds /\ SetPatrol(w)
         \/ \E kind \in Kinds \ {"patrol"} : SetRoute(w, kind)

Next ==
    \/ Inside /\ UNCHANGED left
    \/ left > 0 /\ left' = left - 1 /\ Outside

Spec == Init /\ [][Next]_vars

(* A process that runs goes on and nav_command_server serves what reached  *)
(* it; an answer is taken, or its caller gives up after request_timeout_s. *)
(* A free worker is taken by other callbacks many times before the timer's *)
(* (strong fairness).  Goals, telemetry and operators promise nothing.     *)
Fairness ==
    /\ \A p \in Procs :
         /\ WF_vars(Step(p) /\ UNCHANGED left)
         /\ WF_vars((Return(p) \/ TimeOut(p)) /\ UNCHANGED left)
         /\ WF_vars(Serve(p) /\ UNCHANGED left)
    /\ SF_vars(\E w \in Workers : RetryTick(w) /\ UNCHANGED left)

FairSpec == Spec /\ Fairness

-----------------------------------------------------------------------------
(* Properties.                                                             *)

(* Telemetry repeats the last result five times a second and may be older  *)
(* than the goal just accepted: every result _on_nav_telemetry acts on is  *)
(* newer than those it acted on before.                                    *)
ResultsOnce ==
    [][(Len(tel') < Len(tel) /\ m.awaiting /\ ~m'.awaiting /\ ~m'.paused)
            => m'.handled > m.handled]_vars

(* The waits, retries and calls for the operator follow BlockedRetry step  *)
(* by step: an attempt is never started twice, never lost from the count.  *)
Blockage == INSTANCE BlockedRetry WITH blocked <- m.blocked, tries <- m.tries
RetriesAsPromised == Blockage!BSpec

(* When every handler has ended, a mission runs on a low battery only if   *)
(* it can still bring the robot HOME, however the stop was interleaved.    *)
LowBatteryStops ==
    (m.low /\ m.active /\ ~m.paused /\ \A p \in Procs : Free(p))
        => m.kind \in {"loop", "main", "connector"}

(* Two workers that wait for answers only a worker can take do not wait    *)
(* for ever: every callback ends.                                          *)
HandlerEnds == \A w \in Workers : ~Free(w) ~> Free(w)

(* A blockage comes to an end: the route goes on, the mission ends, or the *)
(* operator is asked for.                                                  *)
BlockageEnds ==
    (m.active /\ m.blocked \in {"waiting", "retrying"})
        ~> (~m.active \/ m.blocked \in {"", "operator"})

(* test_persistent_collision_stop_cancels_goal_and_waits_before_retry: a   *)
(* collision stop that lasts makes the mission wait for a retry, so the    *)
(* result of the goal it cancels does not end the mission.  Violated: the  *)
(* brake service answers after its sequence, and the other worker takes    *)
(* that result before the mission is marked as blocked.                    *)
CollisionStopWaits ==
    [][(Len(tel') < Len(tel) /\ m.active /\ ~m'.active)
            => \A p \in Workers : ~Free(p) => job[p].ctx # "collision"]_vars

(* "Return home completed" is reported when the robot has reached HOME:    *)
(* what is sent while the robot returns is HOME.  Violated: the retry of a *)
(* blocked return sends the chunk of the loop again, and its success ends  *)
(* the return.                                                             *)
RetryGoesHome ==
    [][\A p \in Threads : (Doing(p, "retry") /\ Doing(p, "goal")')
            => ~m.home \/ m.phase = "connector"]_vars

(* test_low_battery_stops_non_loop_mission_without_returning_home: a route *)
(* that is not a loop does not go on with a low battery.  Violated: the    *)
(* call that sends the robot HOME is answered after set_route has replaced *)
(* the loop by a line, the line counts as a return, and the response to    *)
(* the low battery leaves it alone.                                        *)
LineStopsOnLowBattery ==
    (m.low /\ m.active /\ ~m.paused /\ \A p \in Procs : Free(p)) => m.kind # "line"
=============================================================================
