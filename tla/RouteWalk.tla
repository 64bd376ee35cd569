----------------------------- MODULE RouteWalk -----------------------------
(***************************************************************************)
(* A robot driving a route mission of route_executor.py, place by place:   *)
(* RoutePlan's functions at work.  RouteMission has the threads, calls and *)
(* messages around them; here a chunk that is sent is driven, and ends in  *)
(* success or in a blocked wait and a retry.                               *)
(***************************************************************************)
EXTENDS RoutePlan

CONSTANTS
    Missions,   \* the missions operators send
    Reanchor,   \* blocked_retry_reanchor_on_current_pose
    MaxBlocked  \* how many times a mission is blocked (a bound)

\* A mission: the lists of its request and which of them have the role HOME;
\* HOME else; for the loop of a patrol, the waypoint after which it is joined
\* from HOME (0: a route); where the robot may be.
Sent(m) == Split(m.lists, m.homes)
Entries(m) == {1} \cup IF m.entry = 0 THEN {} ELSE {Ahead(m.entry, 1, Len(m.lists.points))}

(* The legs of a loop, with the one that closes it, are parallel to an     *)
(* axis; a patrol has a loop and a HOME of its own.                        *)
ASSUME MissionsAssumption ==
    \A m \in Missions :
        /\ m.loop \in BOOLEAN /\ m.starts \in SUBSET Places /\ m.home \in Places
        /\ m.lists.points \in Seq(Stops) /\ m.lists.points # <<>>
        /\ m.lists.acts \in Seq(BOOLEAN) /\ Len(m.lists.acts) = Len(m.lists.points)
        /\ m.homes \in SUBSET (DOMAIN m.lists.points)
        /\ m.entry \in 0..Len(m.lists.points)
        /\ m.entry # 0 => m.loop /\ m.homes = {}
        /\ m.loop /\ Splits(m.lists, m.homes) =>
               \A i \in Entries(m) : Straight(DropClosure(TurnedLists(Sent(m), i), TRUE).points)

VARIABLES
    mission,    \* the mission sent last
    posed,      \* _last_robot_pose is known
    prepared,   \* _route_input, _route_input_source_indices: [points, acts, inputs]
    route,      \* _route_expanded
    inputs,     \* _route_input_indices
    start,      \* _current_start_index
    target,     \* _current_target_index
    heading,    \* the waypoint of the chunk Nav2 drives to
    robot,      \* where the robot is
    phase,      \* "none" | "driving" | "blocked" | "action" | "home" | "done" | "refused"
    lowBattery, \* _return_home_requested
    exit,       \* _return_home_exit_input_index; 0: none
    blocked,    \* how many times the mission was blocked
    acted,      \* history: the waypoint whose action ran last; 0: none
    from        \* history: the waypoint of the mission its list was turned to

plan == <<prepared, route, inputs, from>>
walk == <<mission, posed, plan, start, target, heading, robot, phase, lowBattery, exit, blocked, acted>>

Loop == mission.loop
Home == IF mission.homes = {} THEN mission.home ELSE mission.lists.points[Min(mission.homes)].at

WalkInit ==
    /\ mission \in Missions
    /\ robot \in mission.starts
    /\ posed \in BOOLEAN
    /\ prepared = [points |-> <<>>, acts |-> <<>>, inputs |-> <<>>]
    /\ route = <<>> /\ inputs = <<>> /\ from = 1
    /\ start = 1 /\ target = 1 /\ heading = 1
    /\ phase = "none"
    /\ lowBattery = FALSE /\ exit = 0 /\ blocked = 0 /\ acted = 0

(* The first telemetry with a position; every later one has it, too.       *)
Pose ==
    /\ ~posed /\ posed' = TRUE
    /\ UNCHANGED <<mission, plan, start, target, heading, robot, phase, lowBattery, exit, blocked, acted>>

(* _send_chunk: nav_command_server takes the chunk that is ahead of the    *)
(* robot.                                                                  *)
Send(r, i) ==
    \E s \in {IF posed THEN SendFrom(r, i, robot, Loop) ELSE i} :
        /\ start' = s
        /\ target' = ChunkEnd(r, s, Loop)
        /\ heading' = s
        /\ phase' = "driving"

(* What _on_set_route and _start_patrol_phase do with the waypoints from   *)
(* the i-th on: without the closing one, turned to the robot, with the     *)
(* synthetic points, from the first waypoint.  (set_route has nothing to   *)
(* map: its waypoints are not turned before.)                              *)
Lists(i) == DropClosure(TurnedLists(Sent(mission), i), Loop)
SourcesOf(i) == SubSeq(Turned(Numbers(Len(Sent(mission).points)), i), 1, Len(Lists(i).points))
Planned(i) == MapInputs(Prepare(Lists(i), robot, posed, Loop), SourcesOf(i))

RefuseRoute == phase' = "refused" /\ UNCHANGED <<plan, start, target, heading>>
BeginRoute(i) ==
    IF posed /\ Refused(Lists(i).points, robot, Loop)
    THEN RefuseRoute
    ELSE \E prep \in {Planned(i)} : \E r \in {Expand(Marked(prep), Loop)} :
            /\ prepared' = prep /\ route' = r /\ from' = i
            /\ inputs' = ExpandedInputs(r, prep.inputs)
            /\ Send(r, 1)

SetRoute ==
    /\ phase = "none" /\ mission.entry = 0
    /\ IF Splits(mission.lists, mission.homes) THEN BeginRoute(1) ELSE RefuseRoute
    /\ UNCHANGED <<mission, posed, robot, lowBattery, exit, blocked, acted>>

(* _start_patrol_phase(LOOP_MAIN), near HOME after the waypoint where the  *)
(* way from HOME ends.                                                     *)
StartPatrolLoop ==
    /\ phase = "none" /\ mission.entry # 0
    /\ IF posed /\ D2(robot, Home) <= Sq(StartNear)
       THEN BeginRoute(Ahead(mission.entry, 1, Len(mission.lists.points))) ELSE BeginRoute(1)
    /\ UNCHANGED <<mission, posed, robot, lowBattery, exit, blocked, acted>>

(* Nav2 drives to the poses of the chunk one after the other.              *)
Toward(p, q) ==
    {r \in {<<p[1] + 1, p[2]>>, <<p[1] - 1, p[2]>>, <<p[1], p[2] + 1>>, <<p[1], p[2] - 1>>} :
        D2(r, q) < D2(p, q)}
DriveOn ==
    /\ phase = "driving"
    /\ LET at == route[heading].at
       IN  IF robot = at
           THEN heading # target /\ heading' = Ahead(heading, 1, Len(route)) /\ UNCHANGED robot
           ELSE robot' \in Toward(robot, at) /\ UNCHANGED heading
    /\ UNCHANGED <<mission, posed, plan, start, target, phase, lowBattery, exit, blocked, acted>>

(* _start_next_chunk_after_success and, after an action, the end of        *)
(* _run_waypoint_actions_then_continue.                                    *)
AtExit == lowBattery /\ exit # 0 /\ inputs[target] = exit
GoOn ==
    LET next == NextStart(target, Len(route), Loop)
    IN  IF AtExit THEN phase' = "home" /\ UNCHANGED <<start, target, heading>>
        ELSE IF next > Len(route) THEN phase' = "done" /\ UNCHANGED <<start, target, heading>>
        ELSE Send(route, next)

Arrive ==
    /\ phase = "driving"
    /\ heading = target /\ robot = route[target].at
    /\ IF route[target].act
       THEN phase' = "action" /\ acted' = target /\ UNCHANGED <<start, target, heading>>
       ELSE GoOn /\ UNCHANGED acted
    /\ UNCHANGED <<mission, posed, plan, robot, lowBattery, exit, blocked>>

ActionDone ==
    /\ phase = "action"
    /\ GoOn
    /\ UNCHANGED <<mission, posed, plan, robot, lowBattery, exit, blocked, acted>>

(* The goal is aborted or a collision stop lasts; after the wait           *)
(* _run_blocked_retry starts the chunk from where the robot is, if it is   *)
(* to and knows.                                                           *)
Block ==
    /\ phase = "driving"
    /\ blocked < MaxBlocked
    /\ blocked' = blocked + 1
    /\ phase' = "blocked"
    /\ UNCHANGED <<mission, posed, plan, start, target, heading, robot, lowBattery, exit, acted>>

Retry ==
    /\ phase = "blocked"
    /\ IF Reanchor /\ posed
       THEN \E i \in {RetryFrom(route, start, target, robot, Loop)} : Send(route, i)
       ELSE Send(route, start)
    /\ UNCHANGED <<mission, posed, plan, robot, lowBattery, exit, blocked, acted>>

(* _activate_low_battery_response: a loop drives on to its exit waypoint,  *)
(* which is chosen among those prepared; a line is stopped.                *)
LowBattery ==
    /\ phase \in {"driving", "blocked", "action"} /\ ~lowBattery
    /\ lowBattery' = TRUE
    /\ IF Loop THEN exit' = ExitInput(prepared, Home) /\ UNCHANGED phase
       ELSE phase' = "done" /\ UNCHANGED exit
    /\ UNCHANGED <<mission, posed, plan, start, target, heading, robot, blocked, acted>>

WalkNext == Pose \/ SetRoute \/ StartPatrolLoop \/ DriveOn \/ Arrive \/ ActionDone \/ Block \/ Retry \/ LowBattery

\* Nav2 gets on, and the retry is made after blocked_retry_wait_s.
WalkFairness == WF_walk(DriveOn \/ Arrive \/ ActionDone \/ Retry)
WalkSpec == WalkInit /\ [][WalkNext]_walk /\ WalkFairness

----------------------------------------------------------------------------
(* Properties.                                                             *)

(* The lists of places, actions and input indices are split, turned, cut,  *)
(* filled and mapped one by one; put together they are still the mission   *)
(* the operator sent.                                                      *)

\* An index counts the waypoints that are not HOME.
Count == Len(mission.lists.points) - Cardinality(mission.homes)
InRequest(n) == IF \E h \in mission.homes : h <= n THEN n + 1 ELSE n

\* The waypoint an index stands for.  One exception is in the code: a loop that
\* is resumed after HOME and needs no more turning is numbered from there.
StandsFor(n) == IF prepared.inputs = <<>> THEN Ahead(from, n - 1, Count) ELSE n
Keys == {i \in DOMAIN route : IsKey(route[i])}
Named == {StandsFor(inputs[i]) : i \in Keys}

\* A key waypoint is at the place, and has the actions, of the one its index
\* stands for.
IndicesAreTrue ==
    \A i \in Keys : \E n \in 1..Count :
        /\ n = StandsFor(inputs[i])
        /\ route[i].at = mission.lists.points[InRequest(n)].at
        /\ route[i].act = mission.lists.acts[InRequest(n)]

\* A loop loses none but the last, when it is beside the first; a line none
\* after the one it begins with.
NoneIsLost ==
    LET last == Ahead(from, Count - 1, Count)
        At(n) == mission.lists.points[InRequest(n)]
    IN  IF Loop THEN \A n \in 1..Count \ Named : n = last /\ Near(At(from).at, At(last), Reached)
                ELSE Named = StandsFor(inputs[1])..Count

\* They come in the order of the operator, and none comes twice.
OrderIsKept ==
    LET After(i) == (StandsFor(inputs[i]) - StandsFor(inputs[1])) % Count
    IN  \A i, j \in Keys : i < j => After(i) < After(j)

\* The exit waypoint, chosen by the indices of what was prepared, is the one of
\* the route that has this index, and none is closer to HOME.
ExitIsOnRoute ==
    Loop /\ lowBattery =>
        \E i \in Keys : inputs[i] = exit /\ \A j \in Keys : D2(Home, route[i].at) <= D2(Home, route[j].at)

RouteIsMission ==
    route # <<>> =>
        /\ IndicesAreTrue /\ NoneIsLost /\ OrderIsKept /\ ExitIsOnRoute
        /\ Loop => \A i \in DOMAIN route :
                        D2(route[i].at, route[Ahead(i, 1, Len(route))].at) <= Sq(Spacing)

(* "In a loop waypoints with actions are not skipped although the robot is *)
(* within tolerance, so that the action is repeated every time round":     *)
(* between two actions of a loop there is no waypoint with an action.      *)
Inside(i, j, n) == {Ahead(i, k, n) : k \in 1..((j - i - 1) % n)}
LoopActionsInTurn ==
    [][Loop /\ acted # 0 /\ phase # "action" /\ phase' = "action" =>
        Inside(acted, target, Len(route)) \cap Acts(route) = {}]_walk

(* "A retry takes the active leg as a barrier: a loop cannot go back to a  *)
(* waypoint it has passed"; and it goes over the one it drives to only     *)
(* when the robot has reached that one, too, and no action waits there.    *)
LoopRetryStaysInChunk ==
    [][Loop /\ phase = "blocked" /\ phase' = "driving" =>
        \/ start' \in CyclicBetween(start, target, Len(route))
        \/ target \notin Away(route, robot) \cup Acts(route)]_walk

(* A line is driven to its end, and ends nowhere else, unless the battery  *)
(* is low.                                                                 *)
LineEnds ==
    [](phase = "driving" /\ ~Loop =>
        <>(phase = "done" /\ (lowBattery \/ robot = mission.lists.points[InRequest(Count)].at)))

(* "... so that the action is repeated every time round": each action of a *)
(* loop runs again and again, whatever is blocked, until the robot drives  *)
(* HOME.                                                                   *)
Inputs == UNION {DOMAIN m.lists.points : m \in Missions}
LoopActionsRepeat ==
    \A n \in Inputs :
        []<>(Loop /\ (\E i \in Acts(route) : inputs[i] = n) =>
                phase = "home" \/ (acted # 0 /\ inputs[acted] = n))

(* Low battery: the robot drives on to the exit waypoint and then HOME.    *)
ReturnsHome == [](Loop /\ lowBattery => <>(phase = "home"))
=============================================================================
