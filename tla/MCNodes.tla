------------------------------ MODULE MCNodes ------------------------------
(* Nodes of the robot that share no variable, checked in one run: node     *)
(* says whose behaviour a behaviour of NSpec is, the others stand still.   *)
EXTENDS BatteryGuard, ZonesStore, ControlLock, NavProfile, DatumSetter, RtkSource, WsGateway,
        Headings, PathClearance, PowerLog, FrameParser, RouteWalk

CONSTANTS
    MaxChanges,
    Stacks, MaxAsked

VARIABLES
    node,
    truth, view, polling, asks,
    stack, conf, pending, delayed, started, outer, failed

battery == vars
page    == <<truth, view, polling, asks>>
launch  == <<stack, conf, pending, delayed, started, outer, failed>>
nvars   == <<node, battery, walk, rtk, zones, lock, parser, profile, dvars, clearance, page, gate,
             power, course, compass, launch>>

\* Missions: their points, which of them have actions, which the role HOME.
StartPlaces == {<<0, 0>>, <<-2, -2>>, <<3, 1>>, <<8, 1>>, <<3, -1>>}
Mission(places, acting, homes, loop, entry, home) ==
    [lists |-> [points |-> [i \in DOMAIN places |-> [at |-> places[i]]],
                acts |-> [i \in DOMAIN places |-> i \in acting]],
     homes |-> homes, loop |-> loop, entry |-> entry, home |-> home, starts |-> StartPlaces]
WalkMissions ==
    {\* a loop with short and long legs, HOME in the middle of its list
     Mission(<<<<0, 0>>, <<8, 0>>, <<-1, 3>>, <<8, 3>>, <<0, 3>>>>, {4}, {3}, TRUE, 0, <<9, 9>>),
     \* a narrow loop that names its first place again, waypoints close to each other
     Mission(<<<<0, 0>>, <<6, 0>>, <<6, 1>>, <<0, 1>>, <<0, 0>>>>, {1, 3}, {}, TRUE, 0, <<6, 2>>),
     \* to and fro
     Mission(<<<<0, 0>>, <<6, 0>>>>, {}, {}, TRUE, 0, <<0, 2>>),
     \* a line that comes back beside itself, HOME first; the same with two HOMEs
     Mission(<<<<6, 2>>, <<0, 0>>, <<8, 0>>, <<8, 2>>, <<0, 2>>>>, {}, {1}, FALSE, 0, <<9, 9>>),
     Mission(<<<<6, 2>>, <<0, 0>>, <<8, 0>>, <<8, 2>>, <<0, 2>>>>, {}, {1, 4}, FALSE, 0, <<9, 9>>),
     \* the loop of a patrol, joined from a HOME beside it
     Mission(<<<<0, 6>>, <<0, 0>>, <<3, 0>>, <<3, 6>>>>, {3}, {}, TRUE, 2, <<1, -1>>)}

\* Samples of paths (the cells the offsets reach), costmaps, parameters.
SamplePaths == {<<{1}, {2}, {3}>>, <<{1, 2}, {4}, {2, 3}>>}
SampleMaps == {<<0, 1, 1>>, <<1, 0, 1>>, <<1, 0, 2>>, <<0, 0, 0>>}
SampleSettings ==
    {[enabled |-> TRUE, run |-> 2, reach |-> 3], [enabled |-> TRUE, run |-> 1, reach |-> 2],
     [enabled |-> FALSE, run |-> 1, reach |-> 2]}

\* Arguments a user gives to a launch file.
UserChoices ==
    {<<"enable_lidar_obstacle_filter", "True">>, <<"enable_scan_ground_filter", "False">>,
     <<"enable_scan_ground_filter", "1">>, <<"enable_scan_noise_filter", "False">>,
     <<"scan_noise_filter_output", "/scan">>, <<"use_keepout", "true">>, <<"use_keepout", "False">>,
     <<"launch_web_app", "False">>, <<"enable_rtk", "False">>, <<"enable_gps_course_heading", "1">>,
     <<"gps_course_heading_require_rtk", "False">>, <<"enable_compass_heading", "true">>,
     <<"enable_compass_heading_fusion", "true">>, <<"enable_sim_compass", "true">>,
     <<"datum_setter", "true">>, <<"enable_nav_trace", "False">>,
     <<"enable_scan_wifi_debug", "False">>, <<"telemetry_backend", "pixhawk_driver">>,
     <<"telemetry_backend", "gps">>, <<"realism_mode", "False">>,
     <<"use_joint_state_bridge", "true">>, <<"sim_localization_profile", "yaw">>}

Page   == INSTANCE RouteView
Launch == INSTANCE LaunchPlan

NInit ==
    /\ node \in {"battery", "walk", "rtk", "zones", "lock", "parser", "profile", "datum",
                "clearance", "page", "gateway", "power", "course", "compass", "launch"}
    /\ Init /\ WalkInit /\ ZonesInit /\ LockInit /\ ParserInit
    /\ ProfileInit /\ DatumInit /\ ClearanceInit
    /\ PowerInit /\ CourseInit /\ CompassInit
    /\ IF node = "rtk" THEN RtkInit ELSE RtkEnded
    /\ IF node = "page" THEN Page!Init ELSE Page!Ended
    /\ IF node = "gateway" THEN GateInit ELSE GateEnded
    /\ IF node = "launch" THEN Launch!Init ELSE Launch!Ended
    /\ node # "walk" => mission = CHOOSE m \in Missions : TRUE
    /\ node # "walk" => robot = <<0, 0>> /\ ~posed
    /\ node # "zones" => file = {}
    /\ node # "clearance" => settings = CHOOSE s \in Settings : TRUE

NNext ==
    /\ UNCHANGED node
    /\ \/ node = "battery" /\ Next
          /\ UNCHANGED <<walk, rtk, zones, lock, parser, profile, dvars, clearance, page,
                         gate, power, course, compass, launch>>
       \/ node = "walk" /\ WalkNext
          /\ UNCHANGED <<battery, rtk, zones, lock, parser, profile, dvars, clearance, page,
                         gate, power, course, compass, launch>>
       \/ node = "rtk" /\ RtkNext
          /\ UNCHANGED <<battery, walk, zones, lock, parser, profile, dvars, clearance, page,
                         gate, power, course, compass, launch>>
       \/ node = "zones" /\ ZonesNext
          /\ UNCHANGED <<battery, walk, rtk, lock, parser, profile, dvars, clearance, page,
                         gate, power, course, compass, launch>>
       \/ node = "lock" /\ LockNext
          /\ UNCHANGED <<battery, walk, rtk, zones, parser, profile, dvars, clearance, page,
                         gate, power, course, compass, launch>>
       \/ node = "parser" /\ ParserNext
          /\ UNCHANGED <<battery, walk, rtk, zones, lock, profile, dvars, clearance, page,
                         gate, power, course, compass, launch>>
       \/ node = "profile" /\ ProfileNext
          /\ UNCHANGED <<battery, walk, rtk, zones, lock, parser, dvars, clearance, page,
                         gate, power, course, compass, launch>>
       \/ node = "datum" /\ DatumNext
          /\ UNCHANGED <<battery, walk, rtk, zones, lock, parser, profile, clearance, page,
                         gate, power, course, compass, launch>>
       \/ node = "clearance" /\ ClearanceNext
          /\ UNCHANGED <<battery, walk, rtk, zones, lock, parser, profile, dvars, page,
                         gate, power, course, compass, launch>>
       \/ node = "page" /\ Page!Next
          /\ UNCHANGED <<battery, walk, rtk, zones, lock, parser, profile, dvars, clearance,
                         gate, power, course, compass, launch>>
       \/ node = "gateway" /\ GateNext
          /\ UNCHANGED <<battery, walk, rtk, zones, lock, parser, profile, dvars, clearance,
                         page, power, course, compass, launch>>
       \/ node = "power" /\ PowerNext
          /\ UNCHANGED <<battery, walk, rtk, zones, lock, parser, profile, dvars, clearance,
                         page, gate, course, compass, launch>>
       \/ node = "course" /\ CourseNext
          /\ UNCHANGED <<battery, walk, rtk, zones, lock, parser, profile, dvars, clearance,
                         page, gate, power, compass, launch>>
       \/ node = "compass" /\ CompassNext
          /\ UNCHANGED <<battery, walk, rtk, zones, lock, parser, profile, dvars, clearance,
                         page, gate, power, course, launch>>
       \/ node = "launch" /\ Launch!Next
          /\ UNCHANGED <<battery, walk, rtk, zones, lock, parser, profile, dvars, clearance,
                         page, gate, power, course, compass>>

NSpec == NInit /\ [][NNext]_nvars /\ WalkFairness /\ RtkFairness /\ Page!Fairness /\ GateFairness

(* The properties of the nodes, stated in their modules.  Those of the     *)
(* modules this one extends come by their own names.                       *)
ViewCatchesUp == Page!ViewCatchesUp
OneOfEach     == Launch!OneOfEach
NeedsAreMet   == Launch!NeedsAreMet
=============================================================================
