----------------------------- MODULE LaunchPlan -----------------------------
(* What a launch file starts.  The launch system (external) visits the     *)
(* entities of a file in order with one configuration: an argument that is *)
(* declared keeps the value it has, the arguments of an included file are  *)
(* set in the same configuration and stay set after it, and what a file    *)
(* declares is visible to the files after it, unless the include has a     *)
(* scope.  Delayed entities follow when all others have been visited; an   *)
(* exception ends everything.                                              *)
EXTENDS LaunchLegacy, Naturals, Functions

CONSTANTS
    Stacks,      \* launch files a user starts
    UserChoices, \* <<argument, value>> pairs a user may give
    MaxAsked     \* bound: arguments given at once

VARIABLES
    stack,       \* the file started
    conf,        \* the launch configuration
    pending,        \* entities still to visit, <<file, index>>
    delayed,     \* entities of TimerActions that have not fired
    started,     \* programs running, with the entity that started them
    outer,       \* the configuration to go back to after an include with a scope
    failed       \* an exception was raised

lvars == <<stack, conf, pending, delayed, started, outer, failed>>

\* The configuration once the arguments of a file are declared, and the file's entities.
Declared(file, c) ==
    CASE file = "real_global_v2"         -> RealGlobalArgs(c)
      [] file = "real_global_v2_wifi"    -> RealWifiArgs(c)
      [] file = "real_local_v2"          -> RealLocalArgs(c)
      [] file = "sim_global_v2"          -> SimGlobalArgs(c)
      [] file = "sim_global_v2_wifi"     -> SimWifiArgs(c)
      [] file = "sim_local_v2"           -> SimLocalArgs(c)
      [] file = "sim_v2_base"            -> SimBaseArgs(c)
      [] file = "mavros"                 -> MavrosArgs(c)
      [] file = "rs16"                   -> Rs16Args(c)
      [] file = "localization_v2"        -> LocalizationArgs(c)
      [] file = "localization_global_v2" -> GlobalLocalizationArgs(c)
      [] file = "nav_global_v2"          -> NavGlobalArgs(c)
      [] file = "nav_local_v2"           -> NavLocalArgs(c)
      [] file = "no_go_editor"           -> NoGoArgs(c)
      [] file = "pixhawk"                -> PixhawkArgs(c)
      [] file = "nav2_only"              -> NavOnlyArgs(c)
      [] file = "real"                   -> RealArgs(c)
      [] file = "simulacion"             -> SimulacionArgs(c)
      [] OTHER                           -> c
Body(file, c) ==
    CASE file = "real_global_v2"         -> RealGlobalBody(c)
      [] file = "real_global_v2_wifi"    -> RealWifiBody(c)
      [] file = "real_local_v2"          -> RealLocalBody(c)
      [] file = "sim_global_v2"          -> SimGlobalBody(c)
      [] file = "sim_global_v2_wifi"     -> SimWifiBody(c)
      [] file = "sim_local_v2"           -> SimLocalBody(c)
      [] file = "sim_v2_base"            -> SimBaseBody(c)
      [] file = "mavros"                 -> MavrosBody(c)
      [] file = "rs16"                   -> Rs16Body(c)
      [] file = "camara"                 -> CamaraBody
      [] file = "localization_v2"        -> LocalizationBody(c)
      [] file = "localization_global_v2" -> GlobalLocalizationBody(c)
      [] file = "keepout_filters_v2"     -> KeepoutBody
      [] file = "nav_global_v2"          -> NavGlobalBody(c)
      [] file = "nav_local_v2"           -> NavLocalBody(c)
      [] file = "no_go_editor"           -> NoGoBody(c)
      [] file = "pixhawk"                -> PixhawkBody(c)
      [] file = "nav2_only"              -> NavOnlyBody(c)
      [] file = "real"                   -> RealBody(c)
      [] file = "simulacion"             -> SimulacionBody(c)
Entities(file, c) == [i \in 1..Len(Body(file, c)) |-> <<file, i>>]

Init ==
    /\ stack \in Stacks
    /\ \E n \in 0..MaxAsked : \E asked \in [1..n -> UserChoices] :
          /\ \A i \in 1..n : asked[i][1] \in DOMAIN Declared(stack, <<>>)
          /\ \A i, j \in 1..n : asked[i][1] = asked[j][1] => i = j
          /\ conf = Declared(stack, [name \in {asked[i][1] : i \in 1..n} |->
                                        (CHOOSE a \in Range(asked) : a[1] = name)[2]])
    /\ pending = Entities(stack, conf)
    /\ delayed = <<>>
    /\ started = {}
    /\ outer = <<>>
    /\ failed = FALSE

\* Nothing is started.
Ended ==
    /\ stack = CHOOSE file \in Stacks : TRUE
    /\ conf = <<>> /\ pending = <<>> /\ delayed = <<>> /\ started = {}
    /\ outer = <<>> /\ failed = FALSE

EndOfScope == <<"end of scope", 0>>
Entity(at) ==
    IF at = EndOfScope THEN [do |-> "leave"] ELSE Body(at[1], conf)[at[2]]

StartPrograms ==
    /\ pending # <<>>
    /\ Entity(Head(pending)).do = "start"
    /\ started' = started \cup {[by |-> Head(pending), program |-> p] :
                                   p \in Entity(Head(pending)).programs}
    /\ pending' = Tail(pending)
    /\ UNCHANGED <<stack, conf, delayed, outer, failed>>

IncludeFile(entity, rest) ==
    /\ conf' = Declared(entity.file, entity.args @@ conf)
    /\ pending' = Entities(entity.file, conf') \o rest
    /\ UNCHANGED <<stack, started, outer, failed>>
VisitInclude ==
    /\ pending # <<>>
    /\ Entity(Head(pending)).do = "include"
    /\ IncludeFile(Entity(Head(pending)), Tail(pending))
    /\ UNCHANGED delayed

\* The scope ends with the entities of the file.
VisitScope ==
    /\ pending # <<>>
    /\ Entity(Head(pending)).do = "scoped"
    /\ outer' = conf
    /\ LET entity == Entity(Head(pending))
       IN  /\ conf' = Declared(entity.file, entity.args @@ conf)
           /\ pending' = Entities(entity.file, conf') \o <<EndOfScope>> \o Tail(pending)
    /\ UNCHANGED <<stack, delayed, started, failed>>

LeaveScope ==
    /\ pending # <<>>
    /\ Entity(Head(pending)).do = "leave"
    /\ conf' = outer
    /\ outer' = <<>>
    /\ pending' = Tail(pending)
    /\ UNCHANGED <<stack, delayed, started, failed>>

VisitTimer ==
    /\ pending # <<>>
    /\ Entity(Head(pending)).do = "later"
    /\ delayed' = Append(delayed, Head(pending))
    /\ pending' = Tail(pending)
    /\ UNCHANGED <<stack, conf, started, outer, failed>>

\* The arguments of a delayed include are evaluated when the timer fires.
TimerFires ==
    /\ pending = <<>>
    /\ delayed # <<>>
    /\ IncludeFile(Entity(Head(delayed)), <<>>)
    /\ delayed' = Tail(delayed)

VisitRaise ==
    /\ pending # <<>>
    /\ Entity(Head(pending)).do = "raise"
    /\ failed' = TRUE
    /\ started' = {}
    /\ pending' = <<>>
    /\ delayed' = <<>>
    /\ UNCHANGED <<stack, conf, outer>>

Next ==
    \/ StartPrograms \/ VisitInclude \/ VisitScope \/ LeaveScope \/ VisitTimer
    \/ TimerFires \/ VisitRaise

Spec == Init /\ [][Next]_lvars

Up == pending = <<>> /\ delayed = <<>> /\ ~failed

Given == UNION {s.program.gives : s \in started}

(* Programs that share a wire or a name by design: Nav2's controller and   *)
(* behaviours drive in turn, events are a common log, RTK sources are      *)
(* chosen on two pages, the bridges of Gazebo have no name.                *)
Common == {"/cmd_vel", "/nav_command_server/events", "/navigation_trace/events",
           "/gps/rtk_source/select", "/gps/rtk_source/manage_json"}
Nameless == {"parameter_bridge"}


(* No two programs of one name, and no wire with two sources, whatever     *)
(* arguments are given.  Two choices break it (README, "Disagreements"):   *)
(* in sim_global_v2 the noise filter may write its own input, and the      *)
(* obstacle filter is started again by sim_v2_base.                        *)
Clash ==
    /\ stack \in {"sim_global_v2", "sim_global_v2_wifi"}
    /\ \/ On(conf.enable_lidar_obstacle_filter)
       \/ conf.scan_noise_filter_output \in {"/scan", "/scan_3d"}
OneOfEach ==
    ~Clash =>
        \A s, t \in started : s # t =>
            /\ s.program.name = t.program.name => s.program.name \in Nameless
            /\ s.program.gives \cap t.program.gives \subseteq Common

(* Once a stack is up, every wire a program cannot do without has a        *)
(* source, except the gaps the files are known to leave (README,           *)
(* "Disagreements").                                                       *)

\* real_local_v2 and sim_local_v2: no global positions, no validator of paths.
LocalGaps ==
    {"/fromLL", "/path_clearance_validator/is_path_clearance_valid"}
    \cup (IF stack = "real_local_v2"
          THEN {"/gps/fix", "/zones_manager/set_geojson", "/zones_manager/get_state",
                "/zones_manager/reload_from_disk", "/nav_snapshot_server/get_nav_snapshot"}
          ELSE {})
\* real and simulacion: no validator, no battery, and real watches ultrasounds of the simulation.
OldGaps ==
    {"/path_clearance_validator/is_path_clearance_valid", "/scan_ground_filter/set_parameters",
     "/battery_state", "/battery_mission_guard"}
    \cup (IF stack = "real" THEN Ultrasounds ELSE {})
\* The map filter may be told to use a compass that is not started, the gate one that is not there.
CompassGaps ==
    When(~CompassAsked(conf), conf.compass_heading_topic)
    \cup When(stack \in {"sim_global_v2", "sim_global_v2_wifi"} /\ ~On(conf.enable_sim_compass),
              conf.compass_hdg_topic)
\* "1" starts the course heading but does not bring RTK with it.
CourseGaps ==
    IF stack \in {"real_global_v2", "real_global_v2_wifi"}
    THEN When(conf.enable_gps_course_heading = "1" /\ ~On(conf.enable_rtk),
              conf.gps_rtk_status_topic)
    ELSE {}
FilterGaps ==
    When(~On(conf.use_keepout), "/keepout_filter_mask_server/load_map")
    \cup When(~On(conf.enable_scan_ground_filter), "/scan_ground_filter/set_parameters")
Gaps ==
    CASE stack \in {"real_local_v2", "sim_local_v2"} -> LocalGaps \cup FilterGaps
      [] stack \in {"real", "simulacion"}            -> OldGaps
      [] OTHER                                       -> CompassGaps \cup CourseGaps \cup FilterGaps
NeedsAreMet ==
    Up => \A s \in started : s.program.needs \subseteq Given \cup Gaps
=============================================================================
