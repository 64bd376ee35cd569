---------------------------- MODULE LaunchShared ----------------------------
(* Launch files that other launch files include.  For each file: Args,     *)
(* the configuration after its arguments are declared (an argument already *)
(* set keeps its value; only arguments that decide a program or a wire are *)
(* kept), and Body, its entities in order.                                 *)
EXTENDS LaunchPrograms, Sequences, TLC

\* Entities: programs, an included file with its arguments, the same after a delay, an exception.
Start(programs)      == [do |-> "start", programs |-> programs, file |-> "", args |-> <<>>]
Include(file, args)  == [do |-> "include", programs |-> {}, file |-> file, args |-> args]
Later(file, args)    == [do |-> "later", programs |-> {}, file |-> file, args |-> args]
Raise                == [do |-> "raise", programs |-> {}, file |-> "", args |-> <<>>]
Nothing              == Start({})
If(condition, entity)    == IF condition THEN entity ELSE Nothing
When(condition, program) == IF condition THEN {program} ELSE {}

\* IfCondition, and .lower() in ('true', '1').
On(value) == value \in {"True", "true", "1"}
\* .lower() == 'true'.
IsTrue(value) == value \in {"True", "true"}
Text(condition) == IF condition THEN "true" ELSE "false"

(* sensores: mavros, rs16, camara.                                         *)

MavrosArgs(c) ==
    c @@ [launch_web |-> "false", launch_legacy_compat |-> "true", enable_rtk |-> "false",
          enable_rtk_source_manager |-> "false", rtk_status_topic |-> "/gps/rtk_status",
          gps_topic |-> "/global_position/raw/fix"]
RtkPrograms(c) ==
    LET managed == On(c.enable_rtk_source_manager)
    IN  When(On(c.enable_rtk) /\ managed, RtkSourceManager)
        \cup When(On(c.enable_rtk) /\ managed, RtkBridge(c.gps_topic, c.rtk_status_topic, {"/rtcm"}))
        \cup When(On(c.enable_rtk) /\ ~managed, RtkBridge(c.gps_topic, c.rtk_status_topic, {}))
MavrosBody(c) ==
    <<Start({MavrosNode}
            \cup When(On(c.launch_legacy_compat), MavrosCompatBridge)
            \cup When(On(c.launch_web), SensoresWeb)
            \cup RtkPrograms(c))>>

Rs16Args(c) == c @@ [rviz |-> "false"]
Rs16Body(c) == <<Start({Rslidar} \cup When(On(c.rviz), Rviz))>>

CamaraBody == <<Start({Camara})>>

(* Localization.                                                           *)

LocalizationArgs(c) == c @@ [imu_topic |-> "/imu/data"]
LocalizationBody(c) == <<Start({AckermannOdometry, LocalEkf(c.imu_topic)})>>

GlobalLocalizationArgs(c) ==
    c @@ [imu_topic |-> "/imu/data", gps_topic |-> "/global_position/raw/fix",
          enable_global_odom_stationary_gate |-> "true",
          enable_global_imu_stationary_gate |-> "true",
          enable_global_stationary_yaw_hold |-> "true",
          enable_map_gps_absolute_measurement |-> "false",
          map_gps_absolute_topic |-> "/gps/odometry_map",
          enable_gps_course_heading |-> "false",
          compass_heading_topic |-> "/imu/compass_heading",
          enable_compass_heading_fusion |-> "false", enable_compass_initial_guess |-> "false",
          datum_setter |-> "false"]
\* The measurements the filter of the map frame is configured with.
MapEkfInputs(c) ==
    {IF IsTrue(c.enable_global_odom_stationary_gate) THEN "/odometry/local_global"
                                                     ELSE "/odometry/local",
     IF IsTrue(c.enable_global_imu_stationary_gate) THEN "/imu/data_global" ELSE c.imu_topic,
     IF IsTrue(c.enable_map_gps_absolute_measurement) THEN c.map_gps_absolute_topic
                                                      ELSE "/odometry/gps"}
    \cup When(IsTrue(c.enable_global_stationary_yaw_hold), "/odometry/local_yaw_hold")
    \cup When(IsTrue(c.enable_gps_course_heading), "/gps/course_heading")
    \cup When(IsTrue(c.enable_compass_heading_fusion) \/ IsTrue(c.enable_compass_initial_guess),
              c.compass_heading_topic)
Gates(c) ==
    When(IsTrue(c.enable_global_odom_stationary_gate), GlobalOdomGate("/odometry/local_global"))
    \cup When(IsTrue(c.enable_global_imu_stationary_gate),
              GlobalImuGate(c.imu_topic, "/imu/data_global"))
    \cup When(IsTrue(c.enable_global_stationary_yaw_hold),
              GlobalYawHold("/odometry/local_yaw_hold"))
MapPrograms(c) ==
    When(IsTrue(c.enable_map_gps_absolute_measurement),
         MapGpsMeasurement(c.gps_topic, c.map_gps_absolute_topic))
    \cup {MapEkf(MapEkfInputs(c)), NavsatTransform(c.imu_topic, c.gps_topic)}
    \cup When(IsTrue(c.datum_setter), SetterOfDatum(c.gps_topic))
GlobalLocalizationBody(c) ==
    <<Include("localization_v2", [imu_topic |-> c.imu_topic]),
      Start(Gates(c) \cup MapPrograms(c))>>

(* Navigation.                                                             *)

KeepoutBody ==
    <<Start({KeepoutMaskServer, KeepoutInfoServer,
             LifecycleManager("lifecycle_manager_keepout_filters")})>>

\* What the costmaps read besides the scan: the filter only if use_keepout is spelled "True".
CostmapFilter(c) == When(c.use_keepout = "True", "/costmap_filter_info")

\* The service the behaviour trees call to have a path checked.
PathCheck == {"/path_clearance_validator/is_path_clearance_valid"}

NavGlobalArgs(c) == c @@ [use_keepout |-> "True", lidar_scan_topic |-> "/scan"]
NavGlobalNav2(c) ==
    {PlannerServer(c.lidar_scan_topic, CostmapFilter(c) \cup {"/tf map"}),
     ControllerOfNav2(c.lidar_scan_topic, CostmapFilter(c)),
     SmootherServer, BtNavigator(PathCheck), PathClearanceValidator, BehaviorServer,
     WaypointFollower}
NavGlobalMonitor(c) ==
    {CollisionMonitor(c.lidar_scan_topic),
     PolygonRepublisher("stop_zone_republisher", "/stop_zone_raw", "/stop_zone"),
     PolygonRepublisher("critical_slow_zone_republisher", "/critical_slow_zone_raw",
                        "/critical_slow_zone"),
     PolygonRepublisher("slow_zone_republisher", "/slow_zone_raw", "/slow_zone"),
     LifecycleManager("lifecycle_manager_global_navigation_v2"),
     LifecycleManager("collision_monitor_lifecycle_manager_global_v2")}
NavGlobalBody(c) ==
    <<If(On(c.use_keepout), Include("keepout_filters_v2", <<>>)),
      Start(NavGlobalNav2(c) \cup NavGlobalMonitor(c))>>

NavLocalArgs(c) == c @@ [use_keepout |-> "True"]
NavLocalNav2(c) ==
    {PlannerServer("/scan", CostmapFilter(c)), ControllerOfNav2("/scan", CostmapFilter(c)),
     SmootherServer, BtNavigator(PathCheck), BehaviorServer, WaypointFollower}
NavLocalMonitor ==
    {CollisionMonitor("/scan"),
     PolygonRepublisher("stop_zone_republisher", "/stop_zone_raw", "/stop_zone"),
     LifecycleManager("lifecycle_manager_local_navigation_v2"),
     LifecycleManager("collision_monitor_lifecycle_manager_local_v2")}
NavLocalBody(c) ==
    <<If(On(c.use_keepout), Include("keepout_filters_v2", <<>>)),
      Start(NavLocalNav2(c) \cup NavLocalMonitor)>>

(* map_tools: the web backend and the servers it works with.               *)

NoGoArgs(c) ==
    c @@ [gps_topic |-> "/gps/fix", odom_topic |-> "/odometry/local",
          launch_zones_manager |-> "true", launch_nav_command_server |-> "true",
          launch_nav_snapshot_server |-> "true", launch_route_executor |-> "true",
          nav_snapshot_scan_topic |-> "/scan"]
NoGoServers(c) ==
    When(On(c.launch_zones_manager), ZonesManager)
    \cup When(On(c.launch_nav_command_server), NavCommandServer(c.gps_topic))
    \cup When(On(c.launch_nav_snapshot_server), NavSnapshotServer(c.nav_snapshot_scan_topic))
    \cup When(On(c.launch_route_executor), RouteExecutor)
NoGoBody(c) == <<Start(NoGoServers(c) \cup {WebZoneServer(c.gps_topic, c.odom_topic)})>>
=============================================================================
