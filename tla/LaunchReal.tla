----------------------------- MODULE LaunchReal -----------------------------
(* The launch files of the robot: real_global_v2, its Wi-Fi variant and    *)
(* real_local_v2.                                                          *)
EXTENDS LaunchShared

(* real_global_v2.launch.py                                                *)

RealScanArgs ==
    [enable_lidar_obstacle_filter |-> "False", enable_scan_ground_filter |-> "True",
     lidar_scan_topic |-> "/scan_filtered", enable_scan_noise_filter |-> "True",
     scan_noise_filter_output |-> "/scan_clean"]
RealHeadingArgs ==
    [enable_map_gps_absolute_measurement |-> "True",
     map_gps_absolute_topic |-> "/gps/odometry_map", enable_gps_course_heading |-> "True",
     gps_course_heading_require_rtk |-> "True",
     gps_rtk_status_topic |-> "/gps/rtk_status_mavros", enable_compass_heading |-> "false",
     enable_compass_initial_guess |-> "false",
     compass_hdg_topic |-> "/mavros_node/compass_hdg",
     compass_heading_topic |-> "/imu/compass_heading",
     compass_heading_debug_topic |-> "/imu/compass_heading/debug",
     enable_compass_heading_fusion |-> "false"]
RealGlobalArgs(c) ==
    c @@ [enable_rtk |-> "True", enable_rtk_source_manager |-> "true", use_keepout |-> "False",
          launch_web_app |-> "True", launch_camera |-> "True", use_rviz |-> "False",
          enable_scan_wifi_debug |-> "True", scan_wifi_debug_topic |-> "/scan_wifi_debug"]
      @@ RealScanArgs @@ RealHeadingArgs

\* The course heading needs RTK though the user did not ask for it.
EffectiveRtk(c) ==
    Text(IsTrue(c.enable_rtk)
         \/ (IsTrue(c.enable_gps_course_heading) /\ IsTrue(c.gps_course_heading_require_rtk)))
\* Variant: the obstacle filter is forgotten.
ScanWithoutObstacles(c) ==
    IF On(c.enable_scan_noise_filter) THEN c.scan_noise_filter_output ELSE "/scan"
EffectiveScan(c) ==
    IF On(c.enable_lidar_obstacle_filter) THEN c.lidar_scan_topic
    ELSE IF On(c.enable_scan_noise_filter) THEN c.scan_noise_filter_output ELSE "/scan"
SnapshotScan(c) ==
    IF IsTrue(c.enable_scan_wifi_debug) THEN c.scan_wifi_debug_topic ELSE EffectiveScan(c)
CompassAsked(c) == IsTrue(c.enable_compass_heading) \/ IsTrue(c.enable_compass_initial_guess)
NoiseFiltered(c) == On(c.enable_scan_noise_filter) /\ ~On(c.enable_lidar_obstacle_filter)

\* Variant: a filter may write what it reads.
OnlyFiltersRefused(c) == On(c.enable_scan_ground_filter) /\ On(c.enable_lidar_obstacle_filter)
\* The two filters exclude each other; outputs may not be topics the pipeline gives itself.
PipelineRefused(c) ==
    \/ /\ On(c.enable_scan_ground_filter)
       /\ On(c.enable_lidar_obstacle_filter)
    \/ c.scan_noise_filter_output \in {"/scan", "/scan_3d", "/scan_3d/no_ground"}
    \/ c.lidar_scan_topic \in {"/scan_3d", "/scan_3d/no_ground"}
GroundPipeline(c) ==
    IF On(c.enable_scan_ground_filter)
    THEN {ScanGroundFilter, PointcloudToLaserscan("/scan_3d/no_ground")}
    ELSE {PointcloudToLaserscan("/scan_3d")}
RealScanPipeline(c) ==
    IF PipelineRefused(c) THEN Raise
    ELSE IF On(c.enable_lidar_obstacle_filter) THEN Nothing ELSE Start(GroundPipeline(c))

RealDrivers(c) ==
    <<Start({RobotStatePublisher}),
      Include("mavros", [launch_web |-> c.launch_web_app, launch_legacy_compat |-> "false",
                         enable_rtk |-> EffectiveRtk(c),
                         enable_rtk_source_manager |-> c.enable_rtk_source_manager,
                         rtk_status_topic |-> c.gps_rtk_status_topic]),
      Include("rs16", <<>>),
      If(On(c.launch_camera), Include("camara", <<>>))>>
RealScans(c) ==
    When(NoiseFiltered(c), ScanNoiseFilter(c.scan_noise_filter_output))
    \cup When(On(c.enable_lidar_obstacle_filter), LidarObstacleFilter(c.lidar_scan_topic))
    \cup {ControllerServer(SerialBackend)}
    \cup When(On(c.enable_scan_wifi_debug),
              ScanWifiDebug(EffectiveScan(c), c.scan_wifi_debug_topic))
RealHeadings(c) ==
    When(On(c.enable_gps_course_heading),
         GpsCourseHeading("/global_position/raw/fix",
                          When(On(c.gps_course_heading_require_rtk), c.gps_rtk_status_topic)))
    \cup When(CompassAsked(c),
              CompassHeadingGate(c.compass_hdg_topic, c.compass_heading_topic,
                                 c.compass_heading_debug_topic))
RealMission == {NavCommandServer("/global_position/raw/fix"), RouteExecutor, NavObservability}
RealLocalization(c) ==
    Include("localization_global_v2",
            [imu_topic |-> "/imu/data", gps_topic |-> "/global_position/raw/fix",
             enable_map_gps_absolute_measurement |-> c.enable_map_gps_absolute_measurement,
             map_gps_absolute_topic |-> c.map_gps_absolute_topic,
             enable_gps_course_heading |-> c.enable_gps_course_heading,
             compass_heading_topic |-> c.compass_heading_topic,
             enable_compass_initial_guess |-> c.enable_compass_initial_guess,
             enable_compass_heading_fusion |-> c.enable_compass_heading_fusion,
             datum_setter |-> "false"])
RealNavigation(c) ==
    <<Later("nav_global_v2", [use_keepout |-> c.use_keepout,
                              lidar_scan_topic |-> EffectiveScan(c)]),
      If(On(c.launch_web_app),
         Include("no_go_editor",
                 [gps_topic |-> "/global_position/raw/fix", odom_topic |-> "/odometry/global",
                  launch_nav_command_server |-> "false", launch_route_executor |-> "false",
                  nav_snapshot_scan_topic |-> SnapshotScan(c)])),
      Start(When(On(c.use_rviz), Rviz))>>
RealGlobalBody(c) ==
    RealDrivers(c)
    \o <<RealScanPipeline(c), Start(RealScans(c) \cup RealHeadings(c) \cup RealMission),
         RealLocalization(c)>>
    \o RealNavigation(c)

(* real_global_v2_wifi.launch.py: every argument is passed on.             *)

RealWifiArgs(c) ==
    c @@ [enable_rtk |-> "True", enable_rtk_source_manager |-> "true", use_keepout |-> "False",
          launch_web_app |-> "True", enable_scan_wifi_debug |-> "True",
          scan_wifi_debug_topic |-> "/scan_wifi_debug"]
      @@ RealScanArgs @@ RealHeadingArgs
RealWifiPassed(c) ==
    [enable_rtk |-> c.enable_rtk, enable_rtk_source_manager |-> c.enable_rtk_source_manager,
     use_keepout |-> c.use_keepout, launch_web_app |-> c.launch_web_app, use_rviz |-> "false",
     enable_scan_wifi_debug |-> c.enable_scan_wifi_debug,
     scan_wifi_debug_topic |-> c.scan_wifi_debug_topic,
     enable_lidar_obstacle_filter |-> c.enable_lidar_obstacle_filter,
     enable_scan_ground_filter |-> c.enable_scan_ground_filter,
     lidar_scan_topic |-> c.lidar_scan_topic,
     enable_scan_noise_filter |-> c.enable_scan_noise_filter,
     scan_noise_filter_output |-> c.scan_noise_filter_output,
     enable_gps_course_heading |-> c.enable_gps_course_heading,
     gps_course_heading_require_rtk |-> c.gps_course_heading_require_rtk,
     gps_rtk_status_topic |-> c.gps_rtk_status_topic,
     enable_compass_heading |-> c.enable_compass_heading,
     enable_compass_initial_guess |-> c.enable_compass_initial_guess,
     compass_hdg_topic |-> c.compass_hdg_topic,
     compass_heading_topic |-> c.compass_heading_topic,
     compass_heading_debug_topic |-> c.compass_heading_debug_topic,
     enable_compass_heading_fusion |-> c.enable_compass_heading_fusion,
     enable_map_gps_absolute_measurement |-> c.enable_map_gps_absolute_measurement,
     map_gps_absolute_topic |-> c.map_gps_absolute_topic]
RealWifiBody(c) == <<Include("real_global_v2", RealWifiPassed(c))>>

(* real_local_v2.launch.py                                                 *)

RealLocalArgs(c) ==
    c @@ [enable_scan_ground_filter |-> "False", enable_lidar_obstacle_filter |-> "False",
          use_keepout |-> "True", launch_web_app |-> "True", use_rviz |-> "True"]
LocalScanPipeline(c) ==
    IF On(c.enable_scan_ground_filter) /\ On(c.enable_lidar_obstacle_filter) THEN Raise
    ELSE IF On(c.enable_lidar_obstacle_filter) THEN Start({LidarObstacleFilter("/scan")})
    ELSE Start(GroundPipeline(c))
RealLocalDrivers ==
    <<Start({RobotStatePublisher}),
      Include("mavros", [launch_web |-> "false", launch_legacy_compat |-> "false"]),
      Include("rs16", <<>>)>>
RealLocalCommand == {ControllerServer(SerialBackend), NavCommandServer("/gps/fix")}
RealLocalRest(c) ==
    <<Include("localization_v2", <<>>),
      Later("nav_local_v2", [use_keepout |-> c.use_keepout]),
      If(On(c.launch_web_app),
         Include("no_go_editor",
                 [launch_zones_manager |-> "false", launch_nav_command_server |-> "false",
                  launch_nav_snapshot_server |-> "false"])),
      Start(When(On(c.use_rviz), Rviz))>>
RealLocalBody(c) ==
    RealLocalDrivers \o <<LocalScanPipeline(c), Start(RealLocalCommand)>> \o RealLocalRest(c)
=============================================================================
