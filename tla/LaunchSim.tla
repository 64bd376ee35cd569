------------------------------ MODULE LaunchSim -----------------------------
(* The launch files of the simulation: sim_v2_base, sim_global_v2, its     *)
(* Wi-Fi variant and sim_local_v2.                                         *)
EXTENDS LaunchReal

(* sim_v2_base.launch.py: Gazebo, its bridges, the robot and the lidar.    *)

SimBaseArgs(c) ==
    c @@ [enable_scan_ground_filter |-> "False", enable_lidar_obstacle_filter |-> "False"]
SimBridges == {GazeboBridge, JointStateBridge}
SpawnRobot == {RobotStatePublisher, Spawn}
SimScanPipeline(c) ==
    IF On(c.enable_scan_ground_filter) /\ On(c.enable_lidar_obstacle_filter) THEN Raise
    ELSE IF On(c.enable_lidar_obstacle_filter) THEN Start({LidarObstacleFilter("/scan")})
    ELSE Start(GroundPipeline(c))
SimBaseBody(c) == <<Start({Gazebo} \cup SimBridges \cup SpawnRobot), SimScanPipeline(c)>>

(* sim_global_v2.launch.py                                                 *)

SimHeadingArgs ==
    [datum_setter |-> "false", enable_map_gps_absolute_measurement |-> "true",
     map_gps_absolute_topic |-> "/gps/odometry_map", enable_gps_course_heading |-> "true",
     gps_course_heading_require_rtk |-> "True", gps_rtk_status_topic |-> "/gps/rtk_status",
     enable_sim_compass |-> "false", sim_compass_hdg_topic |-> "/sim/compass_hdg",
     enable_compass_heading |-> "false", enable_compass_initial_guess |-> "false",
     compass_hdg_topic |-> "/mavros_node/compass_hdg",
     compass_heading_topic |-> "/imu/compass_heading",
     compass_heading_debug_topic |-> "/imu/compass_heading/debug",
     enable_compass_heading_fusion |-> "false"]
SimScanArgs ==
    [launch_web_app |-> "True", lidar_scan_topic |-> "/scan_filtered",
     enable_lidar_obstacle_filter |-> "False", enable_scan_noise_filter |-> "True",
     scan_noise_filter_output |-> "/scan_clean"]

\* Unlike EffectiveScan of the robot's file, "1" does not switch a filter on.
SimEffectiveScan(c) ==
    IF IsTrue(c.enable_lidar_obstacle_filter) THEN c.lidar_scan_topic
    ELSE IF IsTrue(c.enable_scan_noise_filter) THEN c.scan_noise_filter_output ELSE "/scan"
SimNoiseFiltered(c) ==
    IsTrue(c.enable_scan_noise_filter) /\ ~IsTrue(c.enable_lidar_obstacle_filter)
SimCompassTopic(c) ==
    IF IsTrue(c.enable_sim_compass) THEN c.sim_compass_hdg_topic ELSE c.compass_hdg_topic
SimCompassAsked(c) ==
    IsTrue(c.enable_compass_heading) \/ IsTrue(c.enable_compass_initial_guess)

\* An argument's default may depend on those declared before it.
SimGlobalArgs(c) ==
    LET d == c @@ [enable_nav_trace |-> "True", use_keepout |-> "True"]
               @@ SimHeadingArgs @@ SimScanArgs
    IN  d @@ [nav_snapshot_scan_topic |-> SimEffectiveScan(d),
              enable_scan_ground_filter |-> "False"]

SimSensors(c) ==
    {SimSensorNormalizer(c.gps_rtk_status_topic)}
    \cup When(On(c.enable_sim_compass), SimCompass(c.sim_compass_hdg_topic))
    \cup When(SimCompassAsked(c),
              CompassHeadingGate(SimCompassTopic(c), c.compass_heading_topic,
                                 c.compass_heading_debug_topic))
SimScans(c) ==
    When(SimNoiseFiltered(c), ScanNoiseFilter(c.scan_noise_filter_output))
    \cup When(On(c.enable_lidar_obstacle_filter), LidarObstacleFilter(c.lidar_scan_topic))
SimMission(c) ==
    {ControllerServer(GazeboBackend), NavCommandServer("/gps/fix"), RouteExecutor,
     NavObservability}
    \cup When(On(c.enable_nav_trace), NavTraceRecorder)
SimCourse(c) ==
    When(On(c.enable_gps_course_heading),
         GpsCourseHeading("/gps/fix",
                          When(On(c.gps_course_heading_require_rtk), c.gps_rtk_status_topic)))
SimLocalization(c) ==
    Include("localization_global_v2",
            [imu_topic |-> "/imu/data", gps_topic |-> "/gps/fix",
             enable_map_gps_absolute_measurement |-> c.enable_map_gps_absolute_measurement,
             map_gps_absolute_topic |-> c.map_gps_absolute_topic,
             enable_gps_course_heading |-> c.enable_gps_course_heading,
             compass_heading_topic |-> c.compass_heading_topic,
             enable_compass_initial_guess |-> c.enable_compass_initial_guess,
             enable_compass_heading_fusion |-> c.enable_compass_heading_fusion,
             datum_setter |-> c.datum_setter])
SimNavigation(c) ==
    <<Later("nav_global_v2", [use_keepout |-> c.use_keepout,
                              lidar_scan_topic |-> SimEffectiveScan(c)]),
      If(On(c.launch_web_app),
         Include("no_go_editor",
                 [gps_topic |-> "/gps/fix", odom_topic |-> "/odometry/global",
                  launch_nav_command_server |-> "false", launch_route_executor |-> "false",
                  nav_snapshot_scan_topic |-> c.nav_snapshot_scan_topic]))>>
SimGlobalBody(c) ==
    <<Start(SimSensors(c)),
      Include("sim_v2_base", [enable_scan_ground_filter |-> c.enable_scan_ground_filter]),
      Start(SimScans(c) \cup SimMission(c) \cup SimCourse(c)),
      SimLocalization(c)>>
    \o SimNavigation(c)

(* sim_global_v2_wifi.launch.py: passes its arguments on, then starts the  *)
(* reduced scan.                                                           *)

SimWifiSnapshotScan(c) ==
    IF IsTrue(c.enable_scan_wifi_debug) THEN c.scan_wifi_debug_topic ELSE SimEffectiveScan(c)
SimWifiArgs(c) ==
    c @@ [use_keepout |-> "True", enable_scan_wifi_debug |-> "True",
          scan_wifi_debug_topic |-> "/scan_wifi_debug", enable_scan_ground_filter |-> "True"]
      @@ SimHeadingArgs @@ SimScanArgs
SimWifiPassed(c) ==
    [use_keepout |-> c.use_keepout, datum_setter |-> c.datum_setter,
     enable_map_gps_absolute_measurement |-> c.enable_map_gps_absolute_measurement,
     map_gps_absolute_topic |-> c.map_gps_absolute_topic,
     enable_gps_course_heading |-> c.enable_gps_course_heading,
     gps_course_heading_require_rtk |-> c.gps_course_heading_require_rtk,
     gps_rtk_status_topic |-> c.gps_rtk_status_topic,
     enable_sim_compass |-> c.enable_sim_compass,
     sim_compass_hdg_topic |-> c.sim_compass_hdg_topic,
     enable_compass_heading |-> c.enable_compass_heading,
     enable_compass_initial_guess |-> c.enable_compass_initial_guess,
     compass_hdg_topic |-> c.compass_hdg_topic,
     compass_heading_topic |-> c.compass_heading_topic,
     compass_heading_debug_topic |-> c.compass_heading_debug_topic,
     enable_compass_heading_fusion |-> c.enable_compass_heading_fusion,
     launch_web_app |-> c.launch_web_app,
     nav_snapshot_scan_topic |-> SimWifiSnapshotScan(c),
     enable_lidar_obstacle_filter |-> c.enable_lidar_obstacle_filter,
     enable_scan_ground_filter |-> c.enable_scan_ground_filter,
     lidar_scan_topic |-> c.lidar_scan_topic,
     enable_scan_noise_filter |-> c.enable_scan_noise_filter,
     scan_noise_filter_output |-> c.scan_noise_filter_output]
SimWifiDebug(c) ==
    Start(When(On(c.enable_scan_wifi_debug),
               ScanWifiDebug(SimEffectiveScan(c), c.scan_wifi_debug_topic)))
SimWifiBody(c) == <<Include("sim_global_v2", SimWifiPassed(c)), SimWifiDebug(c)>>

(* sim_local_v2.launch.py                                                  *)

SimLocalArgs(c) ==
    c @@ [use_keepout |-> "True", use_rviz |-> "True", enable_scan_ground_filter |-> "False",
          enable_lidar_obstacle_filter |-> "False"]
SimLocalCommand == {ControllerServer(GazeboBackend), NavCommandServer("/gps/fix")}
SimLocalBody(c) ==
    <<Start({SimSensorNormalizer("/gps/rtk_status")}),
      Include("sim_v2_base",
              [enable_scan_ground_filter |-> c.enable_scan_ground_filter,
               enable_lidar_obstacle_filter |-> c.enable_lidar_obstacle_filter]),
      Start(SimLocalCommand),
      Include("localization_v2", <<>>),
      Later("nav_local_v2", [use_keepout |-> c.use_keepout]),
      Start(When(On(c.use_rviz), Rviz))>>
=============================================================================
