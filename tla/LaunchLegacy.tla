---------------------------- MODULE LaunchLegacy ----------------------------
(* The older launch files: nav2_only, real, simulacion and the sensores    *)
(* file of the Pixhawk driver.                                             *)
EXTENDS LaunchSim

\* An included file whose arguments do not outlive it.
Scoped(file, args) == [do |-> "scoped", programs |-> {}, file |-> file, args |-> args]

Ultrasounds == {"/ultrasound/rear_center", "/ultrasound/rear_left", "/ultrasound/rear_right",
                "/ultrasound/front_left", "/ultrasound/front_right"}
GazeboUtils(ultrasounds, drives) ==
    Program("gazebo_utils",
            {"/imu/data_raw", "/gps/fix_raw", "/scan_3d_raw", "/odom_raw"}
            \cup When(drives, "/cmd_vel_final"),
            {"/imu/data", "/gps/fix", "/gps/rtk_status", "/scan_3d", "/odom"}
            \cup ultrasounds \cup When(drives, "/cmd_vel_gazebo"))

(* sensores: pixhawk.launch.py                                             *)

PixhawkArgs(c) == c @@ [launch_web |-> "false"]
PixhawkBody(c) == <<Start({PixhawkDriver} \cup When(On(c.launch_web), SensoresWeb))>>

(* nav2_only.launch.py                                                     *)

NavOnlyArgs(c) ==
    c @@ [use_collision_monitor |-> "True", use_rviz |-> "False",
          use_robot_state_publisher |-> "False", collision_monitor_params |-> "collision_monitor"]
NavOnlyNav2 ==
    {ControllerOfNav2("/scan", {"/costmap_filter_info"}), SmootherServer,
     PlannerServer("/scan", {"/costmap_filter_info", "/tf map"}), BehaviorServer,
     BtNavigator(PathCheck), WaypointFollower}
\* The parameter file decides whether the ultrasounds are watched besides the scan.
OldMonitor(params) ==
    {Program("collision_monitor",
             {"/cmd_vel", "/scan"} \cup (IF params = "collision_monitor" THEN Ultrasounds ELSE {}),
             {"/cmd_vel_safe", "/collision_monitor_state", "/stop_zone"}),
     LifecycleManager("collision_monitor_lifecycle_manager")}
NavOnlyKeepout == KeepoutBody[1]
NavOnlyBody(c) ==
    <<Start(When(IsTrue(c.use_robot_state_publisher), RobotStatePublisher)
            \cup NavOnlyNav2 \cup {LifecycleManager("lifecycle_manager_navigation")}),
      NavOnlyKeepout,
      Start((IF On(c.use_collision_monitor) THEN OldMonitor(c.collision_monitor_params) ELSE {})
            \cup When(On(c.use_rviz), Rviz))>>

(* real.launch.py                                                          *)

OldFilters ==
    {Program("ekf_filter_node_odom", {"/odom", "/imu/data"}, {"/odometry/local", "/tf odom"}),
     Program("ekf_filter_node_map", {"/odometry/local", "/odometry/gps"},
             {"/odometry/filtered", "/tf map"})}
OldLocalization(c) ==
    OldFilters \cup When(On(c.use_navsat), NavsatTransform("/imu/data", "/gps/fix"))
OldMission(c) ==
    {ZonesManager, NavCommandServer(c.gps_topic), NavSnapshotServer("/scan"), NavObservability}
OldEditor(c) ==
    Include("no_go_editor",
            [gps_topic |-> c.gps_topic, launch_zones_manager |-> "false",
             launch_nav_command_server |-> "false", launch_nav_snapshot_server |-> "false"])
Mapviz == Program("mapviz", {}, {})

RealArgs(c) ==
    c @@ [use_robot_state_publisher |-> "True", use_rviz |-> "False", use_mapviz |-> "False",
          use_navsat |-> "True", use_collision_monitor |-> "True", use_gazebo_utils |-> "False",
          use_pointcloud_to_laserscan |-> "True", telemetry_backend |-> "mavros",
          start_lidar |-> "True", launch_web |-> "False", gps_topic |-> "/gps/fix"]
BackendRefused(c) == c.telemetry_backend \notin {"mavros", "pixhawk_driver"}
RealSensors(c) ==
    <<If(c.telemetry_backend = "mavros",
         Include("mavros", [launch_web |-> c.launch_web, launch_legacy_compat |-> "true"])),
      If(c.telemetry_backend = "pixhawk_driver",
         Include("pixhawk", [launch_web |-> c.launch_web])),
      Start({Camara}),
      If(On(c.start_lidar), Include("rs16", <<>>))>>
RealScan(c) ==
    When(On(c.use_gazebo_utils), GazeboUtils(Ultrasounds, FALSE))
    \cup When(On(c.use_pointcloud_to_laserscan), PointcloudToLaserscan("/scan_3d"))
RealBody(c) ==
    <<If(BackendRefused(c), Raise),
      Include("nav2_only", [use_collision_monitor |-> c.use_collision_monitor,
                            use_rviz |-> c.use_rviz,
                            use_robot_state_publisher |-> c.use_robot_state_publisher])>>
    \o RealSensors(c)
    \o <<Start(OldLocalization(c) \cup OldMission(c)), OldEditor(c),
         Start(When(On(c.use_mapviz), Mapviz) \cup RealScan(c))>>

(* simulacion.launch.py                                                    *)

SimulacionArgs(c) ==
    c @@ [use_rviz |-> "True", use_mapviz |-> "False", use_navsat |-> "True",
          use_collision_monitor |-> "True", use_gazebo_utils |-> "True", realism_mode |-> "True",
          use_joint_state_bridge |-> "False", gps_topic |-> "/gps/fix",
          sim_localization_profile |-> "baseline", sim_localization_params_file |-> ""]
OldBridge ==
    Program("parameter_bridge", {},
            {"/clock", "/odom_raw", "/scan_3d_raw", "/imu/data_raw", "/gps/fix_raw", "/joint_states"})
WorldJoints(c) ==
    When(IsTrue(c.use_joint_state_bridge),
         Program("parameter_bridge", {}, {"/joint_state of the world"}))
OldSpawn == {RobotStatePublisher, Spawn}
\* The profile is looked at only if no file of the user's own is given.
ProfileRefused(c) ==
    /\ c.sim_localization_params_file = ""
    /\ c.sim_localization_profile \notin
           {"baseline", "navsat_imu_heading", "decouple_global_yaw", "decouple_global_twist_only",
            "decouple_global_linear_twist_only"}
SimulacionLocalization(c) == IF ProfileRefused(c) THEN Raise ELSE Start(OldLocalization(c))
\* Without realism: Nav2's own launch file, as this one uses it, and the keepout servers.
Bringup == NavOnlyNav2 \cup {LifecycleManager("lifecycle_manager_navigation")}
SimulacionKeepout == NavOnlyKeepout
\* With realism: the robot's navigation, which only watches the scan.
RealisticNav2(c) ==
    Scoped("nav2_only", [use_collision_monitor |-> c.use_collision_monitor, use_rviz |-> "False",
                         use_robot_state_publisher |-> "False",
                         collision_monitor_params |-> "collision_monitor_lidar_only"])
SimulacionMission(c) == OldMission(c)
SimulacionEditor(c) == OldEditor(c)
SimulacionMonitor(c) ==
    IF On(c.use_collision_monitor) /\ ~On(c.realism_mode) THEN OldMonitor("collision_monitor")
    ELSE {}
SimulatedSensors(c) ==
    When(On(c.use_gazebo_utils),
         GazeboUtils(IF On(c.realism_mode) THEN {} ELSE Ultrasounds, TRUE))
Viewers(c) == When(On(c.use_rviz), Rviz) \cup When(On(c.use_mapviz), Mapviz)
SimulacionBody(c) ==
    <<Start({Gazebo, OldBridge} \cup WorldJoints(c) \cup OldSpawn),
      SimulacionLocalization(c),
      If(~On(c.realism_mode), Start(Bringup)),
      If(On(c.realism_mode), RealisticNav2(c)),
      If(~On(c.realism_mode), SimulacionKeepout),
      Start(SimulacionMission(c)),
      SimulacionEditor(c),
      Start(Viewers(c) \cup SimulacionMonitor(c) \cup SimulatedSensors(c)
            \cup {PointcloudToLaserscan("/scan_3d")})>>
=============================================================================
