--------------------------- MODULE LaunchPrograms ---------------------------
(* The programs the launch files start, as their wires: the topics and     *)
(* services a program cannot do its work without (needs) and those it      *)
(* offers (gives).  Wires a program only shows, logs or can do without are *)
(* left out, except where it gives them.  Parameters are the names the     *)
(* launch files pass.                                                      *)
Program(name, needs, gives) == [name |-> name, needs |-> needs, gives |-> gives]

(* Command and mission.                                                    *)

NavCommandServer(gps) ==
    Program("nav_command_server",
            {gps, "/fromLL", "/follow_waypoints", "/navigate_through_poses", "/backup",
             "/cmd_vel", "/cmd_vel_safe", "/collision_monitor_state"},
            {"/nav_command_server/telemetry", "/nav_command_server/events",
             "/nav_command_server/set_goal_ll", "/nav_command_server/cancel_goal",
             "/nav_command_server/brake", "/nav_command_server/set_manual_mode",
             "/nav_command_server/get_state", "/cmd_vel_final"})

RouteExecutor ==
    Program("route_executor",
            {"/nav_command_server/set_goal_ll", "/nav_command_server/cancel_goal",
             "/nav_command_server/brake", "/nav_command_server/telemetry",
             "/nav_command_server/events", "/battery_state", "/battery_mission_guard", "/fromLL",
             "/local_costmap/clear_entirely_local_costmap",
             "/global_costmap/clear_entirely_global_costmap",
             "/local_costmap/local_costmap/set_parameters",
             "/global_costmap/global_costmap/set_parameters",
             "/scan_ground_filter/set_parameters"},
            {"/route_executor/set_route_ll", "/route_executor/cancel_route",
             "/route_executor/get_state", "/route_executor/set_patrol_ll",
             "/route_executor/cancel_patrol", "/route_executor/get_patrol_state",
             "/route_executor/request_return_home", "/route_executor/set_navigation_profile",
             "/route_executor/mission_path", "/route_executor/active_chunk_path",
             "/nav_command_server/events"})

WebZoneServer(gps, odom) ==
    Program("web_zone_server",
            {gps, odom, "/nav_command_server/telemetry", "/nav_command_server/events",
             "/zones_manager/set_geojson", "/zones_manager/get_state",
             "/zones_manager/reload_from_disk", "/nav_command_server/set_goal_ll",
             "/nav_command_server/cancel_goal", "/nav_command_server/brake",
             "/nav_command_server/set_manual_mode", "/nav_command_server/get_state",
             "/route_executor/set_route_ll", "/route_executor/cancel_route",
             "/route_executor/get_state", "/route_executor/set_navigation_profile",
             "/route_executor/set_patrol_ll", "/route_executor/cancel_patrol",
             "/route_executor/get_patrol_state", "/route_executor/request_return_home",
             "/nav_snapshot_server/get_nav_snapshot"},
            {"/cmd_vel_teleop", "/gps/rtk_source/select", "/gps/rtk_source/manage_json"})

ZonesManager ==
    Program("zones_manager",
            {"/fromLL", "/keepout_filter_mask_server/load_map",
             "/global_costmap/clear_entirely_global_costmap"},
            {"/zones_manager/set_geojson", "/zones_manager/get_state",
             "/zones_manager/reload_from_disk"})

NavSnapshotServer(scan) ==
    Program("nav_snapshot_server",
            {scan, "/local_costmap/costmap", "/global_costmap/costmap",
             "/local_costmap/published_footprint", "/stop_zone", "/plan"},
            {"/nav_snapshot_server/get_nav_snapshot"})

\* Observers need nothing: a topic nobody gives is shown as missing.
NavObservability == Program("nav_observability", {}, {"/diagnostics"})

NavTraceRecorder ==
    Program("nav_trace_recorder",
            {"/nav_command_server/events", "/navigation_trace/events", "/plan",
             "/route_executor/mission_path", "/route_executor/active_chunk_path",
             "/behavior_tree_log", "/odometry/global", "/collision_monitor_state",
             "/nav_command_server/telemetry", "/route_executor/get_state"}, {})

\* The controller, with its backend: the serial port or Gazebo.
ControllerServer(backend) ==
    Program("vehicle_controller_server", {"/cmd_vel_final"} \cup backend.needs,
            {"/controller/status", "/controller/telemetry", "/controller/drive_telemetry",
             "/battery_state", "/battery_mission_guard"} \cup backend.gives)
SerialBackend == [needs |-> {}, gives |-> {}]
GazeboBackend == [needs |-> {"/odom_raw", "/joint_states"}, gives |-> {"/cmd_vel_gazebo"}]

(* Lidar.                                                                  *)

ScanGroundFilter ==
    Program("scan_ground_filter", {"/scan_3d"},
            {"/scan_3d/no_ground", "/scan_ground_filter/set_parameters"})
ScanNoiseFilter(output) == Program("scan_noise_filter", {"/scan"}, {output})
LidarObstacleFilter(output) ==
    Program("lidar_obstacle_filter", {"/scan_3d", "/imu/data"}, {"/obstacles_cloud", output})
ScanWifiDebug(source, output) == Program("scan_wifi_debug", {source}, {output})
PointcloudToLaserscan(cloud) == Program("pointcloud_to_laserscan", {cloud}, {"/scan"})
PolygonRepublisher(name, input, output) == Program(name, {input}, {output})

(* Localization.                                                           *)

AckermannOdometry ==
    Program("ackermann_odometry", {"/controller/drive_telemetry"},
            {"/wheel/odometry", "/vehicle/twist"})
GlobalOdomGate(output) ==
    Program("global_odom_stationary_gate", {"/odometry/local", "/controller/drive_telemetry"},
            {output})
GlobalImuGate(imu, output) ==
    Program("global_imu_stationary_gate", {imu, "/controller/drive_telemetry"}, {output})
GlobalYawHold(output) ==
    Program("global_yaw_stationary_hold", {"/odometry/local", "/controller/drive_telemetry"},
            {output})
MapGpsMeasurement(gps, output) ==
    Program("map_gps_absolute_measurement", {gps, "/fromLL"}, {output})
GpsCourseHeading(gps, rtkStatus) ==
    Program("gps_course_heading",
            {gps, "/odometry/local", "/controller/drive_telemetry"} \cup rtkStatus,
            {"/gps/course_heading", "/gps/course_heading/debug"})
CompassHeadingGate(compass, output, debug) ==
    Program("compass_heading_gate", {compass, "/imu/data", "/controller/drive_telemetry"},
            {output, debug})
SetterOfDatum(gps) ==
    Program("datum_setter", {gps, "/imu/data", "/gps/rtk_status", "/datum"},
            {"/datum_setter/set_datum", "/datum_setter/get_datum"})

(* Sensors.                                                                *)

MavrosCompatBridge ==
    Program("mavros_compat_bridge",
            {"/imu/data", "/global_position/raw/fix", "/local_position/odom",
             "/local_position/velocity_local"},
            {"/gps/fix", "/odom", "/velocity"})
SensoresWeb ==
    Program("sensores_web", {}, {"/gps/rtk_source/select", "/gps/rtk_source/manage_json"})
RtkSourceManager ==
    Program("rtk_source_manager", {}, {"/rtcm", "/gps/rtk_sources/json", "/gps/rtk_source/status_json"})
RtkBridge(gps, status, corrections) ==
    Program("rtk_bridge", {gps} \cup corrections,
            {"/mavros_node/send_rtcm", status, "/gps/rtcm_age_s", "/gps/rtcm_received_count"})
Camara ==
    Program("camara", {},
            {"/camara/camera_pan", "/camara/camera_zoom_toggle", "/camara/camera_status",
             "/camara/camera_ptz", "/camara/camera_preset", "/camara/camera_save_preset",
             "/camara/camera_ptz_state"})
PixhawkDriver ==
    Program("pixhawk_driver", {},
            {"/imu/data", "/gps/fix", "/odom", "/velocity", "/gps/rtk_status", "/gps/fix_type",
             "/gps/rtcm_age_s", "/gps/rtcm_received_count"})
SimSensorNormalizer(status) ==
    Program("sim_sensor_normalizer_v2", {"/imu/data_raw", "/gps/fix_raw", "/scan_3d_raw", "/odom_raw"},
            {"/imu/data", "/gps/fix", "/scan_3d", "/odom", status})
SimCompass(output) == Program("sim_compass_hdg", {"/imu/data"}, {output})

PathClearanceValidator ==
    Program("path_clearance_validator", {"/global_costmap/costmap_raw"},
            {"/navigation_trace/events", "/path_clearance_validator/is_path_clearance_valid"})

(* Programs of other projects, by the wires this code uses.                *)

RobotStatePublisher == Program("robot_state_publisher", {}, {"/tf of the robot's joints"})
Rviz == Program("rviz2", {}, {})
MavrosNode ==
    Program("mavros_node", {},
            {"/imu/data", "/global_position/raw/fix", "/local_position/velocity_local",
             "/local_position/odom", "/mavros_node/gps1/raw", "/mavros_node/gps1/rtk",
             "/mavros_node/compass_hdg"})
Rslidar == Program("rslidar_sdk_node", {}, {"/scan_3d"})
LocalEkf(imu) == Program("ekf_filter_node_local_v2", {"/wheel/odometry", imu}, {"/odometry/local", "/tf odom"})
MapEkf(inputs) == Program("ekf_filter_node_map", inputs, {"/odometry/global", "/tf map"})
NavsatTransform(imu, gps) ==
    Program("navsat_transform", {imu, gps, "/odometry/local"}, {"/odometry/gps", "/fromLL", "/datum"})
Gazebo == Program("gz_sim", {"/cmd_vel_gazebo"}, {})
Spawn == Program("create", {}, {})
GazeboBridge ==
    Program("parameter_bridge", {},
            {"/clock", "/odom_raw", "/scan_3d_raw", "/imu/data_raw", "/gps/fix_raw"})
JointStateBridge == Program("parameter_bridge", {}, {"/joint_states"})

PlannerServer(scan, more) ==
    Program("planner_server", {scan} \cup more,
            {"/plan", "/global_costmap/costmap", "/global_costmap/costmap_raw",
             "/global_costmap/clear_entirely_global_costmap",
             "/global_costmap/global_costmap/set_parameters"})
ControllerOfNav2(scan, more) ==
    Program("controller_server", {scan, "/odometry/local"} \cup more,
            {"/cmd_vel", "/local_costmap/costmap", "/local_costmap/published_footprint",
             "/local_costmap/clear_entirely_local_costmap",
             "/local_costmap/local_costmap/set_parameters"})
SmootherServer == Program("smoother_server", {"/global_costmap/costmap_raw"}, {})
BtNavigator(checks) ==
    Program("bt_navigator",
            {"/odometry/local", "/global_costmap/clear_entirely_global_costmap",
             "/local_costmap/clear_entirely_local_costmap"} \cup checks,
            {"/navigate_through_poses", "/navigate_to_pose", "/behavior_tree_log"})
BehaviorServer == Program("behavior_server", {"/global_costmap/costmap_raw"}, {"/backup", "/cmd_vel"})
WaypointFollower == Program("waypoint_follower", {"/navigate_to_pose"}, {"/follow_waypoints"})
CollisionMonitor(scan) ==
    Program("collision_monitor", {"/cmd_vel", scan},
            {"/cmd_vel_safe", "/collision_monitor_state", "/stop_zone_raw",
             "/critical_slow_zone_raw", "/slow_zone_raw"})
LifecycleManager(name) == Program(name, {}, {})
KeepoutMaskServer ==
    Program("keepout_filter_mask_server", {},
            {"/keepout_filter_mask", "/keepout_filter_mask_server/load_map"})
KeepoutInfoServer ==
    Program("keepout_costmap_filter_info_server", {"/keepout_filter_mask"}, {"/costmap_filter_info"})
=============================================================================
