---------------------------- MODULE WsOperations ----------------------------
(***************************************************************************)
(* What the operations of the pages ask of the nodes: the methods of       *)
(* WebZoneServerNode call services one after the other, the operations of  *)
(* WebSocketApi call methods, each in a thread.                            *)
(***************************************************************************)
EXTENDS Naturals, Sequences, TLC

(* Methods.  The first need services must answer ok, or the method ends    *)
(* there and fails; the others only refresh the copy of the state.         *)
Method(services, need) == [services |-> services, need |-> need]
Within == Method(<<>>, 0)

GoalMethods ==
    [set_nav_goals          |-> Method(<<"nav">>, 1),
     set_navigation_profile |-> Method(<<"profile">>, 1)]
RouteMethods ==
    [m \in {"set_route_mission", "cancel_route_mission"} |-> Method(<<"route", "route">>, 1)]
PatrolMethods ==
    [m \in {"set_patrol_mission", "cancel_patrol_mission", "request_patrol_return_home"} |->
        Method(<<"route", "route", "route">>, 1)]
NavMethods ==
    [m \in {"cancel_nav_goal", "brake_nav"} |-> Method(<<"nav">>, 1)]
        @@ [set_manual_mode |-> Method(<<"nav", "nav">>, 1), set_manual_cmd |-> Within]
ZoneMethods ==
    [set_zones_geojson      |-> Method(<<"zones", "zones">>, 1),
     reload_zones_from_disk |-> Method(<<"zones", "zones">>, 2)]
StateMethods ==
    [get_nav_state    |-> Method(<<"nav">>, 1),
     get_route_state  |-> Method(<<"route">>, 1),
     get_patrol_state |-> Method(<<"route">>, 1)]
CameraMethods ==
    [m \in {"camera_pan", "camera_zoom_toggle"} |-> Method(<<"camera", "camera">>, 1)]
PtzMethods ==
    [m \in {"camera_ptz_move", "camera_preset", "camera_save_preset"} |->
        Method(<<"camera", "camera">>, 1)]
ViewMethods == [get_nav_snapshot |-> Method(<<"snapshot">>, 1)]
StatusMethods ==
    [m \in {"get_camera_ptz_state", "get_camera_status"} |-> Method(<<"camera">>, 1)]
M == GoalMethods @@ RouteMethods @@ PatrolMethods @@ NavMethods @@ ZoneMethods @@ StateMethods
        @@ CameraMethods @@ PtzMethods @@ ViewMethods @@ StatusMethods

(* Operations: may the controls be locked against it; may the message be   *)
(* malformed; the services of its turns in a thread; how many must answer. *)
Op(guarded, strict, turns, need) ==
    [guarded |-> guarded, strict |-> strict, turns |-> turns, need |-> need]
Does(m)     == Op(FALSE, FALSE, <<m.services>>, m.need)
Checks(m)   == Op(FALSE, TRUE, <<m.services>>, m.need)
Guarded(op) == [op EXCEPT !.guarded = TRUE]
\* They answer with what is known, whatever the nodes answer.
Reads(m) == Op(FALSE, FALSE, <<m.services>>, 0)
Three    == <<M.get_nav_state.services, M.get_route_state.services, M.get_patrol_state.services>>

StateOps == [get_state |-> Op(FALSE, FALSE, Three, 0)]
\* set_control_lock with true and false.
LockOps == [lock |-> Checks(Within), unlock |-> Checks(Within), control_heartbeat |-> Does(Within)]
ZoneOps ==
    [set_zones_geojson |-> Checks(M.set_zones_geojson),
     load_zones_file   |-> Does(M.reload_zones_from_disk)]
FileOps == [save_waypoints_file |-> Checks(Within), load_waypoints_file |-> Does(Within)]
DatumOps ==
    [capture_current_gps_datum |-> Checks(Within)]
        @@ [op \in {"get_datums", "save_datum", "delete_datum", "select_datum",
                    "select_rtk_source", "upsert_rtk_source"} |-> Does(Within)]
GoalOps ==
    [set_goal_ll            |-> Guarded(Checks(M.set_nav_goals)),
     set_navigation_profile |-> Guarded(Checks(M.set_navigation_profile))]
RouteOps ==
    [set_route_ll  |-> Guarded(Checks(M.set_route_mission)),
     set_patrol_ll |-> Guarded(Checks(M.set_patrol_mission))]
StopOps ==
    [cancel_goal         |-> Does(M.cancel_nav_goal),
     cancel_route        |-> Does(M.cancel_route_mission),
     cancel_patrol       |-> Does(M.cancel_patrol_mission),
     request_return_home |-> Guarded(Does(M.request_patrol_return_home)),
     brake               |-> Does(M.brake_nav)]
\* set_manual_mode with true and false.
ManualOps ==
    [take_manual    |-> Guarded(Checks(M.set_manual_mode)),
     leave_manual   |-> Checks(M.set_manual_mode),
     set_manual_cmd |-> Guarded(Checks(M.set_manual_cmd))]
ViewOps == [get_nav_snapshot |-> Reads(M.get_nav_snapshot)]
RecordOps ==
    [op \in {"mission.list_sessions", "mission.get_session", "mission.download_session",
             "mission.get_status", "get_rosbag_status", "start_rosbag", "stop_rosbag"} |-> Does(Within)]
CameraOps ==
    [camera_pan         |-> Checks(M.camera_pan),
     camera_zoom_toggle |-> Does(M.camera_zoom_toggle),
     get_camera_status  |-> Reads(M.get_camera_status)]
PtzOps ==
    [camera_ptz_move       |-> Checks(M.camera_ptz_move),
     camera_ptz_preset     |-> Checks(M.camera_preset),
     camera_ptz_set_preset |-> Checks(M.camera_save_preset),
     get_camera_ptz_state  |-> Reads(M.get_camera_ptz_state)]
\* handle(): before a page is heard, and when it is.
ConnectOps ==
    [greet        |-> Does(Within),
     reload_zones |-> Does(M.reload_zones_from_disk),
     refresh_nav  |-> Op(FALSE, FALSE, Three, 0)]
Ops ==
    StateOps @@ LockOps @@ ZoneOps @@ FileOps @@ DatumOps @@ GoalOps @@ RouteOps @@ StopOps
        @@ ManualOps @@ ViewOps @@ RecordOps @@ CameraOps @@ PtzOps @@ ConnectOps
\* Without a service, and nothing in them can fail.
Sure == DOMAIN LockOps \cup {"greet", "mission.list_sessions", "mission.get_status", "get_rosbag_status"}
=============================================================================
