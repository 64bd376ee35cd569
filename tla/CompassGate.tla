---------------------------- MODULE CompassGate ----------------------------
(***************************************************************************)
(* compass_heading_gate.py: the compass is believed only while the robot   *)
(* stands still and no course of the GPS is known: at once in a window     *)
(* after the start, later when it has stood still for long.  Freshness of  *)
(* compass and IMU, and the yaw itself, are what the timer finds.          *)
(***************************************************************************)
EXTENDS Naturals

CONSTANTS
    StartupWindow, PublishAfter, DriveTimeout, DebugTimeout, InitialGuessOnly

VARIABLES
    uptime,
    drive,     \* the last drive telemetry: does it say still, and its age
    still,     \* _stationary_since: its age, or Never
    courseOk,  \* the last word of gps_course_heading, and its age
    accepted,  \* is there a yaw to compare with
    passed,    \* why the timer published the compass, or "no"
    stirred    \* history: the age of the last telemetry that did not say still

compass == <<uptime, drive, still, courseOk, accepted, passed, stirred>>

\* Ages stop where they no longer matter.
OlderUpTo(n, limit) == IF n < limit THEN n + 1 ELSE n
Never == PublishAfter + 1
\* Before anything was heard, it is as if it were too old.
Unheard(timeout) == [yes |-> FALSE, age |-> timeout + 1]

ASSUME CompassAssumption ==
    /\ StartupWindow \in Nat /\ PublishAfter \in Nat
    /\ DriveTimeout \in Nat /\ DebugTimeout \in Nat
    /\ InitialGuessOnly \in BOOLEAN

CompassInit ==
    /\ uptime = 0 /\ drive = Unheard(DriveTimeout) /\ still = Never /\ courseOk = Unheard(DebugTimeout)
    /\ accepted = FALSE /\ passed = "no" /\ stirred = PublishAfter

(* _on_drive_telemetry: still means fresh, valid and slow.                 *)
\* Variant: what began goes on.
DriveKeepsSince(yes) ==
    /\ drive' = [yes |-> yes, age |-> 0]
    /\ still' = IF yes /\ still = Never THEN 0 ELSE still
    /\ stirred' = IF yes THEN stirred ELSE 0
    /\ passed' = "no" /\ UNCHANGED <<uptime, courseOk, accepted>>
Drive(yes) ==
    /\ drive' = [yes |-> yes, age |-> 0]
    /\ still' = IF ~yes THEN Never ELSE IF still = Never THEN 0 ELSE still
    /\ stirred' = IF yes THEN stirred ELSE 0
    /\ passed' = "no" /\ UNCHANGED <<uptime, courseOk, accepted>>

(* _on_gps_heading_debug                                                   *)
Course(yes) ==
    /\ courseOk' = [yes |-> yes, age |-> 0]
    /\ passed' = "no" /\ UNCHANGED <<uptime, drive, still, accepted, stirred>>

Stationary  == drive.yes /\ drive.age <= DriveTimeout
CourseKnown == courseOk.yes /\ courseOk.age <= DebugTimeout

(* _acceptance_reason: fit says that compass and IMU are fresh and the yaw *)
(* rate is low, near that the yaw is no jump from the last accepted one.   *)
Reason(fit, near) ==
    IF ~fit \/ ~Stationary \/ CourseKnown \/ (accepted /\ ~near) THEN "no"
    ELSE IF uptime <= StartupWindow THEN "startup"
    ELSE IF ~InitialGuessOnly /\ still # Never /\ still >= PublishAfter THEN "long"
    ELSE "no"
CompassTimer(fit, near) ==
    /\ passed' = Reason(fit, near)
    /\ accepted' = (accepted \/ passed' # "no")
    /\ UNCHANGED <<uptime, drive, still, courseOk, stirred>>

CompassTick ==
    /\ uptime' = OlderUpTo(uptime, StartupWindow + 1)
    /\ drive' = [drive EXCEPT !.age = OlderUpTo(@, DriveTimeout + 1)]
    /\ courseOk' = [courseOk EXCEPT !.age = OlderUpTo(@, DebugTimeout + 1)]
    /\ still' = IF still = Never THEN Never ELSE OlderUpTo(still, PublishAfter)
    /\ stirred' = OlderUpTo(stirred, PublishAfter)
    /\ passed' = "no" /\ UNCHANGED accepted

CompassNext ==
    \/ CompassTick
    \/ \E yes \in BOOLEAN : Drive(yes) \/ Course(yes)
    \/ \E fit, near \in BOOLEAN : CompassTimer(fit, near)
CompassSpec == CompassInit /\ [][CompassNext]_compass

----------------------------------------------------------------------------
(* After the start the compass is believed only when no telemetry of the   *)
(* last PublishAfter said that the robot moves, however the telemetry came *)
(* and stopped in between.                                                 *)
StillnessIsEarned == passed = "long" => stirred >= PublishAfter
=============================================================================
