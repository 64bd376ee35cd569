------------------------------ MODULE Headings ------------------------------
(* The two nodes that tell the robot its heading before and while it       *)
(* drives; they share no variable.                                         *)
EXTENDS CourseHeading, CompassGate

(* A heading given to the localisation rests on evidence: on fixes of a    *)
(* straight drive no longer ago than a heading may be held                 *)
(* (gps_course_heading), or on a compass read while the robot stood still  *)
(* long enough (compass_heading_gate).                                     *)
HeadingsRestOnEvidence == CourseIsRecent /\ StillnessIsEarned
=============================================================================
