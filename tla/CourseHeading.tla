--------------------------- MODULE CourseHeading ---------------------------
(***************************************************************************)
(* gps_course_heading(_core).py: the heading of the robot from the places  *)
(* of its last GPS fixes, while it drives straight.  A heading may be held *)
(* for a while when the robot turns.  Places lie on a line, time comes in  *)
(* ticks; what odometry, steering and RTK say is looked at by the timer.   *)
(***************************************************************************)
EXTENDS Naturals

CONSTANTS
    Window,       \* history_window_s
    MaxFixAge, MaxSampleDt, MinDistance, HoldTime,
    Road          \* the last place (a bound)

VARIABLES
    fixes,   \* _fixes: places and ages, no two of one age
    valid,   \* _last_valid_estimate: the age of its older fix and its own, or NoEstimate
    told     \* history: the age of the oldest fix behind what the timer published

course == <<fixes, valid, told>>

NoEstimate == [from |-> 0, age |-> HoldTime + 1]
Untold == 0
Far    == Window + HoldTime + 2   \* older than anything that matters
OlderFix(n) == IF n < Far THEN n + 1 ELSE n

ASSUME CourseAssumption ==
    /\ Window \in Nat /\ MaxFixAge \in Nat /\ MaxSampleDt \in Nat
    /\ MinDistance \in Nat /\ HoldTime \in Nat /\ Road \in Nat

CourseInit == fixes = {} /\ valid = NoEstimate /\ told = Untold

Trimmed(fs) == {f \in fs : f.age <= Window}

(* add_fix; two fixes with one stamp would not be told apart.              *)
Fix(place) ==
    /\ \A f \in fixes : f.age > 0
    /\ fixes' = Trimmed(fixes) \cup {[at |-> place, age |-> 0]}
    /\ told' = Untold /\ UNCHANGED valid

Distance(a, b) == IF a < b THEN b - a ELSE a - b

Newest(fs) == {f \in fs : \A g \in fs : f.age <= g.age}

(* The fixes far enough from the latest one and not much older.            *)
Baselines(fs, latest) ==
    {f \in fs : /\ f.age > latest.age
                /\ f.age - latest.age <= MaxSampleDt
                /\ Distance(f.at, latest.at) >= MinDistance}

(* estimate.  drive: straight, turning (steering angle or yaw rate too     *)
(* high) or unfit (no RTK, too slow, steering unknown).                    *)
Invalid == told' = Untold /\ UNCHANGED valid
\* Variant: a heading that is held counts as a new one.
HoldRenewed ==
    IF HoldTime > 0 /\ valid.age <= HoldTime
    THEN told' = valid.from + 1 /\ valid' = [valid EXCEPT !.age = 0]
    ELSE Invalid
Hold ==
    IF HoldTime > 0 /\ valid.age <= HoldTime
    THEN told' = valid.from + 1 /\ UNCHANGED valid
    ELSE Invalid
\* The newest of them counts.
Estimate(fs, latest) ==
    \/ Baselines(fs, latest) = {} /\ Invalid
    \/ \E from \in Newest(Baselines(fs, latest)) :
        /\ valid' = [from |-> from.age, age |-> 0]
        /\ told' = from.age + 1
CourseTimer(drive) ==
    /\ fixes' = Trimmed(fixes)
    /\ \/ fixes' = {} /\ Invalid
       \/ \E latest \in Newest(fixes') :
            IF drive = "unfit" \/ latest.age > MaxFixAge THEN Invalid
            ELSE IF drive = "turning" THEN Hold
            ELSE Estimate(fixes', latest)

CourseTick ==
    /\ fixes' = {[f EXCEPT !.age = OlderFix(@)] : f \in fixes}
    /\ valid' = IF valid.age > HoldTime THEN NoEstimate
                ELSE [from |-> OlderFix(valid.from), age |-> valid.age + 1]
    /\ told' = Untold

CourseNext ==
    \/ CourseTick
    \/ \E place \in 0..Road : Fix(place)
    \/ \E drive \in {"straight", "turning", "unfit"} : CourseTimer(drive)
CourseSpec == CourseInit /\ [][CourseNext]_course

----------------------------------------------------------------------------
(* However long the robot turns, and whatever the receiver leaves out: a   *)
(* heading that is published rests on fixes that were near to each other   *)
(* and fresh no longer ago than a heading may be held.  (told counts from  *)
(* one.)                                                                   *)
CourseIsRecent ==
    told # Untold =>
        /\ told - 1 <= MaxFixAge + MaxSampleDt + HoldTime
        /\ told - 1 <= Window + HoldTime
=============================================================================
