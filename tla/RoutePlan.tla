----------------------------- MODULE RoutePlan -----------------------------
(***************************************************************************)
(* The functions of route_executor.py that choose which waypoints a route  *)
(* mission drives: where it joins the route the operator sent, which       *)
(* synthetic points fill its legs, where a chunk starts and ends, and      *)
(* where a blocked chunk starts again.                                     *)
(*                                                                         *)
(* A place is a pair of integers and the legs of a route are parallel to   *)
(* an axis, so that every distance the code compares is exact here.        *)
(***************************************************************************)
EXTENDS Integers, Sequences, FiniteSets, FiniteSetsExt, SequencesExt

CONSTANTS
    Reached,    \* route_waypoint_reached_tolerance_m
    StartNear,  \* route_segment_start_tolerance_m
    RetryNear,  \* blocked_retry_reanchor_tolerance_m
    Spacing     \* leg_spacing_m

ASSUME SpacingAssumption == Spacing \in Nat \ {0}

\* A request lists points and, beside them, whether they have actions; what is
\* prepared lists the input indices beside both.  A waypoint of the route that
\* is driven is [at, act, key]: a synthetic point is no key waypoint.
Places == Int \X Int
Stops == [at : Places]
Waypoints == [at : Places, act : BOOLEAN, key : BOOLEAN]
IsKey(w) == w.key

Sq(n) == n * n
D2(p, q) == Sq(p[1] - q[1]) + Sq(p[2] - q[2])
Near(p, w, tol) == D2(p, w.at) <= Sq(tol)

\* How far the projection of p on the line from a to b is along it.
Dot(p, a, b) == (p[1] - a[1]) * (b[1] - a[1]) + (p[2] - a[2]) * (b[2] - a[2])
\* The point of the leg from a to b that is closest to p.
Clamp(x, u, v) == IF x < Min({u, v}) THEN Min({u, v}) ELSE IF x > Max({u, v}) THEN Max({u, v}) ELSE x
Foot(p, a, b) == <<Clamp(p[1], a[1], b[1]), Clamp(p[2], a[2], b[2])>>

\* The waypoint k places after i, and how many places there are after it.
Ahead(i, k, n) == ((i - 1 + k) % n) + 1
Room(i, n, loop) == IF loop THEN n - 1 ELSE n - i
\* The first waypoint from i on that is in S, the last one there is if none.
FirstFrom(i, S, n, loop) ==
    Ahead(i, Min({(j - i) % n : j \in S} \cup {Room(i, n, loop)}), n)
\* Those from i to j, round the closure of a loop when j comes before i.
CyclicBetween(i, j, n) == IF i <= j THEN i..j ELSE (i..n) \cup (1..j)

(* _split_home_waypoint: where the robot goes when the battery is low is   *)
(* none of the route.  There is one HOME at most, it has no actions, and   *)
(* something else is sent with it.                                         *)
Splits(lists, homes) ==
    Cardinality(homes) <= 1 /\ (\A i \in homes : ~lists.acts[i]) /\ homes # DOMAIN lists.points
Without(list, homes) == IF homes = {} THEN list ELSE RemoveAt(list, Min(homes))
Split(lists, homes) ==
    [points |-> Without(lists.points, homes), acts |-> Without(lists.acts, homes)]

(* drop_duplicate_loop_closure_with_actions: a loop that names its first   *)
(* place again.                                                            *)
DropClosure(lists, loop) ==
    IF loop /\ Len(lists.points) > 2 /\ Near(lists.points[1].at, Last(lists.points), Reached)
    THEN [points |-> Front(lists.points), acts |-> Front(lists.acts)] ELSE lists

\* The legs of a loop are parallel to an axis.
Parallel(p, q) == p[1] = q[1] \/ p[2] = q[2]
Straight(base) ==
    \A i \in DOMAIN base : Parallel(base[i].at, base[Ahead(i, 1, Len(base))].at)

(* _closest_route_segment and _is_usable_segment_match: the waypoint after  *)
(* the leg closest to p, if p is beside that leg; as a set of at most one.  *)
Legs(route, loop) ==
    {i \in 1..(IF loop THEN Len(route) ELSE Len(route) - 1) :
        route[i].at # route[Ahead(i, 1, Len(route))].at}
Joined(route, p, loop, tol) ==
    LET n == Len(route)
        End(i) == route[Ahead(i, 1, n)].at
        Off(i) == D2(p, Foot(p, route[i].at, End(i)))
    IN  {Ahead(i, 1, n) : i \in {j \in (IF n > 1 THEN Legs(route, loop) ELSE {}) :
            /\ \A h \in Legs(route, loop) : Off(j) < Off(h) \/ (Off(j) = Off(h) /\ j <= h)
            /\ Off(j) <= Sq(tol)
            /\ Dot(p, route[j].at, End(j)) > 0
            /\ Dot(p, route[j].at, End(j)) < D2(route[j].at, End(j))}}

\* The waypoint closest to p.
Closest(route, p) ==
    CHOOSE i \in DOMAIN route : \A j \in DOMAIN route :
        LET a == D2(p, route[i].at)  b == D2(p, route[j].at) IN a < b \/ (a = b /\ i <= j)

(* prepare_route_waypoints: the mission starts where the robot is.  A loop *)
(* is turned so that it starts at the first waypoint ahead, a line loses   *)
(* the waypoints behind; a mission with nowhere to go is refused.          *)
Refused(base, p, loop) ==
    IF loop THEN \A i \in DOMAIN base : Near(p, base[i], Reached)
            ELSE Near(p, Last(base), Reached)

Away(base, p) == {i \in DOMAIN base : ~Near(p, base[i], Reached)}

FirstWaypoint(base, p, loop) ==
    LET joined == Joined(base, p, loop, Max({Reached, StartNear}))
        turn   == IF joined = {} THEN 1 ELSE Min(joined)
        reached == DOMAIN base \ Away(base, p)
    IN  IF loop
        THEN IF Len(base) = 1 THEN 1
             ELSE IF reached = {} THEN turn
             ELSE FirstFrom(Closest(base, p), Away(base, p), Len(base), TRUE)
        ELSE IF 1 \in reached THEN Min(Away(base, p)) ELSE turn

\* A list that is turned to start at its i-th element.
Turned(list, i) == SubSeq(list, i, Len(list)) \o SubSeq(list, 1, i - 1)
TurnedLists(lists, i) == [points |-> Turned(lists.points, i), acts |-> Turned(lists.acts, i)]

Cut(list, i, loop) == IF loop THEN Turned(list, i) ELSE SubSeq(list, i, Len(list))

\* The indices of n waypoints, cut with them.  Variant: not cut.
Numbers(n) == [k \in 1..n |-> k]
NumbersUncut(n, i, loop) == Numbers(n)
NumbersCut(n, i, loop) == Cut(Numbers(n), i, loop)

\* Waypoints taken as they are have no indices (None).
Prepare(lists, p, posed, loop) ==
    LET n == Len(lists.points)
        i == IF posed THEN FirstWaypoint(lists.points, p, loop) ELSE 1
    IN  [points |-> Cut(lists.points, i, loop), acts |-> Cut(lists.acts, i, loop),
         inputs |-> IF ~posed \/ (loop /\ i = 1) THEN <<>> ELSE NumbersCut(n, i, loop)]

(* _map_prepared_input_indices: what was prepared had been turned before.  *)
MapInputs(prep, sources) ==
    LET Source(n) == IF n \in DOMAIN sources THEN sources[n] ELSE n
    IN  [prep EXCEPT !.inputs = [k \in DOMAIN prep.inputs |-> Source(prep.inputs[k])]]

\* The input index of the k-th waypoint prepared.
Number(indices, k) == IF k <= Len(indices) THEN indices[k] ELSE k

(* expand_route_waypoints_with_actions: no leg longer than leg_spacing_m.  *)
Pieces(a, b) == Max({1, Min({k \in 1..(1 + D2(a, b)) : Sq(k * Spacing) >= D2(a, b)})})
Fill(a, b) ==
    [k \in 1..(Pieces(a, b) - 1) |->
        [at |-> <<a[1] + ((b[1] - a[1]) * k) \div Pieces(a, b), a[2] + ((b[2] - a[2]) * k) \div Pieces(a, b)>>,
         act |-> FALSE, key |-> FALSE]]
Expand(base, loop) ==
    LET n == Len(base)
        Leg(i) == <<base[i]>> \o IF i < n \/ loop THEN Fill(base[i].at, base[Ahead(i, 1, n)].at) ELSE <<>>
    IN  IF n = 1 THEN base ELSE FlattenSeq([i \in 1..n |-> Leg(i)])
\* What is prepared are the key waypoints.
Marked(prep) ==
    [k \in DOMAIN prep.points |-> [at |-> prep.points[k].at, act |-> prep.acts[k], key |-> TRUE]]

(* expanded_input_indices: the k-th key waypoint has the k-th index, a     *)
(* synthetic point has none (0).                                           *)
ExpandedInputs(route, indices) ==
    [i \in DOMAIN route |->
        IF IsKey(route[i]) THEN Number(indices, Cardinality({j \in 1..i : IsKey(route[j])})) ELSE 0]

----------------------------------------------------------------------------
(* _send_chunk: from where.                                                *)
Acts(route) == {i \in DOMAIN route : route[i].act}

\* skip_reached_chunk_start, not over a waypoint with actions.  Variant: over
\* all of them.
SkipReachedAll(route, i, p, loop) == FirstFrom(i, Away(route, p), Len(route), loop)
SkipReached(route, i, p, loop) ==
    FirstFrom(i, Acts(route) \cup Away(route, p), Len(route), loop)

\* skip_passed_synthetic_chunk_start, over synthetic points only.
NotPassed(route, p) ==
    LET n == Len(route)
        Next(i) == route[Ahead(i, 1, n)].at
    IN  {i \in DOMAIN route :
            \/ IsKey(route[i])
            \/ Dot(p, route[i].at, Next(i)) <= 0
            \/ D2(p, Foot(p, route[i].at, Next(i))) > Sq(StartNear)}
SkipPassed(route, i, p, loop) == FirstFrom(i, NotPassed(route, p) \cup Acts(route), Len(route), loop)

SendFrom(route, i, p, loop) == SkipPassed(route, SkipReached(route, i, p, loop), p, loop)

\* build_chunk_waypoints: to the next key waypoint; one with actions that a
\* chunk starts at is the whole chunk.
ChunkEnd(route, i, loop) ==
    IF route[i].act \/ Room(i, Len(route), loop) = 0 THEN i
    ELSE LET n == Len(route)
             ends == {k \in 1..Room(i, n, loop) : IsKey(route[Ahead(i, k, n)])}
         IN  Ahead(i, Min(ends \cup {Room(i, n, loop)}), n)

\* next_chunk_start_index.  Variant: a line starts again.
NextStartWraps(target, n, loop) == Ahead(target, 1, n)
NextStart(target, n, loop) == IF loop /\ n > 1 THEN Ahead(target, 1, n) ELSE Min({target + 1, n + 1})

(* resolve_blocked_retry_start: a blocked chunk starts again where the      *)
(* robot is by now; in a loop not outside of the chunk.                    *)
RetryCandidates(route, p, loop) ==
    LET reached == {i \in {Closest(route, p)} : Near(p, route[i], Reached)}
    IN  IF reached # {}
        THEN {FirstFrom(i, Away(route, p), Len(route), loop) : i \in reached}
        ELSE Joined(route, p, loop, Max({Reached, RetryNear}))

\* Variant: wherever the robot is on the route.
RetryFromAnywhere(route, start, target, p, loop) ==
    LET found == RetryCandidates(route, p, loop)
    IN  IF found = {} THEN start ELSE Min(found)
RetryFrom(route, start, target, p, loop) ==
    LET found == RetryCandidates(route, p, loop)
    IN  IF found = {} THEN start
        ELSE IF ~loop THEN Max({start} \cup found)
        ELSE IF found \subseteq CyclicBetween(start, target, Len(route)) THEN Min(found)
        ELSE start

(* _select_return_home_exit_waypoint: the waypoint closest to HOME.        *)
ExitInput(prep, home) ==
    Min({Number(prep.inputs, k) : k \in {j \in DOMAIN prep.points :
            \A h \in DOMAIN prep.points :
                D2(home, prep.points[j].at) <= D2(home, prep.points[h].at)}})
=============================================================================
