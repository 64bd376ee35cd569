--------------------------- MODULE PathClearance ---------------------------
(***************************************************************************)
(* path_clearance_validator.py: whether the path the robot follows is      *)
(* still free in the newest costmap, asked again and again by the          *)
(* behaviour tree and answered from a cache for a short while.  The node   *)
(* is spun by one thread.  A path is the sequence of its samples, a sample *)
(* the cells the offsets reach; paths are told apart by their signature    *)
(* (frame, stamp, length, five poses), and come in the costmap's frame.    *)
(***************************************************************************)
EXTENDS Naturals, Sequences

CONSTANTS
    Paths,     \* samples of the paths that are asked for
    Maps,      \* costmaps: cell -> 0 free, 1 high, 2 lethal
    Settings,  \* enabled, run (min_consecutive_high_cost_samples), reach
    MapTimeout, Period  \* costmap_timeout_s, min_validation_period_s, in steps

VARIABLES
    settings,  \* the parameters
    map,       \* _costmap, NoMap if there is none
    mapAge,    \* its age, counted to one past the time-out
    cache,     \* _last_cache
    cacheAge,  \* its age, counted to one past the period
    reply      \* history: the last answer under this map and these settings

clearance == <<settings, map, mapAge, cache, cacheAge, reply>>

NoMap    == <<>>
NoCache  == [path |-> <<>>, valid |-> TRUE]
NoReply  == [path |-> <<>>, valid |-> TRUE, open |-> TRUE]
Capped(n, limit) == IF n < limit THEN n ELSE limit

\* Costs of three ranks; the thresholds are at least one sample.
ASSUME ClearanceAssumption ==
    /\ \A path \in Paths : Len(path) \in Nat
    /\ \A m \in Maps : \A c \in DOMAIN m : m[c] \in 0..2
    /\ \A s \in Settings : s.run \in Nat \ {0} /\ s.reach \in Nat

ClearanceInit ==
    /\ settings \in Settings
    /\ map = NoMap /\ mapAge = 0
    /\ cache = NoCache /\ cacheAge = 0
    /\ reply = NoReply

\* A cell outside of the costmap costs nothing.
Cost(m, cells) ==
    LET known == {m[c] : c \in cells \cap DOMAIN m}
    IN  IF known = {} THEN 0 ELSE CHOOSE k \in known : \A j \in known : j <= k

\* consecutive_high behind each of the samples up to the last.
Highs(high, last) ==
    LET highs[n \in 0..last] == IF n \in high THEN highs[n - 1] + 1 ELSE 0
    IN  highs

(* check_path_clearance: up to the first lethal sample or run of high ones *)
Clear(path, m, s) ==
    LET last == Capped(s.reach, Len(path))
        high == {n \in 1..last : Cost(m, path[n]) # 0}
    IN  \A n \in 1..last : Cost(m, path[n]) < 2 /\ Highs(high, last)[n] < s.run

(* _on_costmap *)
Costmap(m) ==
    /\ map' = m /\ mapAge' = 0
    /\ cache' = NoCache /\ cacheAge' = 0
    /\ reply' = NoReply
    /\ UNCHANGED settings

(* _on_set_parameters *)
\* Variant: the cache is kept.
SetParametersKeepsCache(s) ==
    /\ settings' = s
    /\ reply' = NoReply
    /\ UNCHANGED <<map, mapAge, cache, cacheAge>>
SetParameters(s) ==
    /\ settings' = s
    /\ cache' = NoCache /\ cacheAge' = 0
    /\ reply' = NoReply
    /\ UNCHANGED <<map, mapAge>>

(* _on_validate *)
Cached(path) == cache # NoCache /\ cache.path = path /\ cacheAge <= Period
Answers(path, valid) == reply' = [path |-> path, valid |-> valid, open |-> FALSE]

FailOpen(path) ==
    /\ \/ ~settings.enabled
       \/ map = NoMap
       \/ ~Cached(path) /\ mapAge > MapTimeout
    /\ reply' = [path |-> path, valid |-> TRUE, open |-> TRUE]
    /\ UNCHANGED <<cache, cacheAge>>
FromCache(path) ==
    /\ settings.enabled /\ map # NoMap /\ Cached(path)
    /\ Answers(path, cache.valid)
    /\ UNCHANGED <<cache, cacheAge>>
Checked(path) ==
    /\ settings.enabled /\ map # NoMap /\ ~Cached(path) /\ mapAge <= MapTimeout
    /\ Answers(path, Clear(path, map, settings))
    /\ cache' = [path |-> path, valid |-> Clear(path, map, settings)] /\ cacheAge' = 0
Validate(path) ==
    /\ FailOpen(path) \/ FromCache(path) \/ Checked(path)
    /\ UNCHANGED <<settings, map, mapAge>>

ClearanceTime ==
    /\ mapAge' = Capped(mapAge + 1, MapTimeout + 1)
    /\ cacheAge' = Capped(cacheAge + 1, Period + 1)
    /\ UNCHANGED <<settings, map, cache, reply>>

ClearanceNext ==
    \/ ClearanceTime
    \/ \E m \in Maps : Costmap(m)
    \/ \E s \in Settings : SetParameters(s)
    \/ \E path \in Paths : Validate(path)
ClearanceSpec == ClearanceInit /\ [][ClearanceNext]_clearance

----------------------------------------------------------------------------
\* A sample that touches a lethal cell, or as many high ones in a row as
\* the parameter says, within the distance to check.
Obstructed(path, m, s) ==
    LET last == Capped(s.reach, Len(path))
        touches(n, k) == \E c \in path[n] \cap DOMAIN m : m[c] >= k
    IN  \E n \in 1..last :
            \/ touches(n, 2)
            \/ n + s.run <= last + 1 /\ \A k \in n..n + s.run - 1 : touches(k, 1)

(* An answer that was not given up as open is about the newest costmap and *)
(* the parameters in force, whether it was computed or remembered.         *)
AnswerIsCurrent ==
    reply # NoReply /\ ~reply.open => reply.valid = ~Obstructed(reply.path, map, settings)
=============================================================================
