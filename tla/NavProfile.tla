----------------------------- MODULE NavProfile -----------------------------
(***************************************************************************)
(* route_executor.py, _apply_navigation_profile: a profile is set in the   *)
(* ground filter, the local and the global costmap, one request each; a    *)
(* refusal undoes what was set before.  It is called from waypoint action  *)
(* threads, from the operator's service and, with the urban profile,       *)
(* wherever a mission ends; nothing keeps two callers apart.               *)
(***************************************************************************)
EXTENDS Naturals

CONSTANTS
    Callers,   \* callbacks and threads that may apply a profile
    Profiles,  \* NAVIGATION_PROFILES
    Urban,     \* the profile of the start
    Mixed       \* values of no profile: one parameter was taken, one refused

VARIABLES
    current,   \* _active_navigation_profile
    applied,   \* part of the system -> the profile whose values it has
    call,      \* caller -> the step it is at, its target, the profile it read
    late,      \* requests that were given up and may still be served
    harmed     \* history: a request was not cleanly taken or refused, a step
               \* back failed, or two callers overlapped

profile == <<current, applied, call, late, harmed>>

Parts == {"ground", "local", "global"}
Unasked  == [at |-> "idle", target |-> Urban, before |-> Urban]

ProfileInit ==
    /\ current = Urban
    /\ applied = [part \in Parts |-> Urban]
    /\ call = [c \in Callers |-> Unasked]
    /\ late = {} /\ harmed = FALSE

\* A profile that is the current one is not set again.  (A bound: after harm,
\* when nothing is claimed any more, the calls that run go on and none begins.)
BeginSwitch(c, p) ==
    /\ ~harmed
    /\ call[c] = Unasked /\ p # current
    /\ call' = [call EXCEPT ![c] = [at |-> "ground", target |-> p, before |-> current]]
    /\ harmed' = (harmed \/ \E d \in Callers : call[d] # Unasked)
    /\ UNCHANGED <<current, applied, late>>

Goes(c, step) == call' = [call EXCEPT ![c] = IF step = "idle" THEN Unasked ELSE [@ EXCEPT !.at = step]]

Taken(part, p) == applied' = [applied EXCEPT ![part] = p] /\ UNCHANGED late
\* Two parameters of one request may fare differently.
TakenInPart(part) == applied' = [applied EXCEPT ![part] = Mixed] /\ UNCHANGED late
\* No answer in time (one such request at a time, a bound).
GivenUp(part, p) == late = {} /\ late' = {<<part, p>>} /\ UNCHANGED applied

UndoStep == [local |-> "undo local", ground |-> "undo ground"]
AfterTaken(part) ==
    CASE part = "ground" -> "local" [] part = "local" -> "global" [] part = "global" -> "clear"
\* Variant: a refusal by the global costmap leaves the local one.
AfterRefusedGroundOnly(part) == IF part = "ground" THEN "idle" ELSE "undo ground"
AfterRefused(part) ==
    CASE part = "ground" -> "idle" [] part = "local" -> "undo ground" [] part = "global" -> "undo local"

Set(c, part) ==
    /\ call[c].at = part
    /\ \/ Taken(part, call[c].target) /\ Goes(c, AfterTaken(part)) /\ UNCHANGED harmed
       \/ UNCHANGED <<applied, late, harmed>> /\ Goes(c, AfterRefused(part))
       \/ /\ TakenInPart(part) \/ GivenUp(part, call[c].target)
          /\ Goes(c, AfterRefused(part)) /\ harmed' = TRUE
    /\ UNCHANGED current

AfterUndone(part) == IF part = "local" THEN "undo ground" ELSE "idle"
\* The values of the profile before; a step back that fails is only reported.
Undo(c, part) ==
    /\ call[c].at = UndoStep[part]
    /\ Goes(c, AfterUndone(part))
    /\ \/ Taken(part, call[c].before) /\ UNCHANGED harmed
       \/ /\ TakenInPart(part) \/ GivenUp(part, call[c].before) \/ UNCHANGED <<applied, late>>
          /\ harmed' = TRUE
    /\ UNCHANGED current

\* The costmaps are cleared, whether that succeeds or not.
Finish(c) ==
    /\ call[c].at = "clear"
    /\ current' = call[c].target
    /\ Goes(c, "idle")
    /\ UNCHANGED <<applied, late, harmed>>

ServedLate ==
    \E request \in late :
        /\ applied' = [applied EXCEPT ![request[1]] = request[2]]
        /\ late' = late \ {request}
        /\ UNCHANGED <<current, call, harmed>>

ProfileNext ==
    \/ ServedLate
    \/ \E c \in Callers :
        \/ \E p \in Profiles : BeginSwitch(c, p)
        \/ \E part \in Parts : Set(c, part)
        \/ \E part \in DOMAIN UndoStep : Undo(c, part)
        \/ Finish(c)
ProfileSpec == ProfileInit /\ [][ProfileNext]_profile

----------------------------------------------------------------------------
(* However often requests are refused, between two calls the filter and    *)
(* both costmaps have the values of the profile that is reported, unless a *)
(* request was lost, taken in part, not undone, or calls overlapped.       *)
ProfileIsWhole ==
    ~harmed /\ (\A c \in Callers : call[c] = Unasked)
        => \A part \in Parts : applied[part] = current
=============================================================================
