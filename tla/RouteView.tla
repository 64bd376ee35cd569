----------------------------- MODULE RouteView -----------------------------
(***************************************************************************)
(* web_zone_server.py keeps a copy of the state of route_executor for the  *)
(* pages of the operators.  A timer starts a thread that asks for it, and  *)
(* a handler asks after a request that changed a mission; answers may be   *)
(* late and may be stored in another order than they were given.           *)
(***************************************************************************)
EXTENDS Naturals, Sequences

CONSTANTS
    MaxChanges  \* how often a mission changes (a bound)

VARIABLES
    truth,    \* the state of route_executor, a version for route and patrol
    view,     \* _route_mission, _patrol_mission
    polling,  \* _route_state_poll_inflight
    asks      \* who asks: what is left to ask for, the answer to the first

rview == <<truth, view, polling, asks>>

Kinds  == {"route", "patrol"}
Askers == {"poll", "handler"}
Rest   == [todo |-> <<>>, answer |-> {}]

Starts(running) ==
    /\ truth = [k \in Kinds |-> 0] /\ view = truth
    /\ polling = ~running
    /\ asks = [a \in Askers |-> Rest]
Init == Starts(TRUE)
\* A node without its timer, which nothing is fair to.
Ended == Starts(FALSE)

\* route_executor goes on.
Change(k) ==
    /\ truth[k] < MaxChanges
    /\ truth' = [truth EXCEPT ![k] = @ + 1]
    /\ UNCHANGED <<view, polling, asks>>

Asks(a, kinds) == asks[a] = Rest /\ asks' = [asks EXCEPT ![a].todo = kinds]

(* _route_state_poll_tick, _run_route_state_poll *)
Tick ==
    /\ ~polling /\ polling' = TRUE
    /\ Asks("poll", <<"route", "patrol", "end">>)
    /\ UNCHANGED <<truth, view>>
PollEnds ==
    /\ asks["poll"].todo = <<"end">>
    /\ polling' = FALSE
    /\ asks' = [asks EXCEPT !["poll"] = Rest]
    /\ UNCHANGED <<truth, view>>

(* After an operator's request: to a route, or to a patrol.                *)
Refresh ==
    /\ Asks("handler", <<"route">>) \/ Asks("handler", <<"patrol", "route">>)
    /\ UNCHANGED <<truth, view, polling>>

Waits(a, k) == asks[a].todo # <<>> /\ Head(asks[a].todo) = k
Goes(a) == asks' = [asks EXCEPT ![a] = [todo |-> Tail(@.todo), answer |-> {}]]

(* get_route_state, get_patrol_state: answered, stored or given up         *)
Serve(a, k) ==
    /\ Waits(a, k) /\ asks[a].answer = {}
    /\ asks' = [asks EXCEPT ![a].answer = {truth[k]}]
    /\ UNCHANGED <<truth, view, polling>>
Store(a, k) ==
    /\ Waits(a, k)
    /\ \E version \in asks[a].answer : view' = [view EXCEPT ![k] = version]
    /\ Goes(a)
    /\ UNCHANGED <<truth, polling>>
\* Variant: the thread ends at the first answer that does not come.
TimeOutEndsThread(a, k) ==
    /\ Waits(a, k) /\ asks' = [asks EXCEPT ![a] = Rest]
    /\ UNCHANGED <<truth, view, polling>>
TimeOut(a, k) ==
    /\ Waits(a, k) /\ Goes(a)
    /\ UNCHANGED <<truth, view, polling>>

Next ==
    \/ Tick \/ PollEnds \/ Refresh
    \/ \E k \in Kinds :
        \/ Change(k)
        \/ \E a \in Askers : Serve(a, k) \/ Store(a, k) \/ TimeOut(a, k)

(* The timer and the threads go on; route_executor answers the poll in     *)
(* time again and again.                                                   *)
Fairness ==
    /\ WF_rview(Tick) /\ WF_rview(PollEnds)
    /\ \A k \in Kinds :
        /\ SF_rview(Serve("poll", k)) /\ SF_rview(Store("poll", k))
        /\ \A a \in Askers : WF_rview(Store(a, k) \/ TimeOut(a, k))

----------------------------------------------------------------------------
(* Whatever answers are lost or come late: once the missions no longer     *)
(* change (the bound sees to that), the page shows their state and goes on *)
(* showing it.                                                             *)
ViewCatchesUp == <>[](view = truth)
=============================================================================
