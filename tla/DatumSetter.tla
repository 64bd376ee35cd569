---------------------------- MODULE DatumSetter ----------------------------
(***************************************************************************)
(* datum_setter.py: the datum of the map is set in robot_localization by a *)
(* sensor callback (the first fix with RTK) or by the operator's service,  *)
(* with retries, under _set_operation_lock.  Both wait for the answer on   *)
(* one of the two workers of the node, and the answer needs a worker.      *)
(* When the sensor callbacks ask for a datum is left open.                 *)
(***************************************************************************)
EXTENDS Naturals, Sequences, FiniteSets

CONSTANTS
    Setters,   \* the group of the sensor callbacks and the service group
    Workers,   \* threads of the executor
    Spots,     \* where the datum may be
    Tries,     \* datum_call_retries
    MaxQueue   \* requests not yet served by robot_localization (a bound)

VARIABLES
    setter,    \* setter -> the step it is at, its place, the requests it sent
    holder,    \* who holds _set_operation_lock, {} or a set of one
    queue,     \* requests to robot_localization: place, and who waits (a set)
    datum,     \* the datum of robot_localization, {} or a set of one
    answered,  \* setters whose current request has been answered
    recorded,  \* _datum_lat, _datum_lon
    sure       \* history: the last setting to end was a success

dvars == <<setter, holder, queue, datum, answered, recorded, sure>>

At(s, step) == setter[s].at = step
Idle == [at |-> "idle", place |-> {}, tries |-> 0]

DatumInit ==
    /\ setter = [s \in Setters |-> Idle]
    /\ holder = {} /\ queue = <<>> /\ datum = {}
    /\ answered = {} /\ recorded = {} /\ sure = FALSE

\* With a fresh yaw of the IMU; without one nothing is asked.
Ask(s, p) ==
    /\ setter[s] = Idle
    /\ Cardinality({t \in Setters : setter[t] # Idle}) < Workers
    /\ setter' = [setter EXCEPT ![s] = [@ EXCEPT !.at = "lock", !.place = {p}]]
    /\ UNCHANGED <<holder, queue, datum, answered, recorded, sure>>

\* Variant: settings are not kept apart.
LockNobody(s) ==
    /\ At(s, "lock")
    /\ setter' = [setter EXCEPT ![s].at = "call"]
    /\ UNCHANGED <<holder, queue, datum, answered, recorded, sure>>
Lock(s) ==
    /\ At(s, "lock") /\ holder = {}
    /\ holder' = {s}
    /\ setter' = [setter EXCEPT ![s].at = "call"]
    /\ UNCHANGED <<queue, datum, answered, recorded, sure>>

Ends(s) == setter' = [setter EXCEPT ![s] = Idle] /\ holder' = holder \ {s}

\* The answer to a request that was given up goes to nobody.
Forgotten(s) == [i \in DOMAIN queue |-> [queue[i] EXCEPT !.waits = @ \ {s}]]

\* One try is over without an answer.
TryFails(s, tries) ==
    IF tries < Tries
    THEN /\ setter' = [setter EXCEPT ![s] = [@ EXCEPT !.at = "call", !.tries = tries]]
         /\ UNCHANGED <<holder, sure>>
    ELSE Ends(s) /\ sure' = FALSE

\* No service of robot_localization, or a request to the one found.
Unavailable(s) ==
    /\ At(s, "call")
    /\ TryFails(s, setter[s].tries + 1)
    /\ UNCHANGED <<queue, datum, answered, recorded>>
Call(s) ==
    /\ At(s, "call") /\ Len(queue) < MaxQueue
    /\ queue' = Append(queue, [place |-> setter[s].place, waits |-> {s}])
    /\ setter' = [setter EXCEPT ![s].at = "wait"]
    /\ UNCHANGED <<holder, datum, answered, recorded, sure>>

\* robot_localization serves requests as they came.
ServeRequest ==
    /\ queue # <<>>
    /\ datum' = Head(queue).place
    /\ answered' = answered \cup Head(queue).waits
    /\ queue' = Tail(queue)
    /\ UNCHANGED <<setter, holder, recorded, sure>>

\* A worker that is free gives the answer to the future.
Deliver(s) ==
    /\ At(s, "wait") /\ s \in answered
    /\ Cardinality({t \in Setters : setter[t] # Idle}) < Workers
    /\ answered' = answered \ {s}
    /\ setter' = [setter EXCEPT ![s].at = "told"]
    /\ UNCHANGED <<holder, queue, datum, recorded, sure>>

\* The wait looks for the answer first and then at the clock.
TimeOut(s) ==
    /\ At(s, "wait") \/ At(s, "told")
    /\ TryFails(s, setter[s].tries + 1)
    /\ queue' = Forgotten(s) /\ answered' = answered \ {s}
    /\ UNCHANGED <<datum, recorded>>

Record(s) ==
    /\ At(s, "told")
    /\ recorded' = setter[s].place
    /\ sure' = TRUE
    /\ Ends(s)
    /\ UNCHANGED <<queue, datum, answered>>

DatumNext ==
    \/ ServeRequest
    \/ \E s \in Setters :
        \/ \E p \in Spots : Ask(s, p)
        \/ Lock(s) \/ Unavailable(s) \/ Call(s)
        \/ Deliver(s) \/ TimeOut(s) \/ Record(s)
DatumSpec == DatumInit /\ [][DatumNext]_dvars

----------------------------------------------------------------------------
(* After a setting that succeeded the datum the node reports is the one    *)
(* robot_localization uses, whatever retries, answers that came too late   *)
(* and settings that failed went before.                                   *)
DatumAgrees == sure /\ holder = {} => datum = recorded
=============================================================================
