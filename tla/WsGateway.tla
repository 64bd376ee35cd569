----------------------------- MODULE WsGateway -----------------------------
(***************************************************************************)
(* web_zone_server.py between the pages and the nodes.  Every message of a *)
(* page becomes a task of the event loop; what may block runs in a pool of *)
(* threads that take their work in order; a service that is missing or     *)
(* does not answer is given up after a time, and may do what it was asked  *)
(* for later.  A page that leaves takes its tasks with it, but not what a  *)
(* thread has begun.                                                       *)
(***************************************************************************)
EXTENDS WsOperations, FiniteSets

CONSTANTS
    Pages,
    MaxRequests,  \* connections and messages in a behaviour (a bound)
    Threads,      \* of the default pool
    Uses          \* the operations the pages send

VARIABLES
    site,      \* per page: away, greeted (not yet listened to), heard
    shut,      \* _control_locked
    task,      \* the requests so far
    pool,      \* the work the threads have not taken, cancelled or not
    performed, \* history: the requests a node has carried out
    overdue    \* requests given up that their node may still carry out

\* Every operation has turns to take; one that must be answered takes one
\* turn only, and asks services in it.
SoundOp(o) ==
    /\ o.turns \in Seq(Seq(STRING)) /\ o.turns # <<>> /\ o.need \in Nat
    /\ o.need > 0 => Len(o.turns) = 1 /\ o.turns[1] # <<>>
ASSUME GateAssumption ==
    /\ Uses \cup {"greet", "reload_zones", "refresh_nav"} \subseteq DOMAIN Ops
    /\ \A op \in DOMAIN Ops : SoundOp(Ops[op])

gate == <<site, shut, task, pool, performed, overdue>>

Ids == DOMAIN task
RequestAt(r, places) == task[r].pc \in places
Nobody == "nobody"
New(op, p) ==
    [op |-> op, page |-> p, pc |-> "sent", left |-> Ops[op].turns, need |-> Ops[op].need, good |-> TRUE]

\* What is kept of a request that has ended.
EndOf(t, pc) == [t EXCEPT !.pc = pc, !.page = Nobody, !.left = <<>>, !.need = 0, !.good = TRUE]

GateStarts(places) ==
    /\ site \in [Pages -> places] /\ shut = TRUE
    /\ task = <<>> /\ pool = <<>> /\ performed = {} /\ overdue = {}
\* The pages may have been heard for long.
GateInit == GateStarts({"away", "heard"})
\* A server without pages.
GateEnded == GateStarts({"away"})

(* handle: a page connects, is greeted, heard, and leaves.                 *)
Join(p) ==
    /\ site[p] = "away" /\ Len(task) < MaxRequests
    /\ site' = [site EXCEPT ![p] = "greeted"]
    /\ task' = Append(task, New("greet", p))
    /\ UNCHANGED <<shut, pool, performed, overdue>>
Message(p, op) ==
    /\ site[p] = "heard" /\ Len(task) < MaxRequests
    /\ task' = Append(task, New(op, p))
    /\ UNCHANGED <<site, shut, pool, performed, overdue>>
\* What is not in a thread is cancelled; the greeting is not a task.
Cancelled(p) == {r \in Ids : task[r].page = p /\ RequestAt(r, {"sent", "queued"}) /\ task[r].op # "greet"}
Leave(p) ==
    /\ site[p] # "away"
    /\ site' = [site EXCEPT ![p] = "away"]
    /\ task' = [r \in Ids |->
                   IF r \in Cancelled(p) THEN EndOf(task[r], "dropped")
                   ELSE IF task[r].page = p THEN [task[r] EXCEPT !.page = Nobody] ELSE task[r]]
    /\ UNCHANGED <<shut, pool, performed, overdue>>

(* _handle_message: refused, locked or malformed, or handed to a thread.   *)
Locked(r) == Ops[task[r].op].guarded /\ shut
AdmitRequest(r) ==
    /\ RequestAt(r, {"sent"})
    /\ \/ /\ Locked(r) \/ Ops[task[r].op].strict
          /\ task' = [task EXCEPT ![r] = EndOf(@, "refused")]
          /\ UNCHANGED pool
       \/ /\ ~Locked(r)
          /\ task' = [task EXCEPT ![r].pc = "queued"]
          /\ pool' = Append(pool, r)
    /\ UNCHANGED <<site, shut, performed, overdue>>

\* A thread that is free takes the next; what was cancelled it lets go.
Start ==
    /\ pool # <<>> /\ Cardinality({r \in Ids : RequestAt(r, {"thread", "waiting"})}) < Threads
    /\ pool' = Tail(pool)
    /\ IF RequestAt(Head(pool), {"queued"})
       THEN task' = [task EXCEPT ![Head(pool)].pc = "thread"]
       ELSE UNCHANGED task
    /\ UNCHANGED <<site, shut, performed, overdue>>

(* A turn without a service.  Nothing can go wrong with the lock.          *)
Local(r) ==
    /\ RequestAt(r, {"thread"}) /\ Head(task[r].left) = <<>>
    /\ shut' = CASE task[r].op = "lock" -> TRUE [] task[r].op = "unlock" -> FALSE [] OTHER -> shut
    /\ \E good \in BOOLEAN :
        /\ task[r].op \in Sure => good
        /\ task' = [task EXCEPT ![r] =
               [task[r] EXCEPT !.good = good, !.pc = "back", !.left = Tail(@)]]
    /\ UNCHANGED <<site, pool, performed, overdue>>

(* The request after an answer, or none: what must be ok ends it, and so   *)
(* does the second of the readings after a page connected.                 *)
CutShort(t, ok) == ~ok /\ (t.need > 0 \/ (t.op = "refresh_nav" /\ Len(t.left) = 2))
After(t, ok) ==
    LET turn == Tail(Head(t.left))
    IN  [t EXCEPT !.good = @ /\ (ok \/ t.need = 0),
                  !.need = IF ok /\ @ > 0 THEN @ - 1 ELSE @,
                  !.pc   = IF CutShort(t, ok) \/ turn = <<>> THEN "back" ELSE "thread",
                  !.left = IF CutShort(t, ok) THEN <<>>
                           ELSE IF turn = <<>> THEN Tail(@) ELSE <<turn>> \o Tail(@)]
Returns(r, ok) == task' = [task EXCEPT ![r] = After(@, ok)]

(* _call_service                                                           *)
CallService(r) ==
    /\ RequestAt(r, {"thread"}) /\ Head(task[r].left) # <<>>
    /\ Returns(r, FALSE) \/ task' = [task EXCEPT ![r].pc = "waiting"]
    /\ UNCHANGED <<site, shut, pool, performed, overdue>>
Serve(r, ok) ==
    /\ RequestAt(r, {"waiting"}) /\ Returns(r, ok)
    /\ performed' = IF ok /\ task[r].need > 0 THEN performed \cup {r} ELSE performed
    /\ UNCHANGED <<site, shut, pool, overdue>>
\* Variant: an answer that does not come is taken for one.
GiveUpGladly(r) ==
    /\ RequestAt(r, {"waiting"}) /\ Returns(r, TRUE)
    /\ overdue' = IF task[r].need > 0 THEN overdue \cup {r} ELSE overdue
    /\ UNCHANGED <<site, shut, pool, performed>>
\* Variant: the wait has no end.
NeverGiveUp(r) == FALSE /\ UNCHANGED gate
GiveUp(r) ==
    /\ RequestAt(r, {"waiting"}) /\ Returns(r, FALSE)
    /\ overdue' = IF task[r].need > 0 THEN overdue \cup {r} ELSE overdue
    /\ UNCHANGED <<site, shut, pool, performed>>
ServeLate(r) ==
    /\ overdue' = overdue \ {r} /\ performed' = performed \cup {r}
    /\ UNCHANGED <<site, shut, task, pool>>

(* The task goes on after a turn in a thread: with the next one, or with   *)
(* the answer.                                                             *)
Answer(r) ==
    IF task[r].page = Nobody THEN "unheard" ELSE IF task[r].good THEN "ok" ELSE "failed"
Resume(r) ==
    /\ RequestAt(r, {"back"})
    /\ IF task[r].left # <<>> /\ task[r].page # Nobody
       THEN /\ task' = [task EXCEPT ![r].pc = "queued"] /\ pool' = Append(pool, r)
            /\ UNCHANGED site
       ELSE /\ UNCHANGED pool
            /\ LET over == [task EXCEPT ![r] = EndOf(@, Answer(r))]
                   page == task[r].page
               IN  IF task[r].op = "greet" /\ page # Nobody
                   THEN /\ site' = [site EXCEPT ![page] = "heard"]
                        /\ task' = over \o <<New("reload_zones", page), New("refresh_nav", page)>>
                   ELSE task' = over /\ UNCHANGED site
    /\ UNCHANGED <<shut, performed, overdue>>

\* An exception while a message is handled is logged, and the page hears
\* nothing, whatever was done.  The greeting is not a message.
Raise(r) ==
    /\ RequestAt(r, {"sent", "back"}) /\ task[r].op # "greet"
    /\ task' = [task EXCEPT ![r] = EndOf(@, "unheard")]
    /\ UNCHANGED <<site, shut, pool, performed, overdue>>

\* _control_lock_watchdog_tick; ControlLock says when.
DogShuts ==
    /\ ~shut /\ shut' = TRUE
    /\ UNCHANGED <<site, task, pool, performed, overdue>>

RequestMoves(r) == AdmitRequest(r) \/ Local(r) \/ CallService(r) \/ GiveUp(r) \/ Resume(r)
GateNext ==
    \/ Start \/ DogShuts
    \/ \E p \in Pages : Join(p) \/ Leave(p) \/ \E op \in Uses : Message(p, op)
    \/ \E r \in Ids : RequestMoves(r) \/ Raise(r) \/ \E ok \in BOOLEAN : Serve(r, ok)
    \/ \E r \in overdue : ServeLate(r)
GateSpec == GateInit /\ [][GateNext]_gate

(* The event loop and the threads go on as a whole, and the time of a wait *)
(* passes; of the nodes nothing is assumed.                                *)
GateFairness == WF_gate(Start \/ \E r \in Ids : RequestMoves(r))

----------------------------------------------------------------------------
(* What a page is told is true: ok, and the node has carried the command   *)
(* out; refused, or cancelled before a thread took it, and no node has or  *)
(* ever will.                                                              *)
AnswersAreTrue ==
    \A r \in Ids :
        /\ RequestAt(r, {"ok"}) /\ Ops[task[r].op].need > 0 => r \in performed
        /\ RequestAt(r, {"refused", "dropped"}) => r \notin performed \cup overdue

(* However many threads wait for nodes that are gone: every request of a   *)
(* page, a brake too, is answered in the end, unless the page leaves or    *)
(* the handling raises (the bound ends the requests).                      *)
RequestsEnd == <>[](\A r \in Ids : ~RequestAt(r, {"sent", "queued", "thread", "waiting", "back"}))
=============================================================================
