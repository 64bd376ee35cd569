----------------------------- MODULE NavGoals -----------------------------
(***************************************************************************)
(* The life of navigation goals in nav_command_server.py: set_goal,        *)
(* cancel_goal, brake and set_manual_mode, the result callbacks that send  *)
(* the next segment of a loop, the threads that cancel goals and the one   *)
(* that backs away from an obstacle and resumes the goal.                  *)
(*                                                                         *)
(* Actors: Svc is the service handler (one MutuallyExclusive group), Tel   *)
(* the teleop callback (the default group), Bk the recovery thread, and a  *)
(* goal g stands for its own result callback.  Handlers run on the         *)
(* Workers threads of the executor; while one waits for Nav2 in            *)
(* _wait_for_future it keeps its worker, and the answer it waits for needs *)
(* another.  Each action is one section under the node's lock, one request *)
(* to Nav2 or one answer of it.  What is published is CmdGate's subject.   *)
(***************************************************************************)
EXTENDS Naturals, FiniteSets

CONSTANTS
    Goals,          \* the goals that can be sent to Nav2 (a bound)
    None,           \* no goal
    Svc, Tel, Bk,   \* the other actors
    Workers,        \* MultiThreadedExecutor(num_threads=2)
    BackupEnabled,  \* collision_backup_recovery_enabled
    TimeOuts        \* which waits for Nav2 may time out

ASSUME NavAssumption ==
    /\ {None, Svc, Tel, Bk} \cap Goals = {}
    /\ Cardinality({None, Svc, Tel, Bk}) = 4
    /\ Workers \in Nat \ {0}
    /\ BackupEnabled \in BOOLEAN
    /\ TimeOuts \subseteq {"accept", "cancel"}

Actors == Goals \cup {Svc, Tel, Bk}

VARIABLES
    \* Nav2 and what it has answered
    st,           \* st[g]: where goal g is
    told,         \* told[g]: the answer to send_goal has reached its future
    cancelReq,    \* cancelReq[g]: cancel_goal_async was called
    cancelAck,    \* cancelAck[g]: its answer has reached its future
    \* the node's fields
    handle,       \* _current_goal_handle
    manual,       \* _manual_enabled
    navigating,   \* _is_navigating
    mode,         \* _auto_mode
    loopOn,       \* _loop_enabled
    loopCfg,      \* len(_loop_original_poses) > 1
    poses,        \* _loop_waypoint_poses is not empty
    ignore,       \* _nav_action_results_to_ignore
    backup,       \* _collision_backup_active
    \* the handlers in progress
    pc,           \* pc[a]: where actor a is
    at,           \* at[a]: the goal actor a is waiting for or has saved
    asLoop,       \* asLoop[a]: the loop argument of the request a is serving
    toCancel,     \* goals handed to a thread of _cancel_goal_async
    savedCfg,     \* snapshot["loop_original_poses"] of the recovery thread, > 1
    halted        \* history: what stopped the node since the last set_goal

nav2     == <<st, told, cancelReq, cancelAck>>
loop     == <<loopOn, loopCfg, poses>>
node     == <<handle, manual, navigating, mode, loop, ignore, backup>>
handlers == <<pc, at, asLoop, toCancel, savedCfg>>
others   == <<toCancel, savedCfg, halted>>
vars == <<nav2, node, handlers, halted>>

Ended == {"succeeded", "aborted", "canceled"}
Accepted(g) == st[g] \in {"running"} \cup Ended
Modes == {"idle", "loop", "point_to_point", "collision_backup"}

TypeOK ==
    /\ st \in [Goals -> {"unsent", "sent", "rejected", "running"} \cup Ended]
    /\ told \in [Goals -> BOOLEAN]
    /\ cancelReq \in [Goals -> BOOLEAN]
    /\ cancelAck \in [Goals -> BOOLEAN]
    /\ handle \in Goals \cup {None}
    /\ {manual, navigating, loopOn, loopCfg, poses, backup, savedCfg} \subseteq BOOLEAN
    /\ mode \in Modes
    /\ ignore \in 0..Cardinality(Goals)
    /\ pc[Svc] \in {"idle", "begin", "detach", "cancelwait", "clear", "send", "wait",
                    "config", "fail", "brakedetach", "brakewait", "manualdetach"}
    /\ pc[Tel] \in {"idle", "manual", "manualdetach"}
    /\ pc[Bk] \in {"idle", "check", "cancelwait", "backup", "recheck", "send",
                   "wait", "restore", "fail", "end"}
    /\ \A g \in Goals : pc[g] \in {"idle", "armed", "main", "send", "wait",
                                   "final", "fail", "done"}
    /\ at \in [Actors -> Goals \cup {None}]
    /\ asLoop \in [Actors -> BOOLEAN]
    /\ toCancel \subseteq Goals
    /\ halted \in {"no", "cancel", "manual"}

Init ==
    /\ st = [g \in Goals |-> "unsent"]
    /\ told = [g \in Goals |-> FALSE]
    /\ cancelReq = [g \in Goals |-> FALSE]
    /\ cancelAck = [g \in Goals |-> FALSE]
    /\ handle = None /\ manual = FALSE /\ navigating = FALSE /\ mode = "idle"
    /\ loopOn = FALSE /\ loopCfg = FALSE /\ poses = FALSE
    /\ ignore = 0 /\ backup = FALSE
    /\ pc = [a \in Actors |-> "idle"]
    /\ at = [a \in Actors |-> None]
    /\ asLoop = [a \in Actors |-> FALSE]
    /\ toCancel = {}
    /\ savedCfg = FALSE
    /\ halted = "no"

----------------------------------------------------------------------------
(* The executor.                                                           *)

Running(a) == IF a \in Goals THEN pc[a] \notin {"idle", "armed", "done"}
              ELSE a # Bk /\ pc[a] # "idle"
FreeWorker == Cardinality({a \in Actors : Running(a)}) < Workers

Goto(a, label) == pc' = [pc EXCEPT ![a] = label]
(* Leaving a handler forgets its local variables. *)
Return(a) ==
    /\ pc' = [pc EXCEPT ![a] = IF a \in Goals THEN "done" ELSE "idle"]
    /\ at' = [at EXCEPT ![a] = None]
    /\ asLoop' = [asLoop EXCEPT ![a] = FALSE]

----------------------------------------------------------------------------
(* Nav2's action server, external.  It may end a goal at any time (newer   *)
(* goals preempt older ones) and answers when a worker takes the answer.   *)

Nav2Answers(g) ==
    /\ st[g] = "sent"
    /\ \E s \in {"running", "rejected"} : st' = [st EXCEPT ![g] = s]
    /\ UNCHANGED <<told, cancelReq, cancelAck, node, handlers, halted>>

Nav2Ends(g) ==
    /\ st[g] = "running"
    /\ \E s \in Ended : /\ s = "canceled" => cancelReq[g]
                        /\ st' = [st EXCEPT ![g] = s]
    /\ UNCHANGED <<told, cancelReq, cancelAck, node, handlers, halted>>

DeliverAnswer(g) ==
    /\ st[g] \notin {"unsent", "sent"} /\ ~told[g]
    /\ FreeWorker
    /\ told' = [told EXCEPT ![g] = TRUE]
    /\ UNCHANGED <<st, cancelReq, cancelAck, node, handlers, halted>>

DeliverCancelAck(g) ==
    /\ cancelReq[g] /\ ~cancelAck[g]
    /\ FreeWorker
    /\ cancelAck' = [cancelAck EXCEPT ![g] = TRUE]
    /\ UNCHANGED <<st, told, cancelReq, node, handlers, halted>>

----------------------------------------------------------------------------
(* Pieces the handlers share.                                              *)

ClearLoop == loopOn' = FALSE /\ loopCfg' = FALSE /\ poses' = FALSE

GoIdle == navigating' = FALSE /\ mode' = "idle"

(* _detach_goal_handle_locked, with and without the loop configuration. *)
Detach    == handle' = None /\ GoIdle /\ ClearLoop
DetachKeepingLoop == handle' = None /\ UNCHANGED loop

RequestCancel(g) ==
    /\ cancelReq' = [cancelReq EXCEPT ![g] = TRUE]
    /\ UNCHANGED <<st, told, cancelAck>>

(* send_goal_async, or no action server. *)
Send(a) ==
    /\ pc[a] = "send"
    /\ \/ \E g \in Goals :
             /\ st[g] = "unsent"
             /\ st' = [st EXCEPT ![g] = "sent"]
             /\ at' = [at EXCEPT ![a] = g]
             /\ Goto(a, "wait")
       \/ /\ Goto(a, "fail")
          /\ UNCHANGED <<st, at>>
    /\ UNCHANGED <<told, cancelReq, cancelAck, node, asLoop, others>>

(* The goal was accepted: it becomes the current one, whatever happened    *)
(* meanwhile, and its result callback is registered.                       *)
SendAccepted(a, next) ==
    LET g == at[a]
    IN  /\ pc[a] = "wait" /\ told[g] /\ Accepted(g)
        /\ handle' = g
        /\ poses' = TRUE
        /\ loopOn' = asLoop[a]
        /\ navigating' = TRUE
        /\ mode' = IF asLoop[a] THEN "loop" ELSE "point_to_point"
        /\ pc' = [pc EXCEPT ![a] = next, ![g] = "armed"]
        /\ at' = [at EXCEPT ![a] = None]
        /\ asLoop' = [asLoop EXCEPT ![a] = asLoop[a] /\ next # "idle"]
        /\ UNCHANGED <<nav2, manual, loopCfg, ignore, backup, others>>

(* Variant: only the time limit ends a wait, a rejection does not. *)
SendFailedOnSilence(a) ==
    /\ pc[a] = "wait"
    /\ ~told[at[a]] /\ "accept" \in TimeOuts
    /\ Goto(a, "fail")
    /\ at' = [at EXCEPT ![a] = None]
    /\ UNCHANGED <<nav2, node, asLoop, others>>

(* Rejected, or no answer within 5 s: Nav2 may still accept the goal.      *)
SendFailed(a) ==
    /\ pc[a] = "wait"
    /\ IF told[at[a]] THEN st[at[a]] = "rejected" ELSE "accept" \in TimeOuts
    /\ Goto(a, "fail")
    /\ at' = [at EXCEPT ![a] = None]
    /\ UNCHANGED <<nav2, node, asLoop, others>>

(* The thread of _cancel_goal_async. *)
CancelThread(g) ==
    /\ g \in toCancel
    /\ toCancel' = toCancel \ {g}
    /\ RequestCancel(g)
    /\ UNCHANGED <<node, pc, at, asLoop, savedCfg, halted>>

----------------------------------------------------------------------------
(* set_goal_ll: _on_set_goal and send_nav2_goals.                          *)

SetGoal(isLoop) ==
    /\ pc[Svc] = "idle" /\ FreeWorker
    /\ ~manual
    /\ Goto(Svc, "begin")
    /\ asLoop' = [asLoop EXCEPT ![Svc] = isLoop]
    /\ halted' = "no"
    /\ UNCHANGED <<nav2, node, at, toCancel, savedCfg>>

SetGoalBegin ==
    /\ pc[Svc] = "begin"
    /\ Goto(Svc, IF handle # None THEN "detach" ELSE "clear")
    /\ UNCHANGED <<nav2, node, at, asLoop, others>>

(* cancel_current_goal: without a handle (it ended meanwhile) the request  *)
(* fails, else the cancel is awaited.                                      *)
SetGoalDetach ==
    /\ pc[Svc] = "detach"
    /\ Detach
    /\ IF handle = None
       THEN Return(Svc) /\ UNCHANGED nav2
       ELSE /\ RequestCancel(handle)
            /\ Goto(Svc, "cancelwait")
            /\ at' = [at EXCEPT ![Svc] = handle]
            /\ UNCHANGED asLoop
    /\ UNCHANGED <<manual, ignore, backup, others>>

SetGoalCancelled ==
    /\ pc[Svc] = "cancelwait"
    /\ \/ /\ cancelAck[at[Svc]]
          /\ Goto(Svc, "clear")
          /\ at' = [at EXCEPT ![Svc] = None]
          /\ UNCHANGED asLoop
       \/ /\ ~cancelAck[at[Svc]] /\ "cancel" \in TimeOuts
          /\ Return(Svc)
    /\ UNCHANGED <<nav2, node, others>>

(* The old configuration is cleared; the conversion of the waypoints may   *)
(* fail afterwards.                                                        *)
SetGoalClear ==
    /\ pc[Svc] = "clear"
    /\ ClearLoop /\ GoIdle
    /\ \/ Goto(Svc, "send") /\ UNCHANGED <<at, asLoop>>
       \/ Return(Svc)
    /\ UNCHANGED <<nav2, handle, manual, ignore, backup, others>>

SetGoalAccepted == SendAccepted(Svc, IF asLoop[Svc] THEN "config" ELSE "idle")

SetGoalConfig ==
    /\ pc[Svc] = "config"
    /\ loopOn' = TRUE /\ loopCfg' = TRUE /\ poses' = TRUE
    /\ Return(Svc)
    /\ UNCHANGED <<nav2, handle, manual, navigating, mode, ignore, backup,
                   others>>

SetGoalFailed ==
    /\ pc[Svc] = "fail"
    /\ GoIdle
    /\ Return(Svc)
    /\ UNCHANGED <<nav2, handle, manual, loop, ignore, backup, others>>

----------------------------------------------------------------------------
(* Variant: hands the handle over and still keeps it. *)
CancelGoalKeepsHandle ==
    /\ pc[Svc] = "idle" /\ FreeWorker
    /\ GoIdle /\ ClearLoop
    /\ toCancel' = toCancel \cup ({handle} \ {None})
    /\ halted' = "cancel"
    /\ UNCHANGED <<nav2, handle, manual, ignore, backup, pc, at, asLoop, savedCfg>>

(* cancel_goal: the handle goes to a thread that cancels it.               *)
CancelGoal ==
    /\ pc[Svc] = "idle" /\ FreeWorker
    /\ Detach
    /\ toCancel' = toCancel \cup ({handle} \ {None})
    /\ halted' = "cancel"
    /\ UNCHANGED <<nav2, manual, ignore, backup, pc, at, asLoop, savedCfg>>

(* brake: apply_brake.                                                     *)
Brake ==
    /\ pc[Svc] = "idle" /\ FreeWorker
    /\ GoIdle
    /\ IF handle # None THEN Goto(Svc, "brakedetach") ELSE UNCHANGED pc
    /\ UNCHANGED <<nav2, handle, manual, loop, ignore, backup, at, asLoop, others>>

BrakeDetach ==
    /\ pc[Svc] = "brakedetach"
    /\ Detach
    /\ IF handle = None
       THEN Return(Svc) /\ UNCHANGED nav2
       ELSE /\ RequestCancel(handle)
            /\ Goto(Svc, "brakewait")
            /\ at' = [at EXCEPT ![Svc] = handle]
            /\ UNCHANGED asLoop
    /\ UNCHANGED <<manual, ignore, backup, others>>

BrakeReturn ==
    /\ pc[Svc] = "brakewait"
    /\ cancelAck[at[Svc]] \/ "cancel" \in TimeOuts
    /\ Return(Svc)
    /\ UNCHANGED <<nav2, node, others>>

----------------------------------------------------------------------------
(* set_manual_mode, called by its service and by the first teleop message. *)

(* _activate_manual_takeover_if_needed looks at the flag first. *)
TeleopArrives ==
    /\ pc[Tel] = "idle" /\ FreeWorker
    /\ ~manual
    /\ Goto(Tel, "manual")
    /\ UNCHANGED <<nav2, node, at, asLoop, others>>

ManualOn(a) ==
    /\ \/ a = Tel /\ pc[Tel] = "manual"
       \/ a = Svc /\ pc[Svc] = "idle" /\ FreeWorker
    /\ manual' = TRUE
    /\ GoIdle
    /\ Goto(a, IF handle # None THEN "manualdetach" ELSE "idle")
    /\ halted' = IF navigating /\ pc[Svc] = "idle" THEN "manual" ELSE halted
    /\ UNCHANGED <<nav2, handle, loop, ignore, backup, at, asLoop, toCancel, savedCfg>>

ManualDetach(a) ==
    /\ pc[a] = "manualdetach"
    /\ Detach
    /\ toCancel' = toCancel \cup ({handle} \ {None})
    /\ Return(a)
    /\ UNCHANGED <<nav2, manual, ignore, backup, savedCfg, halted>>

ManualOff ==
    /\ pc[Svc] = "idle" /\ FreeWorker
    /\ manual' = FALSE
    /\ halted' = IF halted = "manual" THEN "no" ELSE halted
    /\ UNCHANGED <<nav2, handle, navigating, mode, loop, ignore, backup, handlers>>

----------------------------------------------------------------------------
(* _on_nav_action_result_done, the callback of goal g's result.  It never  *)
(* asks whether g is still the current goal.                               *)

ResultArrives(g) ==
    /\ pc[g] = "armed" /\ st[g] \in Ended
    /\ FreeWorker
    /\ IF ignore > 0
       THEN ignore' = ignore - 1 /\ Goto(g, "done")
       ELSE Goto(g, "main") /\ UNCHANGED ignore
    /\ UNCHANGED <<nav2, handle, manual, navigating, mode, loop, backup,
                   at, asLoop, others>>

RestartsLoop(g) ==
    mode = "loop" /\ st[g] = "succeeded" /\ loopOn /\ ~manual /\ loopCfg

(* Variant: keeps the handle of the goal that ended. *)
ResultMainKeepsHandle(g) ==
    /\ pc[g] = "main"
    /\ IF RestartsLoop(g)
       THEN /\ Goto(g, "send")
            /\ asLoop' = [asLoop EXCEPT ![g] = TRUE]
            /\ UNCHANGED <<navigating, mode, loop>>
       ELSE /\ Goto(g, "done")
            /\ GoIdle
            /\ IF mode = "loop" THEN ClearLoop ELSE UNCHANGED loop
            /\ UNCHANGED asLoop
    /\ UNCHANGED <<nav2, handle, manual, ignore, backup, at, others>>

ResultMain(g) ==
    /\ pc[g] = "main"
    /\ handle' = None
    /\ IF RestartsLoop(g)
       THEN /\ Goto(g, "send")
            /\ asLoop' = [asLoop EXCEPT ![g] = TRUE]
            /\ UNCHANGED <<navigating, mode, loop>>
       ELSE /\ Goto(g, "done")
            /\ GoIdle
            /\ IF mode = "loop" THEN ClearLoop ELSE UNCHANGED loop
            /\ UNCHANGED asLoop
    /\ UNCHANGED <<nav2, manual, ignore, backup, at, others>>

RestartAccepted(g) == SendAccepted(g, "final")

(* The segment runs on unless the loop was switched off or manual mode     *)
(* taken meanwhile; then the new goal is neither detached nor cancelled.   *)
RestartFinal(g) ==
    /\ pc[g] \in {"final", "fail"}
    /\ IF pc[g] = "final" /\ loopOn /\ ~manual
       THEN /\ poses' = TRUE
            /\ navigating' = TRUE
            /\ mode' = "loop"
            /\ UNCHANGED <<loopOn, loopCfg>>
       ELSE ClearLoop /\ GoIdle
    /\ Return(g)
    /\ UNCHANGED <<nav2, handle, manual, ignore, backup, others>>

----------------------------------------------------------------------------
(* _start_collision_backup_recovery and its thread.                        *)

BackupStart ==
    /\ BackupEnabled /\ pc[Bk] = "idle"
    /\ pc[Tel] = "idle" /\ FreeWorker
    /\ ~backup /\ ~manual /\ handle # None /\ poses
    /\ backup' = TRUE
    /\ Goto(Bk, "check")
    /\ at' = [at EXCEPT ![Bk] = handle]
    /\ asLoop' = [asLoop EXCEPT ![Bk] = loopOn]
    /\ savedCfg' = loopCfg
    /\ UNCHANGED <<nav2, handle, manual, navigating, mode, loop, ignore, toCancel, halted>>

BackupCheck ==
    /\ pc[Bk] = "check"
    /\ IF manual \/ handle # at[Bk]
       THEN Goto(Bk, "fail") /\ UNCHANGED <<nav2, node>>
       ELSE /\ DetachKeepingLoop
            /\ navigating' = FALSE
            /\ mode' = "collision_backup"
            /\ ignore' = ignore + 1
            /\ RequestCancel(handle)
            /\ Goto(Bk, "cancelwait")
            /\ UNCHANGED <<manual, backup>>
    /\ UNCHANGED <<at, asLoop, others>>

BackupCancelled ==
    /\ pc[Bk] = "cancelwait"
    /\ \/ cancelAck[at[Bk]] /\ Goto(Bk, "backup") /\ UNCHANGED ignore
       \/ /\ ~cancelAck[at[Bk]] /\ "cancel" \in TimeOuts
          /\ ignore' = IF ignore > 0 THEN ignore - 1 ELSE 0
          /\ Goto(Bk, "fail")
    /\ UNCHANGED <<nav2, handle, manual, navigating, mode, loop, backup,
                   at, asLoop, others>>

(* Nav2's BackUp behaviour succeeds or not; then only manual mode is       *)
(* looked at again.                                                        *)
BackupMoved ==
    /\ pc[Bk] = "backup"
    /\ \E next \in {"recheck", "fail"} : Goto(Bk, next)
    /\ UNCHANGED <<nav2, node, at, asLoop, others>>

BackupRecheck ==
    /\ pc[Bk] = "recheck"
    /\ Goto(Bk, IF manual THEN "fail" ELSE "send")
    /\ UNCHANGED <<nav2, node, at, asLoop, others>>

BackupAccepted == SendAccepted(Bk, "restore")

BackupRestore ==
    /\ pc[Bk] = "restore"
    /\ IF asLoop[Bk] /\ savedCfg
       THEN loopCfg' = TRUE /\ poses' = TRUE /\ loopOn' = TRUE /\ mode' = "loop"
       ELSE UNCHANGED <<loop, mode>>
    /\ Goto(Bk, "end")
    /\ UNCHANGED <<nav2, handle, manual, navigating, ignore, backup,
                   at, asLoop, others>>

(* Variant: ends without leaving the recovery mode. *)
BackupFailedSilently ==
    /\ pc[Bk] = "fail"
    /\ Goto(Bk, "end")
    /\ UNCHANGED <<nav2, node, at, asLoop, others>>

BackupFailed ==
    /\ pc[Bk] = "fail"
    /\ GoIdle
    /\ Goto(Bk, "end")
    /\ UNCHANGED <<nav2, handle, manual, loop, ignore, backup, at, asLoop, others>>

BackupEnd ==
    /\ pc[Bk] = "end"
    /\ backup' = FALSE
    /\ Return(Bk)
    /\ savedCfg' = FALSE
    /\ UNCHANGED <<nav2, handle, manual, navigating, mode, loop, ignore, toCancel, halted>>

----------------------------------------------------------------------------
Nav2Steps(g) == Nav2Answers(g) \/ Nav2Ends(g)
Deliveries(g) == DeliverAnswer(g) \/ DeliverCancelAck(g)
Sends(a) == Send(a) \/ SendFailed(a)
ServiceRest == SetGoalBegin \/ SetGoalDetach \/ SetGoalCancelled \/ SetGoalClear
            \/ SetGoalAccepted \/ SetGoalConfig \/ SetGoalFailed
            \/ BrakeDetach \/ BrakeReturn \/ ManualDetach(Svc) \/ Sends(Svc)
ServiceSteps == ServiceRest \/ CancelGoal \/ Brake \/ ManualOff \/ ManualOn(Svc)
             \/ \E isLoop \in BOOLEAN : SetGoal(isLoop)
TeleopSteps == TeleopArrives \/ ManualOn(Tel) \/ ManualDetach(Tel)
ResultRest(g) == ResultMain(g) \/ RestartAccepted(g) \/ RestartFinal(g) \/ Sends(g)
ResultSteps(g) == ResultArrives(g) \/ ResultRest(g)
BackupRest == BackupCheck \/ BackupCancelled \/ BackupMoved \/ BackupRecheck
           \/ BackupAccepted \/ BackupRestore \/ BackupFailed \/ BackupEnd \/ Sends(Bk)

Next == \/ ServiceSteps \/ TeleopSteps \/ BackupStart \/ BackupRest
        \/ \E g \in Goals : \/ Nav2Steps(g) \/ Deliveries(g)
                            \/ ResultSteps(g) \/ CancelThread(g)

(* A handler or thread that runs goes on, and Nav2 answers a request.  A   *)
(* worker that is free again and again takes some waiting callback (strong *)
(* fairness: handlers may take the free worker many times first); which    *)
(* one is left open, each comes only once.                                 *)
Fairness ==
    /\ WF_vars(ServiceRest)
    /\ WF_vars(ManualOn(Tel) \/ ManualDetach(Tel))
    /\ WF_vars(BackupRest)
    /\ WF_vars(\E g \in Goals : ResultRest(g))
    /\ WF_vars(\E g \in Goals : CancelThread(g))
    /\ WF_vars(\E g \in Goals : Nav2Answers(g))
    /\ SF_vars(\E g \in Goals : Deliveries(g) \/ ResultArrives(g))

Spec == Init /\ [][Next]_vars
FairSpec == Spec /\ Fairness

----------------------------------------------------------------------------
(* Properties.                                                             *)

(* No handler is in progress and every cancel was handed to Nav2. *)
Quiet == /\ \A a \in Actors : ~Running(a)
         /\ pc[Bk] = "idle"
         /\ toCancel = {}

(* Whatever handlers interleave, the goal the node holds as current is one *)
(* whose result it has still to handle and that nobody has cancelled: the  *)
(* node never waits for a goal it has already thrown away.  (Without the   *)
(* backup manoeuvre, whose ignore counter can swallow a result.)           *)
HandleWillEnd ==
    handle # None => /\ pc[handle] \in {"armed", "main"}
                     /\ ~cancelReq[handle] /\ handle \notin toCancel

(* Every service request is answered: whatever Nav2 says to a goal or a    *)
(* cancel, and however late, the handler gives its worker back.            *)
ServiceAnswers == pc[Svc] # "idle" ~> pc[Svc] = "idle"

(* A goal that has ended in Nav2 does not stay the current one.            *)
EndedGoalIsDropped ==
    \A g \in Goals : (handle = g /\ st[g] \in Ended) ~> handle # g

(* The mode "collision_backup" is never left behind by a recovery thread   *)
(* that ended, whichever handlers changed the mode meanwhile: with it the  *)
(* node would report a manoeuvre that nobody makes.                        *)
BackupModeEnds == mode = "collision_backup" => backup

(* "El goal activo fue cancelado": the operator took manual mode while the *)
(* node was navigating; once nothing is in progress no accepted goal runs  *)
(* on in Nav2 without a cancel request.  The code does not keep this.      *)
ManualCancelsGoals ==
    manual /\ halted = "manual" /\ Quiet =>
        \A g \in Goals : st[g] = "running" => cancelReq[g]

(* "al cancelar un goal el robot queda en stop": after cancel_goal, with   *)
(* nothing in progress, the node does not navigate until it is given a new *)
(* goal.  The code does not keep this.                                     *)
CancelSticks == halted = "cancel" /\ Quiet => ~navigating

(* "Ignoring ... result from goal cancelled for collision recovery": the   *)
(* results that are ignored are those of cancelled goals.  The code does   *)
(* not keep this.                                                          *)
IgnoredWasCancelled ==
    [][\A g \in Goals : pc[g] = "armed" /\ pc'[g] = "done" => cancelReq[g]]_vars
=============================================================================
