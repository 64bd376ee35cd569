------------------------------ MODULE CmdGate ------------------------------
(***************************************************************************)
(* Arbitration of /cmd_vel_final in nav_command_server.py: who may move    *)
(* the vehicle.  Nav2's filtered velocity (/cmd_vel_safe), the operator's  *)
(* teleop, the manual watchdog, the collision monitor, the brake service   *)
(* and its hold threads all publish on one topic; they share flags guarded *)
(* by one lock, but they publish after releasing it.                       *)
(*                                                                         *)
(* Concurrency, as rclpy schedules it: the subscriptions and the watchdog  *)
(* timer are in the node's default MutuallyExclusive group (variable sub), *)
(* the services in another one (variable svc); brake holds and brake       *)
(* sequences run in threads of their own.  Each action below is one        *)
(* section under the lock or one publication.                              *)
(*                                                                         *)
(* What the goal life cycle does to navigating and goal is left open here  *)
(* (GoalAccepted, GoalDropped, GoalFailed); NavGoals models it.            *)
(***************************************************************************)
EXTENDS Naturals

CONSTANTS
    Holds,               \* threads that can run a sustained brake
    NoHold,              \* no hold is registered
    Seqs,                \* threads that can publish a brake sequence
    BrakeCount,          \* brake_publish_count
    ForwardWithoutGoal,  \* forward_cmd_vel_safe_without_goal
    CriticalSlowBrake,   \* critical_slow_brake_enabled and its pct > 0
    BackupEnabled        \* collision_backup_recovery_enabled

ASSUME GateAssumption ==
    /\ NoHold \notin Holds
    /\ BrakeCount \in Nat \ {0}
    /\ ForwardWithoutGoal \in BOOLEAN
    /\ CriticalSlowBrake \in BOOLEAN
    /\ BackupEnabled \in BOOLEAN

VARIABLES
    manual,         \* _manual_enabled
    navigating,     \* _is_navigating
    goal,           \* _current_goal_handle is not None
    collisionStop,  \* _collision_stop_active
    criticalSlow,   \* _critical_slow_brake_active, when its brake is above 0
    backup,         \* _collision_backup_active
    manualCmd,      \* age of _last_manual_cmd_time against manual_cmd_timeout_s
    stopSent,       \* _manual_watchdog_stop_sent
    reg,            \* the hold _brake_hold_cancel belongs to
    hpc,            \* hpc[h]: where hold thread h is
    hcancel,        \* hcancel[h]: its cancel event is set
    seqLeft,        \* seqLeft[t]: stops sequence thread t has still to publish
    sub,            \* the callback of the default group that is running
    svc,            \* the service handler that is running
    out,            \* the last message on /cmd_vel_final
    staleAuto,      \* history: AUTO messages published since manual began
    takenBy         \* history: which callback began manual mode

flags    == <<manual, navigating, goal>>
zones    == <<collisionStop, criticalSlow, backup>>
watchdog == <<manualCmd, stopSent>>
holds    == <<reg, hpc, hcancel>>
history  == <<staleAuto, takenBy>>
vars == <<flags, zones, watchdog, holds, seqLeft, sub, svc, out, history>>

(* A message is its source and the sign of linear.x ("zero": no motion at  *)
(* all).  SAFETY messages carry a brake, AUTO ones none.                   *)
Vel == {"zero", "fwd", "rev"}
TeleopVel == {"zero", "fwd"}      \* for the operator, moving or not
Msg == [src : {"auto", "manual", "safety"}, vel : Vel]
StopMsg    == [src |-> "safety", vel |-> "zero"]
ManualStop == [src |-> "manual", vel |-> "zero"]

SubPc == {"idle", "backup", "stop", "auto", "colbackup", "seq",
          "mode", "detach", "mstop", "cmd", "pub", "wstop", "wmark"}
SvcPc == {"idle", "detach", "mstop", "cstop", "cancel", "brake", "seq"}
Calls(pcs) == [pc : pcs, vel : Vel, flag : BOOLEAN, n : 0..BrakeCount]
NoCall == [pc |-> "idle", vel |-> "zero", flag |-> FALSE, n |-> 0]
Call(pc, vel, flag, n) == [pc |-> pc, vel |-> vel, flag |-> flag, n |-> n]

TypeOK ==
    /\ manual \in BOOLEAN /\ navigating \in BOOLEAN /\ goal \in BOOLEAN
    /\ collisionStop \in BOOLEAN /\ criticalSlow \in BOOLEAN /\ backup \in BOOLEAN
    /\ manualCmd \in {"none", "fresh", "stale"}
    /\ stopSent \in BOOLEAN
    /\ reg \in Holds \cup {NoHold}
    /\ hpc \in [Holds -> {"idle", "check", "pub", "exit"}]
    /\ hcancel \in [Holds -> BOOLEAN]
    /\ seqLeft \in [Seqs -> 0..BrakeCount]
    /\ sub \in Calls(SubPc)
    /\ svc \in Calls(SvcPc)
    /\ out \in Msg
    /\ staleAuto \in 0..2
    /\ takenBy \in {"none", "service", "teleop"}

Init ==
    /\ manual = FALSE /\ navigating = FALSE /\ goal = FALSE
    /\ collisionStop = FALSE /\ criticalSlow = FALSE /\ backup = FALSE
    /\ manualCmd = "none" /\ stopSent = FALSE
    /\ reg = NoHold
    /\ hpc = [h \in Holds |-> "idle"]
    /\ hcancel = [h \in Holds |-> FALSE]
    /\ seqLeft = [t \in Seqs |-> 0]
    /\ sub = NoCall /\ svc = NoCall
    /\ out = ManualStop
    /\ staleAuto = 0 /\ takenBy = "none"

----------------------------------------------------------------------------
(* Publications.                                                           *)

(* _publish_cmd_vel_final; the history counts AUTO messages under manual,  *)
(* up to 2.                                                                *)
Publish(m) ==
    /\ out' = m
    /\ staleAuto' = IF manual /\ m.src = "auto" /\ staleAuto < 2
                    THEN staleAuto + 1 ELSE staleAuto
    /\ UNCHANGED takenBy

----------------------------------------------------------------------------
(* Sections under the lock that several handlers share.                    *)

(* _cancel_brake_hold_locked *)
CancelHold ==
    /\ hcancel' = [h \in Holds |-> hcancel[h] \/ h = reg]
    /\ reg' = NoHold

(* set_manual_mode(True), its first section *)
ManualOn(who) ==
    /\ manual' = TRUE
    /\ navigating' = FALSE
    /\ UNCHANGED goal
    /\ CancelHold /\ UNCHANGED hpc
    /\ manualCmd' = "none"
    /\ stopSent' = FALSE
    /\ staleAuto' = IF manual THEN staleAuto ELSE 0
    /\ takenBy' = IF manual THEN takenBy ELSE who

(* _detach_goal_handle_locked *)
Detach ==
    /\ goal' = FALSE
    /\ navigating' = FALSE
    /\ UNCHANGED manual

(* The guards of _start_collision_backup_recovery; the cooldown and the    *)
(* presence of stored poses are free.                                      *)
BackupMayStart == ~backup /\ ~manual /\ goal

----------------------------------------------------------------------------
(* _on_cmd_vel_safe: the flags are copied under the lock, the decision and *)
(* the publication come after it.                                          *)

(* Variant: relies on navigating being cleared by manual mode. *)
SafeDroppedByGoalOnly(v) ==
    \/ ~navigating /\ ~ForwardWithoutGoal
    \/ backup /\ v = "fwd"

SafeDropped(v) ==
    \/ manual
    \/ ~navigating /\ ~ForwardWithoutGoal
    \/ backup /\ v = "fwd"

(* Variant: forgets the critical slow zone. *)
SafeOutcomeOnStop(v, stop, slow) ==
    IF stop THEN Call("stop", v, FALSE, 0) ELSE Call("auto", v, FALSE, 0)

(* What is published once no backup manoeuvre starts. *)
SafeOutcome(v, stop, slow) ==
    IF stop \/ (slow /\ v = "fwd")
    THEN Call("stop", v, FALSE, 0)
    ELSE Call("auto", v, FALSE, 0)

SafeRead(v) ==
    /\ sub.pc = "idle"
    /\ ~SafeDropped(v)
    /\ sub' = SafeOutcome(v, collisionStop, criticalSlow)
    /\ UNCHANGED <<flags, zones, watchdog, holds, seqLeft, svc, out, history>>

(* A stopped safe command under a recent forward raw command also asks for *)
(* the backup manoeuvre, with the zone flags it has already copied.        *)
SafeReadBackup ==
    /\ sub.pc = "idle"
    /\ BackupEnabled /\ goal
    /\ ~SafeDropped("zero")
    /\ sub' = Call("backup", "zero", collisionStop, 0)
    /\ UNCHANGED <<flags, zones, watchdog, holds, seqLeft, svc, out, history>>

SafeBackup ==
    /\ sub.pc = "backup"
    /\ \/ /\ BackupMayStart
          /\ backup' = TRUE
          /\ sub' = NoCall
       \/ /\ sub' = SafeOutcome("zero", sub.flag, FALSE)
          /\ UNCHANGED backup
    /\ UNCHANGED <<flags, collisionStop, criticalSlow, watchdog, holds,
                   seqLeft, svc, out, history>>

SafePublish ==
    /\ sub.pc \in {"stop", "auto"}
    /\ Publish(IF sub.pc = "stop" THEN StopMsg
               ELSE [src |-> "auto", vel |-> sub.vel])
    /\ sub' = NoCall
    /\ UNCHANGED <<flags, zones, watchdog, holds, seqLeft, svc>>

----------------------------------------------------------------------------
(* _on_collision_monitor_state *)

CollisionKind == {"clear", "stop", "slow"}

CollisionState(kind) ==
    LET stop == kind = "stop"
        slow == kind = "slow" /\ CriticalSlowBrake
        asksBackup == /\ stop /\ ~collisionStop /\ BackupEnabled
                      /\ goal /\ ~manual /\ (navigating \/ ForwardWithoutGoal)
        brakes == /\ ~manual /\ navigating
                  /\ stop \/ (slow /\ ~criticalSlow)
    IN  /\ sub.pc = "idle"
        /\ collisionStop' = stop
        /\ criticalSlow' = slow
        /\ sub' = CASE asksBackup -> Call("colbackup", "zero", navigating, 0)
                    [] ~asksBackup /\ brakes -> Call("seq", "zero", FALSE, BrakeCount)
                    [] OTHER -> NoCall
        /\ UNCHANGED <<flags, backup, watchdog, holds, seqLeft, svc, out, history>>

CollisionBackup ==
    /\ sub.pc = "colbackup"
    /\ \/ /\ BackupMayStart
          /\ backup' = TRUE
          /\ sub' = NoCall
       \/ /\ sub' = IF sub.flag THEN Call("seq", "zero", FALSE, BrakeCount)
                    ELSE NoCall
          /\ UNCHANGED backup
    /\ UNCHANGED <<flags, collisionStop, criticalSlow, watchdog, holds,
                   seqLeft, svc, out, history>>

(* _publish_brake_sequence inside the callback *)
SubSequence ==
    /\ sub.pc = "seq"
    /\ Publish(StopMsg)
    /\ sub' = IF sub.n > 1 THEN [sub EXCEPT !.n = @ - 1] ELSE NoCall
    /\ UNCHANGED <<flags, zones, watchdog, holds, seqLeft, svc>>

----------------------------------------------------------------------------
(* _on_teleop_cmd: takes manual mode when it is off, then set_manual_cmd.  *)

TeleopStart(v) ==
    /\ sub.pc = "idle"
    /\ sub' = Call(IF manual THEN "cmd" ELSE "mode", v, FALSE, 0)
    /\ UNCHANGED <<flags, zones, watchdog, holds, seqLeft, svc, out, history>>

TeleopMode ==
    /\ sub.pc = "mode"
    /\ ManualOn("teleop")
    /\ sub' = [sub EXCEPT !.pc = IF goal THEN "detach" ELSE "mstop"]
    /\ UNCHANGED <<zones, seqLeft, svc, out>>

TeleopDetach ==
    /\ sub.pc = "detach"
    /\ Detach
    /\ sub' = [sub EXCEPT !.pc = "mstop"]
    /\ UNCHANGED <<zones, watchdog, holds, seqLeft, svc, out, history>>

TeleopStop ==
    /\ sub.pc = "mstop"
    /\ Publish(ManualStop)
    /\ sub' = [sub EXCEPT !.pc = "cmd"]
    /\ UNCHANGED <<flags, zones, watchdog, holds, seqLeft, svc>>

(* Variant: does not re-arm the watchdog's stop. *)
TeleopCmdKeepsMark ==
    /\ sub.pc = "cmd"
    /\ \/ manual /\ sub' = [sub EXCEPT !.pc = "pub"] /\ manualCmd' = "fresh"
       \/ sub' = NoCall /\ UNCHANGED manualCmd
    /\ UNCHANGED <<flags, zones, stopSent, holds, seqLeft, svc, out, history>>

(* Rejected when manual mode was switched off meanwhile, and when a value  *)
(* is no finite number (which the kinds of velocity do not tell).          *)
TeleopCmd ==
    /\ sub.pc = "cmd"
    /\ \/ /\ manual
          /\ sub' = [sub EXCEPT !.pc = "pub"]
          /\ manualCmd' = "fresh"
          /\ stopSent' = FALSE
       \/ /\ sub' = NoCall
          /\ UNCHANGED watchdog
    /\ UNCHANGED <<flags, zones, holds, seqLeft, svc, out, history>>

TeleopPublish ==
    /\ sub.pc = "pub"
    /\ Publish([src |-> "manual", vel |-> sub.vel])
    /\ sub' = NoCall
    /\ UNCHANGED <<flags, zones, watchdog, holds, seqLeft, svc>>

----------------------------------------------------------------------------
(* _manual_watchdog_tick; manual_cmd_timeout_s passes in CmdAges.          *)

CmdAges ==
    /\ manualCmd = "fresh"
    /\ manualCmd' = "stale"
    /\ UNCHANGED <<flags, zones, stopSent, holds, seqLeft, sub, svc, out, history>>

(* Variant: waits for a first command before it watches. *)
WatchdogReadAfterCommand ==
    /\ sub.pc = "idle"
    /\ manual /\ manualCmd = "stale" /\ ~stopSent
    /\ sub' = Call("wstop", "zero", FALSE, 0)
    /\ UNCHANGED <<flags, zones, watchdog, holds, seqLeft, svc, out, history>>

WatchdogRead ==
    /\ sub.pc = "idle"
    /\ manual /\ manualCmd # "fresh" /\ ~stopSent
    /\ sub' = Call("wstop", "zero", FALSE, 0)
    /\ UNCHANGED <<flags, zones, watchdog, holds, seqLeft, svc, out, history>>

WatchdogStop ==
    /\ sub.pc = "wstop"
    /\ Publish(ManualStop)
    /\ sub' = [sub EXCEPT !.pc = "wmark"]
    /\ UNCHANGED <<flags, zones, watchdog, holds, seqLeft, svc>>

WatchdogMark ==
    /\ sub.pc = "wmark"
    /\ stopSent' = TRUE
    /\ sub' = NoCall
    /\ UNCHANGED <<flags, zones, manualCmd, holds, seqLeft, svc, out, history>>

----------------------------------------------------------------------------
(* _on_set_manual_mode *)

SvcManualOn ==
    /\ svc.pc = "idle"
    /\ ManualOn("service")
    /\ svc' = Call(IF goal THEN "detach" ELSE "mstop", "zero", FALSE, 0)
    /\ UNCHANGED <<zones, seqLeft, sub, out>>

SvcDetach ==
    /\ svc.pc = "detach"
    /\ Detach
    /\ svc' = [svc EXCEPT !.pc = "mstop"]
    /\ UNCHANGED <<zones, watchdog, holds, seqLeft, sub, out, history>>

SvcManualOff ==
    /\ svc.pc = "idle"
    /\ manual' = FALSE
    /\ manualCmd' = "none"
    /\ stopSent' = FALSE
    /\ staleAuto' = 0 /\ takenBy' = "none"
    /\ svc' = Call("mstop", "zero", FALSE, 0)
    /\ UNCHANGED <<navigating, goal, zones, holds, seqLeft, sub, out>>

SvcManualStop ==
    /\ svc.pc = "mstop"
    /\ Publish(ManualStop)
    /\ svc' = NoCall
    /\ UNCHANGED <<flags, zones, watchdog, holds, seqLeft, sub>>

----------------------------------------------------------------------------
(* _on_cancel_goal: one stop at once, the rest of the sequence from a      *)
(* thread of its own.                                                      *)

SvcCancel ==
    /\ svc.pc = "idle"
    /\ Detach
    /\ svc' = IF manual THEN NoCall ELSE Call("cstop", "zero", FALSE, 0)
    /\ UNCHANGED <<zones, watchdog, holds, seqLeft, sub, out, history>>

SvcCancelStop ==
    /\ svc.pc = "cstop"
    /\ Publish(StopMsg)
    /\ IF BrakeCount > 1
       THEN \E t \in Seqs : /\ seqLeft[t] = 0
                            /\ seqLeft' = [seqLeft EXCEPT ![t] = BrakeCount - 1]
       ELSE UNCHANGED seqLeft
    /\ svc' = NoCall
    /\ UNCHANGED <<flags, zones, watchdog, holds, sub>>

SequencePublish(t) ==
    /\ seqLeft[t] > 0
    /\ Publish(StopMsg)
    /\ seqLeft' = [seqLeft EXCEPT ![t] = @ - 1]
    /\ UNCHANGED <<flags, zones, watchdog, holds, sub, svc>>

----------------------------------------------------------------------------
(* _on_brake / apply_brake; sustained says whether duration_s > 0.         *)

SvcBrake(sustained) ==
    /\ svc.pc = "idle"
    /\ navigating' = FALSE
    /\ svc' = Call(IF goal THEN "cancel" ELSE "brake", "zero", sustained, 0)
    /\ UNCHANGED <<manual, goal, zones, watchdog, holds, seqLeft, sub, out, history>>

SvcBrakeCancel ==
    /\ svc.pc = "cancel"
    /\ Detach
    /\ svc' = [svc EXCEPT !.pc = "brake"]
    /\ UNCHANGED <<zones, watchdog, holds, seqLeft, sub, out, history>>

(* Variant: registers h over the previous hold without cancelling it. *)
SvcBrakeHoldOver(h) ==
    /\ svc.pc = "brake" /\ svc.flag
    /\ hpc[h] = "idle"
    /\ reg' = h
    /\ hpc' = [hpc EXCEPT ![h] = "check"]
    /\ UNCHANGED hcancel
    /\ svc' = NoCall
    /\ UNCHANGED <<flags, zones, watchdog, seqLeft, sub, out, history>>

(* _start_brake_hold: the previous hold is cancelled, h is registered.     *)
SvcBrakeHold(h) ==
    /\ svc.pc = "brake" /\ svc.flag
    /\ hpc[h] = "idle"
    /\ reg' = h
    /\ hpc' = [hpc EXCEPT ![h] = "check"]
    /\ hcancel' = [x \in Holds |-> x # h /\ (hcancel[x] \/ x = reg)]
    /\ svc' = NoCall
    /\ UNCHANGED <<flags, zones, watchdog, seqLeft, sub, out, history>>

SvcBrakeShort ==
    /\ svc.pc = "brake" /\ ~svc.flag
    /\ CancelHold /\ UNCHANGED hpc
    /\ svc' = Call("seq", "zero", FALSE, BrakeCount)
    /\ UNCHANGED <<flags, zones, watchdog, seqLeft, sub, out, history>>

SvcSequence ==
    /\ svc.pc = "seq"
    /\ Publish(StopMsg)
    /\ svc' = IF svc.n > 1 THEN [svc EXCEPT !.n = @ - 1] ELSE NoCall
    /\ UNCHANGED <<flags, zones, watchdog, holds, seqLeft, sub>>

(* The hold thread: it tests its cancel event and its deadline (free),     *)
(* then publishes; leaving, it clears its registration if it still has it. *)
HoldCheck(h) ==
    /\ hpc[h] = "check"
    /\ \/ /\ ~hcancel[h]
          /\ hpc' = [hpc EXCEPT ![h] = "pub"]
       \/ hpc' = [hpc EXCEPT ![h] = "exit"]
    /\ UNCHANGED <<flags, zones, watchdog, reg, hcancel, seqLeft, sub, svc, out, history>>

HoldPublish(h) ==
    /\ hpc[h] = "pub"
    /\ Publish(StopMsg)
    /\ hpc' = [hpc EXCEPT ![h] = "check"]
    /\ UNCHANGED <<flags, zones, watchdog, reg, hcancel, seqLeft, sub, svc>>

HoldExit(h) ==
    /\ hpc[h] = "exit"
    /\ hpc' = [hpc EXCEPT ![h] = "idle"]
    /\ hcancel' = [hcancel EXCEPT ![h] = FALSE]
    /\ reg' = IF reg = h THEN NoHold ELSE reg
    /\ UNCHANGED <<flags, zones, watchdog, seqLeft, sub, svc, out, history>>

----------------------------------------------------------------------------
(* The goal life cycle, seen from here: any of these sections may come at  *)
(* any time (NavGoals says when they do).                                  *)

(* A Nav2 goal was accepted; manual mode is not looked at again.           *)
GoalAccepted ==
    /\ goal' = TRUE /\ navigating' = TRUE
    /\ UNCHANGED <<manual, zones, watchdog, holds, seqLeft, sub, svc, out, history>>

(* The final section of a loop restart. *)
GoalResumed ==
    /\ ~manual
    /\ navigating' = TRUE
    /\ UNCHANGED <<manual, goal, zones, watchdog, holds, seqLeft, sub, svc, out, history>>

(* A result arrived or the goal was detached; while the next loop segment  *)
(* is being sent navigating stays as it is.                                *)
GoalDropped ==
    /\ goal' = FALSE
    /\ navigating' \in {FALSE, navigating}
    /\ UNCHANGED <<manual, zones, watchdog, holds, seqLeft, sub, svc, out, history>>

(* A result that forces the brake sequence when not in manual mode; after  *)
(* a restart that was accepted in vain the goal stays.                     *)
GoalFailed(t) ==
    /\ goal' \in {FALSE, goal} /\ navigating' = FALSE
    /\ ~manual
    /\ seqLeft[t] = 0
    /\ seqLeft' = [seqLeft EXCEPT ![t] = BrakeCount]
    /\ UNCHANGED <<manual, zones, watchdog, holds, sub, svc, out, history>>

(* A goal or a restart that could not be sent. *)
GoalNotSent ==
    /\ navigating' = FALSE
    /\ UNCHANGED <<manual, goal, zones, watchdog, holds, seqLeft, sub, svc, out, history>>

BackupEnded ==
    /\ backup
    /\ backup' = FALSE
    /\ UNCHANGED <<flags, collisionStop, criticalSlow, watchdog, holds,
                   seqLeft, sub, svc, out, history>>

----------------------------------------------------------------------------
SafeSteps == SafeReadBackup \/ SafeBackup \/ SafePublish
          \/ \E v \in Vel : SafeRead(v)
CollisionSteps == CollisionBackup \/ SubSequence
               \/ \E kind \in CollisionKind : CollisionState(kind)
TeleopRest  == TeleopMode \/ TeleopDetach \/ TeleopStop \/ TeleopCmd \/ TeleopPublish
TeleopSteps == TeleopRest \/ \E v \in TeleopVel : TeleopStart(v)
WatchdogSteps == WatchdogRead \/ WatchdogStop \/ WatchdogMark
ServiceRest == SvcDetach \/ SvcManualStop \/ SvcCancelStop \/ SvcBrakeCancel
            \/ SvcBrakeShort \/ SvcSequence \/ \E h \in Holds : SvcBrakeHold(h)
ServiceSteps == ServiceRest \/ SvcManualOn \/ SvcManualOff \/ SvcCancel
             \/ \E sustained \in BOOLEAN : SvcBrake(sustained)
HoldSteps(h) == HoldCheck(h) \/ HoldPublish(h) \/ HoldExit(h)
GoalSteps == GoalAccepted \/ GoalResumed \/ GoalDropped \/ GoalNotSent
          \/ BackupEnded \/ \E t \in Seqs : GoalFailed(t)

Next == \/ SafeSteps \/ CollisionSteps \/ TeleopSteps \/ WatchdogSteps
        \/ CmdAges \/ ServiceSteps \/ GoalSteps
        \/ \E t \in Seqs : SequencePublish(t)
        \/ \E h \in Holds : HoldSteps(h)

(* A callback or a thread that has begun runs to its end; the timer is     *)
(* served again and again whenever its group is free (rclpy looks at the   *)
(* timers first in every pass), which is strong fairness.                  *)
Fairness ==
    /\ WF_vars(SafeBackup \/ SafePublish \/ CollisionBackup \/ SubSequence
               \/ TeleopRest \/ WatchdogStop \/ WatchdogMark)
    /\ SF_vars(WatchdogRead)
    /\ WF_vars(ServiceRest)
    /\ \A t \in Seqs : WF_vars(SequencePublish(t))
    /\ \A h \in Holds : WF_vars(HoldSteps(h))

Spec == Init /\ [][Next]_vars
FairSpec == Spec /\ Fairness

----------------------------------------------------------------------------
(* The arbiter as DriveAuthority sees it.                                  *)

Mode ==
    IF manual THEN IF stopSent THEN "calm" ELSE "manual"
    ELSE IF navigating \/ ForwardWithoutGoal THEN "auto" ELSE "idle"

AutoMotions == {"autoForward", "autoReverse"}

(* The AUTO motions a STOP, a critical slow zone or a backup forbids. *)
Barred == {m \in AutoMotions :
             collisionStop \/ (m = "autoForward" /\ (criticalSlow \/ backup))}

(* The motion of a velocity with this source. *)
Motion(src, vel) ==
    CASE src = "auto" /\ vel = "fwd" -> "autoForward"
      [] src = "auto" /\ vel = "rev" -> "autoReverse"
      [] OTHER -> "manual"

Late == IF sub.vel = "zero" \/ sub.pc \notin {"auto", "pub"} THEN "nothing"
        ELSE Motion(IF sub.pc = "auto" THEN "auto" ELSE "manual", sub.vel)

Word == IF out.vel = "zero" THEN "still" ELSE Motion(out.src, out.vel)

Authority == INSTANCE DriveAuthority
             WITH mode <- Mode, barred <- Barred, late <- Late, word <- Word

----------------------------------------------------------------------------
(* Properties.                                                             *)

(* Whatever callbacks and threads do, the node keeps what DriveAuthority   *)
(* promises: only a motion that was decided while its source was in charge *)
(* and the zones allowed it is published, once, and after the watchdog's   *)
(* mark none before the operator's next command.                           *)
DrivesAsPromised == Authority!Spec

(* An AUTO message about to be published was decided from flags that may   *)
(* have changed since.  The zone flags cannot have: the collision monitor  *)
(* callback, the backup trigger and the teleop takeover share the group of *)
(* _on_cmd_vel_safe.  So once a STOP, a critical slow zone or a backup is  *)
(* known, no forward AUTO message follows (with STOP, none at all).        *)
AutoRespectsZones ==
    sub.pc = "auto" => /\ ~collisionStop
                       /\ sub.vel = "fwd" => ~backup /\ ~criticalSlow

(* Manual mode entered through the service can be followed by one AUTO     *)
(* message, the one in flight, and never by a second; taken by a teleop    *)
(* message (same group) by none.                                           *)
TakeoverIsBounded ==
    /\ staleAuto <= 1
    /\ takenBy = "teleop" => staleAuto = 0 /\ sub.pc # "auto"

(* The watchdog sends its stop once; "already sent" must mean that what    *)
(* the controller heard last is standing still, also after manual mode was *)
(* toggled or a stale AUTO slipped in.                                     *)
WatchdogMarkIsHonest ==
    manual /\ stopSent /\ sub.pc = "idle" => out.vel = "zero"

(* A brake hold that runs and is not cancelled is the registered one, so   *)
(* that manual mode or the next brake can always silence it.               *)
LoneHold ==
    \A h \in Holds : hpc[h] # "idle" /\ ~hcancel[h] => reg = h

(* Manual mode with a silent operator brings the vehicle to a stop for     *)
(* good (manual_cmd_timeout_s), whatever slipped in before.                *)
ManualSilenceStops ==
    <>[](manual /\ manualCmd # "fresh") => <>[](out.vel = "zero")

(* "ignores_auto_while_manual": no AUTO message under manual mode at all.  *)
(* The code does not keep this (README).                                   *)
NoAutoWhileManual == staleAuto = 0
=============================================================================
