------------------------------ MODULE UartLink ------------------------------
(***************************************************************************)
(* The last leg of a velocity command: controller_server turns the newest  *)
(* /cmd_vel_final message into a DesiredCommand, its control tick writes   *)
(* that command field by field into the CommandState of CommsClient, and   *)
(* the transmit thread sends a snapshot of it to the ESP32 at its own      *)
(* rate.  The node's callbacks run one at a time (rclpy.spin); the         *)
(* transmit thread interleaves with the five setters.  stop() may be       *)
(* called anywhere: Ctrl-C reaches the main thread between two setters.    *)
(*                                                                         *)
(* Speeds are integers (the wire's cm/s); of the steering only whether it  *)
(* is centred is kept.                                                     *)
(***************************************************************************)
EXTENDS Integers, Sequences

CONSTANTS
    Linears,        \* twist.linear.x of the messages (a bound)
    Brakes,         \* brake_pct of the messages (a bound)
    MaxSpeed,       \* max_speed_mps
    MaxReverse,     \* max_reverse_mps
    Deadband,       \* vx_deadband_mps
    MinEffective,   \* vx_min_effective_mps
    DriveEnabled,   \* auto_drive_enabled
    EstopBrake      \* estop_brake_pct

ASSUME LinkAssumption ==
    /\ Linears \subseteq Int
    /\ Brakes \subseteq 0..255
    /\ MaxSpeed \in Nat /\ MaxReverse \in Nat /\ MaxSpeed < 65536 /\ MaxReverse < 65536
    /\ Deadband \in Nat /\ MinEffective \in Nat
    /\ DriveEnabled \in BOOLEAN
    /\ EstopBrake \in Int

VARIABLES
    cmd,      \* _auto_cmd
    fresh,    \* _auto_stamp_s is not older than auto_timeout_s
    target,   \* the command the control tick is writing, or wrote last
    step,     \* the setter apply_command calls next; 0: no tick is running
    state,    \* CommsClient._state
    tx,       \* the transmit thread
    wire,     \* the last frame that was written
    stopping, \* where CommsClient.stop() is
    left,     \* safe frames stop() has still to send
    sent,     \* history: what of target the frame on the wire contains
    safeOk    \* history: a safe frame of stop() was written

node  == <<cmd, fresh, target, step>>
vars == <<node, state, tx, wire, stopping, left, sent, safeOk>>

----------------------------------------------------------------------------
(* Commands.                                                               *)

Clamp(v, low, high) == IF v < low THEN low ELSE IF v > high THEN high ELSE v
Abs(v) == IF v < 0 THEN -v ELSE v

Steers == {"centre", "turn"}
Speeds == -MaxReverse .. MaxSpeed
Command == [drive : BOOLEAN, estop : BOOLEAN, speed : Speeds,
            steer : Steers, brake : 0..100]

(* safe_command and CommandState.safe_reset *)
SafeCommand == [drive |-> FALSE, estop |-> FALSE, speed |-> 0,
                steer |-> "centre", brake |-> 0]

(* The speed shaping of command_from_cmd_vel: limits, deadband, and for    *)
(* forward motion the least speed the motor controller can hold.           *)
SpeedOf(linear) ==
    LET forward == Clamp(linear, 0, MaxSpeed)
        reverse == Clamp(-linear, 0, MaxReverse)
        least   == Clamp(MinEffective, 0, MaxSpeed)
    IN  IF linear > 0
        THEN IF forward < Deadband THEN 0
             ELSE IF forward < least THEN least ELSE forward
        ELSE IF reverse < Deadband THEN 0 ELSE -reverse

CommandFromCmdVel(linear, steer, brakePct) ==
    LET brake == Clamp(brakePct, 0, 100)
        estop == brake > 0
    IN  [drive |-> DriveEnabled,
         estop |-> estop,
         speed |-> IF estop THEN 0 ELSE SpeedOf(linear),
         steer |-> IF estop THEN "centre" ELSE steer,
         brake |-> brake]

(* Variants: a stale command stays in force; an emergency stop keeps the   *)
(* brake of its message.                                                   *)
EffectiveWhenStale ==
    IF cmd.estop THEN [cmd EXCEPT !.drive = FALSE, !.brake = EstopBrake] ELSE cmd
EffectiveOwnBrake ==
    LET chosen == IF fresh THEN cmd ELSE SafeCommand
    IN  IF chosen.estop THEN [chosen EXCEPT !.drive = FALSE] ELSE chosen

(* What the control tick applies: select_effective_command, then the       *)
(* emergency stop.                                                         *)
Effective ==
    LET chosen == IF fresh THEN cmd ELSE SafeCommand
    IN  IF chosen.estop
        THEN [drive |-> FALSE, estop |-> TRUE, speed |-> 0, steer |-> "centre",
              brake |-> IF chosen.brake > EstopBrake THEN chosen.brake ELSE EstopBrake]
        ELSE chosen

(* The setters of CommandState clamp again. *)
Stored(field, value) ==
    CASE field = "speed" -> Clamp(value, -MaxReverse, MaxSpeed)
      [] field = "brake" -> Clamp(value, 0, 100)
      [] OTHER -> value

(* Variants: driving is switched last; the speed comes last. *)
SettersDriveLast == <<"estop", "speed", "steer", "brake", "drive">>
SettersSpeedLast == <<"drive", "estop", "steer", "brake", "speed">>

Setters == <<"drive", "estop", "speed", "steer", "brake">>

(* The largest magnitude (cm/s) the two bytes of the frame hold. *)
WireLimit == 65535

(* encode_pi_frame: the sign of the speed travels in a flag. *)
Frame(s) ==
    [drive |-> s.drive, estop |-> s.estop,
     reverse |-> s.speed < 0, speed |-> Clamp(Abs(s.speed), 0, WireLimit),
     steer |-> s.steer, brake |-> Clamp(s.brake, 0, 100)]
Frames == [drive : BOOLEAN, estop : BOOLEAN, reverse : BOOLEAN, speed : 0..WireLimit,
           steer : Steers, brake : 0..100]

(* A command or a frame that lets the vehicle move. *)
Moves(c) == c.drive /\ ~c.estop /\ c.speed # 0

TypeOK ==
    /\ cmd \in Command
    /\ fresh \in BOOLEAN
    /\ target \in [drive : BOOLEAN, estop : BOOLEAN, speed : Speeds,
                   steer : Steers, brake : Int]
    /\ step \in 0..5
    /\ state \in Command
    /\ tx \in [pc : {"idle", "write", "ended"}, frame : Frames,
               holds : {"old", "part", "all"}]
    /\ wire \in Frames
    /\ stopping \in {"no", "event", "join", "snapshot", "write", "closed"}
    /\ left \in 0..3
    /\ sent \in {"old", "part", "all"}
    /\ safeOk \in BOOLEAN

(* The transmit thread between two frames: _write_current_frame keeps its  *)
(* frame in a local variable.                                              *)
Resting == [pc |-> "idle", frame |-> Frame(SafeCommand), holds |-> "old"]

Init ==
    /\ cmd = SafeCommand /\ fresh = FALSE
    /\ target = SafeCommand /\ step = 0
    /\ state = SafeCommand
    /\ tx = Resting
    /\ wire = Frame(SafeCommand)
    /\ stopping = "no" /\ left = 0
    /\ sent = "old" /\ safeOk = FALSE

\* A link that is closed.
Ended ==
    /\ cmd = SafeCommand /\ fresh = FALSE
    /\ target = SafeCommand /\ step = 0
    /\ state = SafeCommand
    /\ tx = [Resting EXCEPT !.pc = "ended"]
    /\ wire = Frame(SafeCommand)
    /\ stopping = "closed" /\ left = 0
    /\ sent = "old" /\ safeOk = FALSE

----------------------------------------------------------------------------
(* The node's callbacks.                                                   *)

(* _on_cmd_vel_final *)
Receive(linear, steer, brakePct) ==
    /\ stopping = "no" /\ step = 0
    /\ cmd' = CommandFromCmdVel(linear, steer, brakePct)
    /\ fresh' = TRUE
    /\ UNCHANGED <<target, step, state, tx, wire, stopping, left, sent, safeOk>>

(* auto_timeout_s passes. *)
CmdAges ==
    /\ fresh
    /\ fresh' = FALSE
    /\ UNCHANGED <<cmd, target, step, state, tx, wire, stopping, left, sent, safeOk>>

(* _control_tick chooses its command ... *)
Tick ==
    /\ stopping = "no" /\ step = 0
    /\ target' = Effective
    /\ step' = 1
    /\ sent' = "old"
    /\ tx' = [tx EXCEPT !.holds = "old"]
    /\ UNCHANGED <<cmd, fresh, state, wire, stopping, left, safeOk>>

(* ... and apply_command stores it, one setter and one lock at a time.     *)
Apply ==
    /\ stopping = "no" /\ step > 0
    /\ LET field == Setters[step]
       IN  state' = [state EXCEPT ![field] = Stored(field, target[field])]
    /\ step' = (step + 1) % 6
    /\ UNCHANGED <<cmd, fresh, target, tx, wire, stopping, left, sent, safeOk>>

----------------------------------------------------------------------------
(* The transmit thread: _tx_loop, _write_current_frame.                    *)

(* The command being applied has taken hold: with the first setter when it *)
(* disables driving, with the third (the speed) when it does not.          *)
Committed == step # 1 /\ (target.drive => step \notin {2, 3})

Share == IF step = 0 THEN "all" ELSE IF Committed THEN "part" ELSE "old"

TxSnapshot ==
    /\ tx.pc = "idle" /\ stopping \in {"no", "event"}
    /\ tx' = [pc |-> "write", frame |-> Frame(state), holds |-> Share]
    /\ UNCHANGED <<node, state, wire, stopping, left, sent, safeOk>>

TxWrite ==
    /\ tx.pc = "write"
    /\ tx' = Resting
    /\ wire' = tx.frame
    /\ sent' = tx.holds
    /\ UNCHANGED <<node, state, stopping, left, safeOk>>

(* The write times out or the port is gone: counted, nothing else. *)
TxFails ==
    /\ tx.pc = "write"
    /\ tx' = Resting
    /\ UNCHANGED <<node, state, wire, stopping, left, sent, safeOk>>

(* The loop sees the stop event. *)
TxEnds ==
    /\ tx.pc = "idle" /\ stopping = "join"
    /\ tx' = [tx EXCEPT !.pc = "ended"]
    /\ UNCHANGED <<node, state, wire, stopping, left, sent, safeOk>>

----------------------------------------------------------------------------
(* CommsClient.stop(), called by destroy_node on the main thread.  A write *)
(* times out after 0.05 s, so the join (1.5 s) finds the thread ended.     *)

Stop ==
    /\ stopping = "no"
    /\ stopping' = "event"
    /\ state' = SafeCommand
    /\ step' = 0
    /\ target' = SafeCommand
    /\ sent' = "old"
    /\ tx' = [tx EXCEPT !.holds = "old"]
    /\ UNCHANGED <<cmd, fresh, wire, left, safeOk>>

StopEvent ==
    /\ stopping = "event"
    /\ stopping' = "join"
    /\ UNCHANGED <<node, state, tx, wire, left, sent, safeOk>>

(* Variant: does not wait for the thread. *)
StopUnjoined ==
    /\ stopping = "join"
    /\ stopping' = "snapshot"
    /\ state' = SafeCommand
    /\ left' = 3
    /\ UNCHANGED <<node, tx, wire, sent, safeOk>>

(* The thread has ended; _send_safe_frames(3) begins. *)
StopJoined ==
    /\ stopping = "join" /\ tx.pc = "ended"
    /\ stopping' = "snapshot"
    /\ state' = SafeCommand
    /\ left' = 3
    /\ UNCHANGED <<node, tx, wire, sent, safeOk>>

SafeFrame ==
    /\ stopping = "snapshot" /\ left > 0
    /\ left' = left - 1
    /\ \/ wire' = Frame(state) /\ sent' = Share /\ safeOk' = TRUE
       \/ UNCHANGED <<wire, sent, safeOk>>
    /\ UNCHANGED <<node, state, tx, stopping>>

StopCloses ==
    /\ stopping = "snapshot" /\ left = 0
    /\ stopping' = "closed"
    /\ UNCHANGED <<node, state, tx, wire, left, sent, safeOk>>

----------------------------------------------------------------------------
NodeSteps == Tick \/ Apply
TxSteps   == TxSnapshot \/ TxFails \/ TxEnds
StopSteps == StopEvent \/ StopJoined \/ SafeFrame \/ StopCloses

Next == \/ \E linear \in Linears, steer \in Steers, brakePct \in Brakes :
              Receive(linear, steer, brakePct)
        \/ CmdAges \/ NodeSteps \/ TxSteps \/ TxWrite \/ Stop \/ StopSteps

(* The control timer and both threads go on; a serial port that is tried   *)
(* again and again sometimes takes a frame.                                *)
Fairness ==
    /\ WF_vars(NodeSteps)
    /\ WF_vars(TxSnapshot) /\ SF_vars(TxWrite)

Spec == Init /\ [][Next]_vars
FairSpec == Spec /\ Fairness

----------------------------------------------------------------------------
(* Properties.                                                             *)

(* apply_command is not atomic: the state may mix two commands.  Whatever  *)
(* the mix, an emergency stop or a timeout stops the vehicle with its very *)
(* first setter and a command of speed zero with its third; from then on   *)
(* no field of the command before it can move the vehicle.                 *)
TornStateNeverMoves == Committed /\ Moves(state) => Moves(target)

(* The same on the wire: once a frame taken after that setter was written, *)
(* nothing that was in flight can move the vehicle again.                  *)
StopIsHeard == sent # "old" /\ Moves(wire) => Moves(target)

(* A frame taken after a whole tick of an emergency stop disables driving  *)
(* and carries at least the configured brake, whatever the message asked.  *)
WholeTickIsSent ==
    sent = "all" /\ target.estop =>
        wire.estop /\ ~wire.drive /\ wire.brake >= Clamp(EstopBrake, 0, 100)

(* "Al cerrar, se envian 3 frames finales en estado seguro": if any of     *)
(* them got through, the last frame on the wire is a safe one, whatever    *)
(* the transmit thread had in flight and wherever the tick was cut off.    *)
StopEndsSafe == stopping = "closed" /\ safeOk => wire = Frame(SafeCommand)

(* When /cmd_vel_final falls silent the vehicle is told to stand still,    *)
(* for good: the watchdog of the control tick and the transmit thread get  *)
(* the safe command through (unless the node was shut down before).        *)
SilenceCoasts == <>[](~fresh /\ stopping = "no") => <>[](wire = Frame(SafeCommand))
=============================================================================
