---------------------------- MODULE CommandPath ----------------------------
(***************************************************************************)
(* The command path with both nodes as they are: the messages CmdGate      *)
(* publishes on /cmd_vel_final are those UartLink receives.  This is more  *)
(* than TLC can go through; CmdGate_proofs shows that it is a CommandChain,*)
(* where the arbiter only keeps the promise of DriveAuthority.             *)
(***************************************************************************)
EXTENDS CmdGate

CONSTANTS
    Linears, Brakes, MaxSpeed, MaxReverse, Deadband, MinEffective, DriveEnabled,
    EstopBrake,  \* as in UartLink
    Twists,      \* the messages, each with the word it stands for
    Depth        \* KEEP_LAST depth of /cmd_vel_final

VARIABLES
    cmd, fresh, target, step, state, tx, wire, stopping, left, sent, safeOk,
                 \* controller_server, as in UartLink
    queue        \* messages that are published and not heard

link  == <<cmd, fresh, target, step, state, tx, wire, stopping, left, sent, safeOk>>
pvars == <<vars, link, queue>>

(* CommandChain, with the theorems about it.                               *)
Chain == INSTANCE UartLink_proofs
         WITH mode <- Mode, barred <- Barred, late <- Late, word <- Word

(* The sections that call _publish_cmd_vel_final.                          *)
Publications ==
    \/ SafePublish \/ SubSequence \/ TeleopStop \/ TeleopPublish \/ WatchdogStop
    \/ SvcManualStop \/ SvcCancelStop \/ SvcSequence
    \/ \E t \in Seqs : SequencePublish(t)
    \/ \E h \in Holds : HoldPublish(h)

(* A publication leaves its message in the topic, every other section      *)
(* leaves the topic alone.                                                 *)
GateStep ==
    /\ Next
    /\ IF Publications
       THEN \E t \in Twists : t.word = Word' /\ queue' = Chain!Keep(t)
       ELSE UNCHANGED queue
    /\ UNCHANGED link

(* controller_server hears a message, or goes on without one.              *)
ControllerStep ==
    /\ UNCHANGED vars
    /\ Chain!Hear \/ Chain!LinkStep

PathInit == Init /\ Chain!Init /\ queue = <<>>
PathNext == GateStep \/ ControllerStep
PathSpec == PathInit /\ [][PathNext]_pvars

----------------------------------------------------------------------------
(* The two nodes and the topic between them are a CommandChain.            *)
PathIsChain == Chain!ChainSpec
=============================================================================
