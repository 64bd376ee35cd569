----------------------------- MODULE MCSilence -----------------------------
(* The two nodes of the command path and their watchdogs, checked in one   *)
(* run: leg says whose behaviour a behaviour of SSpec is, the other rests. *)
EXTENDS CmdGate

CONSTANTS
    Linears, Brakes, MaxSpeed, MaxReverse, Deadband, MinEffective, DriveEnabled, EstopBrake

VARIABLES
    leg,
    cmd, fresh, target, step, state, tx, wire, stopping, left, sent, safeOk

link  == <<cmd, fresh, target, step, state, tx, wire, stopping, left, sent, safeOk>>
svars == <<leg, vars, link>>

Link == INSTANCE UartLink

SInit ==
    /\ leg \in {"gate", "link"}
    /\ Init
    /\ IF leg = "link" THEN Link!Init ELSE Link!Ended

SNext ==
    /\ UNCHANGED leg
    /\ \/ leg = "gate" /\ Next /\ UNCHANGED link
       \/ leg = "link" /\ Link!Next /\ UNCHANGED vars

SSpec == SInit /\ [][SNext]_svars /\ Fairness /\ Link!Fairness

(* The property of UartLink. *)
SilenceCoasts == Link!SilenceCoasts
=============================================================================
