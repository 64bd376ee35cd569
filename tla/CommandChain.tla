---------------------------- MODULE CommandChain ----------------------------
(***************************************************************************)
(* The whole way of a velocity command: nav_command_server decides and     *)
(* publishes, /cmd_vel_final keeps the last messages of its two ends, and  *)
(* controller_server hears them one by one and drives the serial link.     *)
(*                                                                         *)
(* Of nav_command_server only what DriveAuthority promises is used, which  *)
(* CmdGate implements; controller_server is UartLink, whose Receive is     *)
(* here given the messages that were published.                            *)
(***************************************************************************)
EXTENDS UartLink

CONSTANTS
    AutoMotions,  \* the motions AUTO asks for (a bound)
    Twists,       \* the messages, each with the word it stands for (a bound)
    Depth         \* KEEP_LAST depth of /cmd_vel_final

VARIABLES
    mode, barred, late, word,  \* nav_command_server, as in DriveAuthority
    queue                      \* messages that are published and not heard

Gate == INSTANCE DriveAuthority

gate  == <<mode, barred, late, word>>
cvars == <<vars, gate, queue>>

(* A stop has no speed; an AUTO motion goes where its word says; what the  *)
(* operator sends is free.                                                 *)
Twist == [word : Gate!Motions \cup {Gate!Still},
          linear : Linears, steer : Steers, brake : Brakes]

ASSUME ChainAssumption ==
    /\ AutoMotions \subseteq {"autoForward", "autoReverse"}
    /\ Twists \subseteq Twist
    /\ \A t \in Twists : /\ t.word = Gate!Still => t.linear = 0
                         /\ t.word = "autoForward" => t.linear > 0
                         /\ t.word = "autoReverse" => t.linear < 0
    /\ Depth \in Nat \ {0}

----------------------------------------------------------------------------
(* A full history drops its oldest message for the new one.                *)
Keep(t) == Append(IF Len(queue) = Depth THEN Tail(queue) ELSE queue, t)

(* nav_command_server publishes a message of its word ... *)
Publication ==
    /\ Gate!Move \/ Gate!Halt
    /\ \E t \in Twists : t.word = word' /\ queue' = Keep(t)
    /\ UNCHANGED vars

(* ... or only decides.                                                    *)
Decision ==
    /\ Gate!Decisions
    /\ UNCHANGED <<queue, vars>>

(* _on_cmd_vel_final hears the oldest message. *)
Hear ==
    /\ queue # <<>>
    /\ Receive(Head(queue).linear, Head(queue).steer, Head(queue).brake)
    /\ queue' = Tail(queue)
    /\ UNCHANGED gate

(* The rest of controller_server does not look at the topic. *)
LinkStep ==
    /\ CmdAges \/ NodeSteps \/ TxSteps \/ TxWrite \/ Stop \/ StopSteps
    /\ UNCHANGED <<gate, queue>>

ChainInit == Init /\ Gate!Init /\ queue = <<>>
ChainNext == Decision \/ Publication \/ Hear \/ LinkStep
ChainSpec == ChainInit /\ [][ChainNext]_cvars

----------------------------------------------------------------------------
(* Properties.                                                             *)

(* The vehicle does what nav_command_server said last.  Once its messages  *)
(* are heard, the control tick has taken up the last of them and a frame   *)
(* that contains it was written, the frame on the wire moves the vehicle   *)
(* only if the last message was a motion, and an AUTO motion only in its   *)
(* direction; not after the manual watchdog took its stop for sent.        *)
LastWordHolds ==
    queue = <<>> /\ target = Effective /\ sent # "old" /\ Moves(wire) =>
        /\ mode # "calm"
        /\ word \in {"manual", IF wire.reverse THEN "autoReverse" ELSE "autoForward"}
=============================================================================
