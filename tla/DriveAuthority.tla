--------------------------- MODULE DriveAuthority ---------------------------
(***************************************************************************)
(* What nav_command_server promises about /cmd_vel_final, whichever of its *)
(* callbacks and threads are running: who may move the vehicle, and that   *)
(* a decision taken before the authority changed moves it once at most.    *)
(* CmdGate implements it; CommandChain joins it to UartLink.               *)
(***************************************************************************)
CONSTANT AutoMotions    \* the motions AUTO can ask for

VARIABLES
    mode,    \* who may drive: AUTO, nobody, the operator, the silent operator
    barred,  \* the AUTO motions the zones forbid
    late,    \* the motion that is decided and not yet published
    word     \* the motion of the last message

authority == <<mode, barred, late, word>>

Motions == AutoMotions \cup {"manual"}
Nothing == "nothing"
Still   == "still"

TypeOK ==
    /\ mode \in {"auto", "idle", "manual", "calm"}
    /\ barred \subseteq AutoMotions
    /\ late \in Motions \cup {Nothing}
    /\ word \in Motions \cup {Still}

Init ==
    /\ mode \in {"auto", "idle"}
    /\ barred = {}
    /\ late = Nothing
    /\ word = Still

(* Manual mode is taken or left, a goal begins or ends; what was decided   *)
(* before is not taken back.                                               *)
Switch ==
    /\ mode' \in {"auto", "idle", "manual"}
    /\ UNCHANGED <<barred, late, word>>

(* The zones change: never against a motion that is decided.               *)
Bar ==
    /\ barred' \in SUBSET (AutoMotions \ {late})
    /\ UNCHANGED <<mode, late, word>>

(* A safe velocity is let through. *)
Decide ==
    /\ late = Nothing
    /\ mode = "auto"
    /\ late' \in AutoMotions \ barred
    /\ UNCHANGED <<mode, barred, word>>

(* The operator's command is taken; it ends the silence. *)
Command ==
    /\ late = Nothing
    /\ mode \in {"manual", "calm"}
    /\ mode' = "manual"
    /\ late' \in {"manual", Nothing}
    /\ UNCHANGED <<barred, word>>

(* Only what was decided moves the vehicle, and only once ... *)
Move ==
    /\ late # Nothing
    /\ word' = late
    /\ late' = Nothing
    /\ UNCHANGED <<mode, barred>>

(* ... while everybody may stop it at any time. *)
Halt ==
    /\ word' = Still
    /\ UNCHANGED <<mode, barred, late>>

(* The manual watchdog takes its stop for sent: nothing moves any more.    *)
Calm ==
    /\ mode = "manual" /\ late = Nothing /\ word = Still
    /\ mode' = "calm"
    /\ UNCHANGED <<barred, late, word>>

Decisions == Switch \/ Bar \/ Decide \/ Command \/ Calm

Next == Decisions \/ Move \/ Halt

Spec == Init /\ [][Next]_authority
=============================================================================
