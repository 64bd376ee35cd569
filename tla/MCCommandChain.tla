--------------------------- MODULE MCCommandChain ---------------------------
(* CommandChain with an AUTO motion ahead (raised from 2 to the least      *)
(* effective speed 3), an operator who reverses, and a braking stop.       *)
EXTENDS CommandChain

Message(w, linear, brakePct) ==
    [word |-> w, linear |-> linear, steer |-> "centre", brake |-> brakePct]

MCLinears == {-2, 0, 2}
MCTwists  == {Message("autoForward", 2, 0), Message("manual", -2, 0), Message("still", 0, 40)}
=============================================================================
