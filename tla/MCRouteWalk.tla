---------------------------- MODULE MCRouteWalk ----------------------------
(* A loop whose legs are no longer than leg_spacing_m.                     *)
EXTENDS RouteWalk

Corners == <<[at |-> <<0, 0>>], [at |-> <<4, 0>>], [at |-> <<4, 4>>], [at |-> <<0, 4>>]>>
ShortLoop ==
    [lists |-> [points |-> Corners, acts |-> [i \in 1..4 |-> FALSE]], homes |-> {}, loop |-> TRUE,
     entry |-> 0, home |-> <<5, 5>>, starts |-> {<<-2, -2>>}]
ShortLoops == {ShortLoop}
=============================================================================
