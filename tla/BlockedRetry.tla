--------------------------- MODULE BlockedRetry ---------------------------
(***************************************************************************)
(* What the route executor promises about a blocked route: it waits,       *)
(* retries a counted number of times, and asks for the operator only when  *)
(* every attempt has been used.  RouteMission implements it.               *)
(***************************************************************************)
EXTENDS Naturals

CONSTANT MaxAttempts    \* blocked_retry_max_attempts

VARIABLES blocked, tries

bvars == <<blocked, tries>>

BInit == blocked = "" /\ tries = 0

Wait   == /\ blocked # "operator" /\ tries < MaxAttempts
          /\ blocked' = "waiting" /\ tries' = tries

AskOperator == /\ blocked # "operator" /\ tries >= MaxAttempts
               /\ blocked' = "operator" /\ tries' = tries

TryAgain == /\ blocked = "waiting"
            /\ blocked' = "retrying" /\ tries' = tries + 1

\* A retry was accepted: its attempts stay counted until a chunk succeeds.
Dispatched == blocked' = "" /\ tries' = tries

Cleared == blocked' = "" /\ tries' = 0

BNext == Wait \/ AskOperator \/ TryAgain \/ Dispatched \/ Cleared

BSpec == BInit /\ [][BNext]_bvars
=============================================================================
