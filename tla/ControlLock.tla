---------------------------- MODULE ControlLock ----------------------------
(***************************************************************************)
(* The control lock of web_zone_server.py: robot commands are refused      *)
(* while it is closed, the UI opens it and keeps it open with heartbeats,  *)
(* a watchdog timer closes it.  Requests are tasks of the web server's     *)
(* threads, the watchdog is a callback of the node: it reads the heartbeat *)
(* under _lock and closes the lock in a second section.                    *)
(***************************************************************************)
EXTENDS Integers

CONSTANTS
    BeatTimeout,  \* control_lock_heartbeat_timeout_s
    DogPeriod     \* of the watchdog timer

VARIABLES
    locked,   \* _control_locked
    beat,     \* age of _last_control_heartbeat_monotonic; -1 for None
    dogAge,   \* since the watchdog ran
    dogReads, \* the watchdog has read an old heartbeat and will close the lock
    waiting,  \* a command was let through and waits for a thread
    silence   \* history: since the lock was opened or the UI was heard, if open

lock == <<locked, beat, dogAge, dogReads, waiting, silence>>

None == -1
LockInit ==
    /\ locked = TRUE /\ beat = None
    /\ dogAge = 0 /\ dogReads = FALSE
    /\ waiting = FALSE /\ silence = 0

\* No age is looked at beyond these.
Older(age, max) == IF age < max THEN age + 1 ELSE age
Tick ==
    /\ dogAge < DogPeriod /\ ~dogReads
    /\ dogAge' = dogAge + 1
    /\ beat' = IF beat = None THEN None ELSE Older(beat, BeatTimeout + 1)
    /\ silence' = IF locked THEN 0 ELSE Older(silence, BeatTimeout + DogPeriod + 1)
    /\ UNCHANGED <<locked, dogReads, waiting>>

(* set_control_lock.  Variant: opening it does not count as a heartbeat.   *)
SetLockOnly(next) == locked' = next /\ beat' = None /\ silence' = 0 /\ UNCHANGED <<dogAge, dogReads, waiting>>
SetLock(next) ==
    /\ locked' = next
    /\ beat' = IF next THEN None ELSE 0
    /\ silence' = 0
    /\ UNCHANGED <<dogAge, dogReads, waiting>>

(* control_heartbeat: of no use while the lock is closed.                  *)
Heartbeat ==
    /\ beat' = IF locked THEN beat ELSE 0
    /\ silence' = 0
    /\ UNCHANGED <<locked, dogAge, dogReads, waiting>>

(* _control_lock_watchdog_tick, its two sections.                          *)
DogReads ==
    /\ ~dogReads
    /\ dogAge' = 0
    /\ dogReads' = (~locked /\ beat # None /\ beat > BeatTimeout)
    /\ UNCHANGED <<locked, beat, waiting, silence>>
DogLocks ==
    /\ dogReads /\ dogReads' = FALSE
    /\ locked' = TRUE /\ beat' = None /\ silence' = 0
    /\ UNCHANGED <<dogAge, waiting>>

(* _handle_message: the lock is looked at, the command is handed to a      *)
(* thread.                                                                 *)
Admit ==
    /\ ~locked /\ ~waiting
    /\ waiting' = TRUE
    /\ UNCHANGED <<locked, beat, dogAge, dogReads, silence>>
Forward ==
    /\ waiting /\ waiting' = FALSE
    /\ UNCHANGED <<locked, beat, dogAge, dogReads, silence>>

LockNext ==
    \/ Tick \/ Heartbeat \/ DogReads \/ DogLocks \/ Admit \/ Forward
    \/ \E next \in BOOLEAN : SetLock(next)
LockSpec == LockInit /\ [][LockNext]_lock

----------------------------------------------------------------------------
(* A UI that is gone leaves no open lock: after control_lock_heartbeat_-   *)
(* timeout_s and a period of the watchdog without a word from it, however  *)
(* openings, closings and late heartbeats of several tabs came before.     *)
SilenceLocks == ~locked => silence <= BeatTimeout + DogPeriod
=============================================================================
