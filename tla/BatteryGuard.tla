---------------------------- MODULE BatteryGuard ----------------------------
(***************************************************************************)
(* The low-energy guard of BatteryEstimator: battery frames arrive over    *)
(* the UART when they arrive, the telemetry timer of controller_server     *)
(* feeds the newest one to update(), and the mission guard latches after   *)
(* return_home_persist_s at or below the return-home voltage and clears    *)
(* after guard_clear_persist_s at or above the clear voltage.              *)
(*                                                                         *)
(* Times are ages in whole units (monotonic instants relative to now), so  *)
(* that time may pass for ever; a voltage is its band.                     *)
(***************************************************************************)
EXTENDS Integers

CONSTANTS
    LowPersist,    \* return_home_persist_s
    ClearPersist,  \* guard_clear_persist_s
    MaxGap         \* the longest the link goes without a frame (a bound)

ASSUME GuardAssumption ==
    /\ LowPersist \in Nat \ {0}     \* with 0 a healthy sample latches
    /\ ClearPersist \in Nat \ {0}
    /\ MaxGap \in Nat \ {0}

VARIABLES
    volt,       \* band of the newest frame; "none" before the first
    rxAge,      \* age of that frame (rx_monotonic_s)
    sampled,    \* update() has been called
    lastAge,    \* age of the frame update() saw last (_last_sample_time_s)
    low,        \* _low_elapsed_s, up to LowPersist
    clear,      \* _clear_elapsed_s, up to ClearPersist
    latched,    \* _mission_guard_latched
    band,       \* history: band of the frame update() saw last
    span        \* history: time from the first to the last of the frames in a
                \* row that update() saw in that band, up to Long

newest    == <<volt, rxAge>>
estimator == <<sampled, lastAge, low, clear, latched>>
seen      == <<band, span>>
vars == <<newest, estimator, seen>>

(* At or below the return-home voltage, between, at or above the clear one. *)
Bands == {"low", "mid", "high"}

Least(a, b) == IF a < b THEN a ELSE b
Long == LowPersist + ClearPersist

TypeOK ==
    /\ volt \in Bands \cup {"none"}
    /\ rxAge \in 0..MaxGap
    /\ sampled \in BOOLEAN
    /\ lastAge \in 0..MaxGap
    /\ low \in 0..LowPersist
    /\ clear \in 0..ClearPersist
    /\ latched \in BOOLEAN
    /\ band \in Bands \cup {"none"}
    /\ span \in 0..Long

Init ==
    /\ volt = "none" /\ rxAge = 0
    /\ sampled = FALSE /\ lastAge = 0
    /\ low = 0 /\ clear = 0 /\ latched = FALSE
    /\ band = "none" /\ span = 0

(* A unit of time passes.  The telemetry timer (10 Hz) runs within every   *)
(* unit, so that no frame waits for it longer; frames may be replaced      *)
(* before it runs.                                                         *)
Pass ==
    /\ sampled /\ lastAge = rxAge
    /\ rxAge < MaxGap
    /\ rxAge' = rxAge + 1
    /\ lastAge' = lastAge + 1
    /\ UNCHANGED <<volt, sampled, low, clear, latched, seen>>

(* _rx_loop decodes a battery frame and replaces the newest one. *)
Receive(v) ==
    /\ volt' = v
    /\ rxAge' = 0
    /\ UNCHANGED <<estimator, seen>>

(* _telemetry_tick: update() with the newest frame, maybe seen before.  The *)
(* time since the frame before it is charged to the new one.                *)
Elapsed == IF sampled /\ lastAge > rxAge THEN lastAge - rxAge ELSE 0

\* Variant: a recovery keeps the counter.
CountLowKept(dt) == IF volt = "low" THEN Least(low + dt, LowPersist) ELSE low

CountLow(dt) == IF volt = "low" THEN Least(low + dt, LowPersist) ELSE 0
CountClear(dt) == IF volt = "high" THEN Least(clear + dt, ClearPersist) ELSE 0

Watch(dt) ==
    /\ ~latched
    /\ low' = CountLow(dt)
    /\ clear' = 0
    /\ IF CountLow(dt) >= LowPersist THEN latched' = TRUE ELSE UNCHANGED latched

Release(dt) ==
    /\ latched
    /\ IF CountClear(dt) >= ClearPersist
       THEN latched' = FALSE /\ low' = 0 /\ clear' = 0
       ELSE clear' = CountClear(dt) /\ UNCHANGED <<latched, low>>

Update ==
    /\ volt # "none"
    /\ Watch(Elapsed) \/ Release(Elapsed)
    /\ sampled' = TRUE
    /\ lastAge' = rxAge
    /\ band' = volt
    /\ span' = IF volt = band THEN Least(span + Elapsed, Long) ELSE 0
    /\ UNCHANGED newest

Next == Pass \/ Update \/ \E v \in Bands : Receive(v)

Spec == Init /\ [][Next]_vars

----------------------------------------------------------------------------
(* Properties.                                                             *)

(* The guard latches only after low frames over return_home_persist_s, up  *)
(* to the gap before the first of them, which is charged to it; and clears *)
(* only after high frames over guard_clear_persist_s, up to the same.      *)
GuardIsEarned ==
    [][/\ ~latched /\ latched' => band' = "low" /\ span' + MaxGap >= LowPersist
       /\ latched /\ ~latched' => band' = "high" /\ span' + MaxGap >= ClearPersist]_vars

(* "requires 30 continuous seconds below 46.5 V": no gap in the link can   *)
(* make up for low frames.  The code does not keep this (README).          *)
LatchNeedsLowFrames == [][~latched /\ latched' => span' >= LowPersist]_vars
=============================================================================
