---------------------------- MODULE Nodes_proofs ----------------------------
(***************************************************************************)
(* Proofs about the small nodes, one part after the other: BatteryGuard,   *)
(* ControlLock, RtkSource, CourseHeading and CompassGate, WsGateway,       *)
(* PathClearance, PowerLog, FrameParser, NavProfile.  The parts share      *)
(* nothing but this file and LeastNat; each ends in the theorems of its    *)
(* node, for any values of its constants.                                  *)
(***************************************************************************)
EXTENDS BatteryGuard, ControlLock, RtkSource, Headings, WsGateway, PathClearance,
        PowerLog, FrameParser, NavProfile, SequenceTheorems, WellFoundedInduction, TLAPS

(* Every set of numbers has a least one.  What a recursive function over   *)
(* the numbers computes is shown by its least counterexample.              *)
LEMMA LeastNat ==
  ASSUME NEW S \in SUBSET Nat, S # {}
  PROVE  \E x \in S : \A y \in S : x <= y
  <1> DEFINE R == {p \in Nat \X Nat : p[1] < p[2]}
  <1>1. IsWellFoundedOn(R, Nat)
    BY NatLessThanWellFounded DEF OpToRel
  <1> HIDE DEF R
  <1>2. PICK x \in S : \A y \in S : ~(<<y, x>> \in R)
    BY <1>1, WFMin
  <1>3. \A y \in S : ~(y < x)
    BY <1>2 DEF R
  <1> QED BY <1>3

----------------------------------------------------------------------------
(* BatteryGuard.  The action properties follow from an invariant that ties *)
(* each counter to the frames it was counted from: a counter above 0       *)
(* belongs to the band of the last frame and is ahead of the time those    *)
(* frames cover by no more than the gap before the first of them.          *)

CounterInv ==
    /\ ~latched /\ low > 0 => band = "low" /\ low <= span + MaxGap
    /\ latched /\ clear > 0 => band = "high" /\ clear <= span + MaxGap

GuardInv == TypeOK /\ CounterInv

(* The time charged to a frame is at most the longest gap.                 *)
LEMMA ElapsedBound == TypeOK => Elapsed \in 0..MaxGap
  BY GuardAssumption DEF TypeOK, Elapsed

(* The counters stay in range.                                             *)
LEMMA CountBound ==
  ASSUME TypeOK, NEW dt \in 0..MaxGap
  PROVE  /\ CountLow(dt) \in 0..LowPersist
         /\ CountClear(dt) \in 0..ClearPersist
         /\ CountLow(dt) > 0 => volt = "low" /\ CountLow(dt) <= low + dt
         /\ CountClear(dt) > 0 => volt = "high" /\ CountClear(dt) <= clear + dt
  BY GuardAssumption DEF TypeOK, CountLow, CountClear, Least

(* The initial states satisfy the invariant.                               *)
LEMMA InitGuardInv == Init => GuardInv
  <1> SUFFICES ASSUME Init PROVE TypeOK /\ CounterInv
    BY DEF GuardInv
  <1>1. TypeOK
    <2>1. /\ volt \in Bands \cup {"none"} /\ band \in Bands \cup {"none"}
          /\ sampled \in BOOLEAN /\ latched \in BOOLEAN
      BY DEF Init
    <2>2. /\ rxAge \in 0..MaxGap /\ lastAge \in 0..MaxGap /\ span \in 0..Long
          /\ low \in 0..LowPersist /\ clear \in 0..ClearPersist
      BY GuardAssumption DEF Init, Long
    <2> QED BY <2>1, <2>2 DEF TypeOK
  <1>2. CounterInv
    BY DEF Init, CounterInv
  <1> QED BY <1>1, <1>2

(* A telemetry tick preserves the invariant and changes the latch only     *)
(* when it was earned.                                                     *)
LEMMA UpdateStep ==
  ASSUME GuardInv, Update
  PROVE  /\ GuardInv'
         /\ ~latched /\ latched' => band' = "low" /\ span' + MaxGap >= LowPersist
         /\ latched /\ ~latched' => band' = "high" /\ span' + MaxGap >= ClearPersist
  <1> DEFINE dt == Elapsed
  <1>1. dt \in 0..MaxGap
    BY ElapsedBound DEF GuardInv
  <1>2. /\ CountLow(dt) \in 0..LowPersist
        /\ CountClear(dt) \in 0..ClearPersist
        /\ CountLow(dt) > 0 => volt = "low" /\ CountLow(dt) <= low + dt
        /\ CountClear(dt) > 0 => volt = "high" /\ CountClear(dt) <= clear + dt
    BY <1>1, CountBound DEF GuardInv
  <1>3. /\ band' = volt /\ volt \in Bands
        /\ span' \in 0..Long
        /\ span' = IF volt = band THEN Least(span + dt, Long) ELSE 0
    BY <1>1, GuardAssumption DEF Update, GuardInv, TypeOK, Least, Long
  <1>4. /\ volt' = volt /\ rxAge' = rxAge /\ sampled' = TRUE /\ lastAge' = rxAge
    BY DEF Update, newest
  <1> HIDE DEF dt
  <1>5. CASE Watch(dt)
    <2>1. ~latched /\ low' = CountLow(dt) /\ clear' = 0
      BY <1>5 DEF Watch
    <2>2. latched' \in BOOLEAN /\ (latched' => low' >= LowPersist)
      BY <1>5, <2>1 DEF Watch, GuardInv, TypeOK
    <2>3. low' > 0 => band' = "low" /\ low' <= span' + MaxGap
      BY <1>1, <1>2, <1>3, <2>1, GuardAssumption
         DEF GuardInv, TypeOK, CounterInv, Least, Long, Bands
    <2>4. TypeOK'
      BY <1>2, <1>3, <1>4, <2>1, <2>2, GuardAssumption DEF GuardInv, TypeOK
    <2> QED
      BY <1>2, <1>3, <2>1, <2>2, <2>3, <2>4, GuardAssumption
         DEF GuardInv, TypeOK, CounterInv, Long
  <1>6. CASE Release(dt)
    <2>1. latched /\ latched' \in BOOLEAN
          /\ (~latched' => CountClear(dt) >= ClearPersist)
      BY <1>6 DEF Release, GuardInv, TypeOK
    <2>2. IF latched' THEN clear' = CountClear(dt) /\ low' = low
                      ELSE clear' = 0 /\ low' = 0
      BY <1>6 DEF Release
    <2>3. CountClear(dt) > 0 => band' = "high" /\ CountClear(dt) <= span' + MaxGap
      BY <1>1, <1>2, <1>3, <2>1, GuardAssumption
         DEF GuardInv, TypeOK, CounterInv, Least, Long, Bands
    <2>4. clear' \in 0..ClearPersist /\ low' \in 0..LowPersist
      BY <1>2, <2>1, <2>2, GuardAssumption DEF GuardInv, TypeOK
    <2>5. TypeOK'
      BY <1>3, <1>4, <2>1, <2>4 DEF GuardInv, TypeOK
    <2> QED
      BY <1>2, <1>3, <2>1, <2>2, <2>3, <2>4, <2>5, GuardAssumption
         DEF GuardInv, TypeOK, CounterInv, Long
  <1> QED
    BY <1>5, <1>6 DEF Update, dt

(* Every step preserves the invariant.                                     *)
LEMMA NextGuardInv == GuardInv /\ [Next]_vars => GuardInv'
  <1> SUFFICES ASSUME GuardInv, [Next]_vars PROVE GuardInv'
    OBVIOUS
  <1>1. CASE Pass
    BY <1>1, GuardAssumption DEF Pass, GuardInv, TypeOK, CounterInv, seen
  <1>2. CASE Update
    BY <1>2, UpdateStep
  <1>3. CASE \E v \in Bands : Receive(v)
    BY <1>3, GuardAssumption DEF Receive, GuardInv, TypeOK, CounterInv, estimator, seen
  <1>4. CASE UNCHANGED vars
    BY <1>4 DEF vars, newest, estimator, seen, GuardInv, TypeOK, CounterInv
  <1> QED
    BY <1>1, <1>2, <1>3, <1>4 DEF Next

(* The counters stay within the persistence times and belong to the frames *)
(* they were counted from.                                                 *)
THEOREM GuardInvariance == Spec => []GuardInv
  BY InitGuardInv, NextGuardInv, PTL DEF Spec

(* Only a telemetry tick changes the latch.                                *)
LEMMA LatchStep ==
  ASSUME GuardInv, [Next]_vars
  PROVE  /\ ~latched /\ latched' => band' = "low" /\ span' + MaxGap >= LowPersist
         /\ latched /\ ~latched' => band' = "high" /\ span' + MaxGap >= ClearPersist
  <1>1. CASE Update
    BY <1>1, UpdateStep
  <1>2. CASE ~Update
    <2>1. latched' = latched
      BY <1>2 DEF Next, Pass, Receive, estimator, vars
    <2> QED BY <2>1
  <1> QED BY <1>1, <1>2

(* The counters, the clocks and the latch keep their types.                *)
THEOREM GuardTypes == Spec => []TypeOK
  BY GuardInvariance, PTL DEF GuardInv

(* The guard latches only after low frames in a row over                   *)
(* return_home_persist_s, and clears only after high frames in a row over  *)
(* guard_clear_persist_s, each up to one gap of the link.                  *)
THEOREM GuardEarned == Spec => GuardIsEarned
  <1>1. GuardInv /\ [Next]_vars =>
          [/\ ~latched /\ latched' => band' = "low" /\ span' + MaxGap >= LowPersist
           /\ latched /\ ~latched' => band' = "high" /\ span' + MaxGap >= ClearPersist]_vars
    BY LatchStep
  <1> QED BY <1>1, GuardInvariance, PTL DEF Spec, GuardIsEarned
----------------------------------------------------------------------------
(* ControlLock.  While the lock is open the heartbeat has an age, and up   *)
(* to the time-out it is the silence of the UI.  Beyond, the silence is no *)
(* longer than the time-out and what has passed since the watchdog ran,    *)
(* until the watchdog has read the heartbeat; then time stands still until *)
(* it has closed the lock.                                                 *)

LockTypes ==
    /\ locked \in BOOLEAN /\ dogReads \in BOOLEAN /\ waiting \in BOOLEAN
    /\ beat \in -1..BeatTimeout + 1
    /\ dogAge \in 0..DogPeriod
    /\ silence \in Nat

HeartbeatInv ==
    ~locked => /\ beat # None
               /\ beat <= BeatTimeout => silence = beat
               /\ beat > BeatTimeout /\ ~dogReads => silence <= BeatTimeout + dogAge
               /\ silence <= BeatTimeout + DogPeriod

LockInv == LockTypes /\ HeartbeatInv

(* The lock is closed at the start.                                        *)
LEMMA InitLockInv ==
  ASSUME BeatTimeout \in Nat, DogPeriod \in Nat, LockInit
  PROVE  LockInv
  <1>1. locked /\ locked \in BOOLEAN /\ dogReads \in BOOLEAN /\ waiting \in BOOLEAN
    BY Zenon DEF LockInit
  <1>2. beat = -1 /\ dogAge = 0 /\ silence = 0
    BY DEF LockInit, None
  <1>3. QED
    BY <1>1, <1>2 DEF LockInv, LockTypes, HeartbeatInv

(* Every step keeps the invariant.                                         *)
LEMMA StepLockInv ==
  ASSUME BeatTimeout \in Nat, DogPeriod \in Nat, LockInv, [LockNext]_lock
  PROVE  LockInv'
  <1> USE DEF LockInv, LockTypes, HeartbeatInv, None
  <1>1. CASE Tick
    BY <1>1 DEF Tick, Older
  <1>2. CASE Heartbeat
    BY <1>2 DEF Heartbeat
  <1>3. CASE DogReads
    <2>1. dogReads' \in BOOLEAN /\ (dogReads' <=> ~locked /\ beat # None /\ beat > BeatTimeout)
      BY <1>3, Zenon DEF DogReads
    <2>2. /\ dogAge' = 0 /\ ~dogReads
          /\ locked' = locked /\ beat' = beat /\ waiting' = waiting /\ silence' = silence
      BY <1>3 DEF DogReads
    <2>3. QED
      BY <2>1, <2>2
  <1>4. CASE DogLocks
    <2>1. locked' /\ locked' \in BOOLEAN /\ dogReads' \in BOOLEAN
      BY <1>4, Zenon DEF DogLocks
    <2>2. beat' = -1 /\ silence' = 0 /\ dogAge' = dogAge /\ waiting' = waiting
      BY <1>4 DEF DogLocks
    <2>3. QED
      BY <2>1, <2>2
  <1>5. CASE Admit \/ Forward
    BY <1>5 DEF Admit, Forward
  <1>6. CASE \E next \in BOOLEAN : SetLock(next)
    BY <1>6 DEF SetLock
  <1>7. CASE UNCHANGED lock
    BY <1>7 DEF lock
  <1>8. QED
    BY <1>1, <1>2, <1>3, <1>4, <1>5, <1>6, <1>7 DEF LockNext

(* A UI that is gone leaves no open lock, for every time-out and period:   *)
(* the two sections of _control_lock_watchdog_tick against openings,       *)
(* closings and heartbeats in any order.                                   *)
THEOREM LockSafety ==
  ASSUME BeatTimeout \in Nat, DogPeriod \in Nat
  PROVE  LockSpec => []SilenceLocks
  <1>1. LockInit => LockInv
    BY InitLockInv
  <1>2. LockInv /\ [LockNext]_lock => LockInv'
    BY StepLockInv
  <1>3. LockInv => SilenceLocks
    BY DEF LockInv, HeartbeatInv, SilenceLocks
  <1>4. QED
    BY <1>1, <1>2, <1>3, PTL DEF LockSpec

----------------------------------------------------------------------------
(* RtkSource.  The thread may hold a source that is gone, but then it also *)
(* holds an old generation: while it is at work with the generation in     *)
(* force, what it took is the active source as it is configured, because   *)
(* every change of that counts the generation up under the lock.           *)
AtWork == {"connecting", "handshake", "reading", "frames"}

ReaderInv ==
    /\ reader \in [at : AtWork \cup {"top", "closing", "waiting", "ended"},
                   of : {reader.of}, generation : 0..generation]
    /\ Current /\ reader.at \in AtWork => reader.of = Setup(active)

RtkInv ==
    /\ generation \in Nat /\ connected \in BOOLEAN /\ stopped \in BOOLEAN
    /\ ReaderInv /\ StatusIsOfActive

(* A change without a new generation leaves the active source as it is.    *)
LEMMA ApplyStep ==
  ASSUME RtkInv, NEW s, NEW a, NEW switch \in BOOLEAN, Apply(s, a, switch),
         a \in DOMAIN s, ~switch => a = active /\ s[a] = sources[active],
         UNCHANGED <<reader, stopped>>
  PROVE  RtkInv'
  <1>1. active' = a /\ sources' = s /\ active' \in DOMAIN sources'
    BY DEF Apply
  <1>2. reader' = reader /\ stopped' = stopped /\ generation' \in Nat
    BY DEF Apply, Switch, RtkInv
  <1>3. CASE switch
    <2>1. generation' = generation + 1 /\ connected' = FALSE /\ counted' = NoSource
      BY <1>3 DEF Apply, Switch
    <2>2. ~Current'
      BY <1>2, <2>1 DEF RtkInv, ReaderInv, Current
    <2>3. ReaderInv'
      BY <1>2, <2>1, <2>2 DEF RtkInv, ReaderInv
    <2> QED
      BY <1>1, <1>2, <2>1, <2>3 DEF RtkInv, StatusIsOfActive
  <1>4. CASE ~switch
    <2>1. generation' = generation /\ connected' = connected /\ counted' = counted
      BY <1>4 DEF Apply
    <2>2. Setup(active)' = Setup(active) /\ (Current' <=> Current)
      BY <1>1, <1>2, <1>4, <2>1 DEF Setup, Current
    <2>3. ReaderInv'
      BY <1>2, <2>1, <2>2 DEF RtkInv, ReaderInv
    <2> QED
      BY <1>1, <1>2, <2>1, <2>2, <2>3 DEF RtkInv, StatusIsOfActive, NoSource
  <1> QED BY <1>3, <1>4

(* A request that fails, or a step that leaves all of this alone.          *)
LEMMA RtkStutters ==
  ASSUME RtkInv,
         UNCHANGED <<sources, active, generation, connected, counted, reader, stopped>>
  PROVE  RtkInv'
  BY DEF RtkInv, ReaderInv, StatusIsOfActive, Current, Setup, NoSource

(* The requests of operators keep the invariant.                           *)
LEMMA RequestStep ==
  ASSUME RtkInv, NEW id \in Sources,
         Select(id) \/ Delete(id) \/ \E activate \in BOOLEAN : Upsert(id, activate)
  PROVE  RtkInv'
  <1> DEFINE Refused == UNCHANGED <<sources, active, generation, connected, counted, left, config>>
  <1>1. UNCHANGED <<reader, stopped>>
    BY DEF Select, Delete, Upsert
  <1>2. CASE Refused
    BY <1>1, <1>2, RtkStutters
  <1>3. CASE Select(id) /\ ~Refused
    <2>1. id \in DOMAIN sources /\ Apply(sources, id, TRUE)
      BY <1>3 DEF Select
    <2> QED BY <1>1, <2>1, ApplyStep
  <1>4. CASE Delete(id) /\ ~Refused
    <2> DEFINE s == [i \in DOMAIN sources \ {id} |-> sources[i]]
    <2>1. PICK a \in DOMAIN sources \ {id} :
            (active # id => a = active) /\ Apply(s, a, a # active)
      BY <1>4 DEF Delete
    <2>2. a \in DOMAIN s /\ (a = active => s[a] = sources[active])
      BY <2>1
    <2> HIDE DEF s
    <2>3. (a # active) \in BOOLEAN
      BY Zenon
    <2> QED BY <1>1, <2>1, <2>2, <2>3, ApplyStep
  <1>5. ASSUME NEW activate \in BOOLEAN, Upsert(id, activate), ~Refused
        PROVE  RtkInv'
    <2> DEFINE a == IF activate THEN id ELSE active
    <2>1. PICK v \in 1..2 :
            Apply([i \in DOMAIN sources \cup {id} |-> IF i = id THEN v ELSE sources[i]], a,
                  a # active \/ (a = id /\ sources[id] # v))
      BY <1>5 DEF Upsert
    <2> DEFINE s == [i \in DOMAIN sources \cup {id} |-> IF i = id THEN v ELSE sources[i]]
               switch == a # active \/ (a = id /\ sources[id] # v)
    <2>2. a \in DOMAIN s
      BY DEF RtkInv, StatusIsOfActive
    <2>3. ~switch => a = active /\ s[a] = sources[active]
      BY DEF RtkInv, StatusIsOfActive
    <2>4. switch \in BOOLEAN
      BY Zenon
    <2>5. Apply(s, a, switch)
      BY <2>1
    <2> HIDE DEF s, a, switch
    <2> QED BY <1>1, <2>2, <2>3, <2>4, <2>5, ApplyStep
  <1> QED
    BY <1>2, <1>3, <1>4, <1>5

(* The steps of the thread keep the invariant.                             *)
LEMMA ThreadStep ==
  ASSUME RtkInv, Thread
  PROVE  RtkInv'
  <1> USE DEF RtkInv, ReaderInv, StatusIsOfActive, Current, Setup, AtWork, ReaderAt, ReaderMoves,
              OnlyReader
  <1>1. CASE ThreadEnds
    BY <1>1 DEF ThreadEnds
  <1>2. CASE Take
    BY <1>2 DEF Take
  <1>3. CASE Connect
    BY <1>3 DEF Connect
  <1>4. CASE Handshake
    BY <1>4 DEF Handshake
  <1>5. CASE Look
    BY <1>5 DEF Look
  <1>6. CASE Frame
    BY <1>6 DEF Frame, Publish
  <1>7. CASE Received
    BY <1>7 DEF Received
  <1>8. CASE Fail
    BY <1>8 DEF Fail
  <1>9. CASE Finally \/ Again
    BY <1>9 DEF Finally, Again
  <1> QED
    BY <1>1, <1>2, <1>3, <1>4, <1>5, <1>6, <1>7, <1>8, <1>9 DEF Thread

(* At the start nothing is connected.                                      *)
LEMMA InitRtkInv ==
  ASSUME Sources # {}, RtkInit
  PROVE  RtkInv
  <1>1. active \in Sources /\ DOMAIN sources = Sources
    BY DEF RtkInit, RtkStarts
  <1>2. /\ generation = 0 /\ connected = FALSE /\ stopped = FALSE /\ counted = NoSource
        /\ reader = [at |-> "top", of |-> NoSource, generation |-> 0]
    BY DEF RtkInit, RtkStarts
  <1>3. ReaderInv
    BY <1>2 DEF ReaderInv, AtWork
  <1>4. StatusIsOfActive
    BY <1>1, <1>2 DEF StatusIsOfActive
  <1> QED
    BY <1>2, <1>3, <1>4 DEF RtkInv

(* The status, and the frames published, are of the active source as it is *)
(* configured, for any sources and any number of requests: the callbacks   *)
(* under the lock against every step of _reader_loop.                      *)
THEOREM RtkSafety ==
  ASSUME Sources # {}
  PROVE  RtkSpec => []StatusIsOfActive
  <1>1. RtkInit => RtkInv
    BY InitRtkInv
  <1>2. RtkInv /\ [RtkNext]_rtk => RtkInv'
    <2> SUFFICES ASSUME RtkInv, [RtkNext]_rtk PROVE RtkInv'
      OBVIOUS
    <2>1. CASE \E id \in Sources :
                 Select(id) \/ Delete(id) \/ \E a \in BOOLEAN : Upsert(id, a)
      BY <2>1, RequestStep
    <2>2. CASE Close \/ Wake
      BY <2>2, RtkStutters DEF Close, Wake
    <2>3. CASE Destroy
      BY <2>3 DEF Destroy, RtkInv, ReaderInv, StatusIsOfActive, Current, Setup, NoSource
    <2>4. CASE Thread
      BY <2>4, ThreadStep
    <2>5. CASE UNCHANGED rtk
      BY <2>5, RtkStutters DEF rtk
    <2> QED
      BY <2>1, <2>2, <2>3, <2>4, <2>5 DEF RtkNext
  <1>3. RtkInv => StatusIsOfActive
    BY DEF RtkInv
  <1> QED
    BY <1>1, <1>2, <1>3, PTL DEF RtkSpec

----------------------------------------------------------------------------
(* CourseHeading and CompassGate.  An estimate that may still be held rests *)
(* on a fix that was recent when it was made and has aged with it since.   *)
(* The gate's count of standing still never exceeds the time since the     *)
(* last telemetry that did not say so.                                     *)
FixesInv == fixes \subseteq [at : 0..Road, age : Nat]

HoldInv ==
    /\ valid.age \in Nat /\ valid.from \in Nat
    /\ valid.age <= HoldTime =>
        /\ valid.from <= MaxFixAge + MaxSampleDt + valid.age
        /\ valid.from <= Window + valid.age

CourseInv == FixesInv /\ HoldInv /\ CourseIsRecent

StillInv ==
    /\ still \in 0..Never /\ stirred \in 0..PublishAfter
    /\ still # Never => still <= stirred

CompassInv == StillInv /\ StillnessIsEarned

(* A straight drive gives an estimate from recent fixes or none.           *)
LEMMA EstimateStep ==
  ASSUME CourseInv, FixesInv', fixes' = Trimmed(fixes),
         NEW latest \in fixes', latest.age <= MaxFixAge, Estimate(fixes', latest)
  PROVE  HoldInv' /\ CourseIsRecent'
  <1> USE CourseAssumption DEF CourseInv, FixesInv, HoldInv, CourseIsRecent, Untold
  <1>1. CASE Invalid
    BY <1>1 DEF Invalid
  <1>2. CASE \E from \in Newest(Baselines(fixes', latest)) :
               valid' = [from |-> from.age, age |-> 0] /\ told' = from.age + 1
    <2>1. PICK from \in Newest(Baselines(fixes', latest)) :
            valid' = [from |-> from.age, age |-> 0] /\ told' = from.age + 1
      BY <1>2
    <2>2. from \in fixes' /\ from.age - latest.age <= MaxSampleDt
      BY <2>1 DEF Newest, Baselines
    <2>3. from.age \in Nat /\ latest.age \in Nat /\ from.age <= Window
      BY <2>2 DEF Trimmed
    <2> QED BY <2>1, <2>2, <2>3
  <1> QED BY <1>1, <1>2 DEF Estimate

(* The timer publishes what is recent, or holds what may be held.          *)
LEMMA CourseTimerStep ==
  ASSUME CourseInv, NEW driven, CourseTimer(driven)
  PROVE  CourseInv'
  <1>1. fixes' = Trimmed(fixes) /\ FixesInv'
    BY DEF CourseTimer, Trimmed, CourseInv, FixesInv
  <1>2. Invalid => HoldInv' /\ CourseIsRecent'
    BY DEF Invalid, CourseInv, HoldInv, CourseIsRecent
  <1>3. Hold => HoldInv' /\ CourseIsRecent'
    <2>1. CASE valid.age <= HoldTime
      BY <2>1, <1>2, CourseAssumption DEF Hold, CourseInv, HoldInv, CourseIsRecent
    <2>2. CASE ~(valid.age <= HoldTime)
      BY <2>2, <1>2 DEF Hold
    <2> QED BY <2>1, <2>2
  <1>4. ASSUME NEW latest \in Newest(fixes'), latest.age <= MaxFixAge, Estimate(fixes', latest)
        PROVE  HoldInv' /\ CourseIsRecent'
    BY <1>1, <1>4, EstimateStep DEF Newest
  <1>5. \/ Invalid \/ Hold
        \/ \E latest \in Newest(fixes') : latest.age <= MaxFixAge /\ Estimate(fixes', latest)
    BY <1>1, CourseAssumption DEF CourseTimer, FixesInv, Newest
  <1> QED BY <1>1, <1>2, <1>3, <1>4, <1>5 DEF CourseInv

(* A course is published only from recent fixes, for any window and any    *)
(* times: add_fix, the timer and the clock in any order.                   *)
THEOREM CourseSafety == CourseSpec => []CourseIsRecent
  <1>1. CourseInit => CourseInv
    BY CourseAssumption
       DEF CourseInit, CourseInv, FixesInv, HoldInv, CourseIsRecent, NoEstimate
  <1>2. CourseInv /\ [CourseNext]_course => CourseInv'
    <2> SUFFICES ASSUME CourseInv, [CourseNext]_course PROVE CourseInv'
      OBVIOUS
    <2>1. CASE CourseTick
      <3>1. FixesInv'
        BY <2>1, CourseAssumption DEF CourseTick, CourseInv, FixesInv, OlderFix, Far
      <3>2. HoldInv'
        BY <2>1, CourseAssumption DEF CourseTick, CourseInv, HoldInv, OlderFix, Far, NoEstimate
      <3> QED BY <2>1, <3>1, <3>2 DEF CourseTick, CourseInv, CourseIsRecent
    <2>2. ASSUME NEW place \in 0..Road, Fix(place) PROVE CourseInv'
      BY <2>2 DEF Fix, Trimmed, CourseInv, FixesInv, HoldInv, CourseIsRecent
    <2>3. ASSUME NEW driven, CourseTimer(driven) PROVE CourseInv'
      BY <2>3, CourseTimerStep
    <2>4. CASE UNCHANGED course
      BY <2>4 DEF course, CourseInv, FixesInv, HoldInv, CourseIsRecent
    <2> QED BY <2>1, <2>2, <2>3, <2>4 DEF CourseNext
  <1>3. CourseInv => CourseIsRecent
    BY DEF CourseInv
  <1> QED BY <1>1, <1>2, <1>3, PTL DEF CourseSpec

(* After the start the compass is believed only after a time without any   *)
(* telemetry of motion, for any times: drive telemetry, the course's word, *)
(* the timer and the clock in any order.                                   *)
THEOREM CompassSafety == CompassSpec => []StillnessIsEarned
  <1> USE CompassAssumption
          DEF CompassInv, StillInv, StillnessIsEarned, Never
  <1>1. CompassInit => CompassInv
    BY DEF CompassInit
  <1>2. CompassInv /\ [CompassNext]_compass => CompassInv'
    <2> SUFFICES ASSUME CompassInv, [CompassNext]_compass PROVE CompassInv'
      OBVIOUS
    <2>1. CASE CompassTick
      BY <2>1 DEF CompassTick, OlderUpTo
    <2>2. CASE \E yes \in BOOLEAN : Drive(yes)
      BY <2>2 DEF Drive
    <2>3. CASE \E yes \in BOOLEAN : Course(yes)
      BY <2>3 DEF Course
    <2>4. ASSUME NEW fit \in BOOLEAN, NEW near \in BOOLEAN, CompassTimer(fit, near)
          PROVE  CompassInv'
      <3>1. still' = still /\ stirred' = stirred /\ passed' = Reason(fit, near)
        BY <2>4 DEF CompassTimer
      <3>2. Reason(fit, near) = "long" => still # Never /\ still >= PublishAfter
        BY DEF Reason
      <3> QED BY <3>1, <3>2
    <2>5. CASE UNCHANGED compass
      BY <2>5 DEF compass
    <2> QED BY <2>1, <2>2, <2>3, <2>4, <2>5 DEF CompassNext
  <1>3. CompassInv => StillnessIsEarned
    OBVIOUS
  <1> QED BY <1>1, <1>2, <1>3, PTL DEF CompassSpec

(* The two nodes side by side: every heading the localisation is given     *)
(* rests on evidence.                                                      *)
THEOREM HeadingSafety == CourseSpec /\ CompassSpec => []HeadingsRestOnEvidence
  BY CourseSafety, CompassSafety, PTL DEF HeadingsRestOnEvidence

----------------------------------------------------------------------------
(* WsGateway.  Each request is judged alone, with what the node asked has  *)
(* done (done) or may still do (unserved). A request that must be answered *)
(* takes one turn: once it is in a thread it is not queued again, so what  *)
(* is dropped or refused has asked nothing; and as long as nothing failed, *)
(* its first answer was the node's.                                        *)
Places == {"sent", "queued", "thread", "waiting", "back", "ok", "failed", "unheard",
           "refused", "dropped"}
Request ==
    [op : DOMAIN Ops, page : Pages \cup {Nobody}, pc : Places, left : Seq(Seq(STRING)),
     need : Nat, good : BOOLEAN]

Before    == {"sent", "queued"}
InThread  == {"thread", "waiting"}
Command(t) == Ops[t.op].need > 0

TurnInv(t) ==
    /\ t.pc \in Before \cup InThread => t.left # <<>>
    /\ t.pc = "waiting" => t.left[1] # <<>>
    /\ Command(t) /\ t.pc \in Before \cup InThread => Len(t.left) = 1 /\ t.left[1] # <<>>
    /\ Command(t) /\ t.pc = "back" => t.left = <<>>
AnswerInv(t, done, unserved) ==
    /\ ~Command(t) => t.need = 0 /\ ~done /\ ~unserved
    /\ t.pc \in Before => t.need = Ops[t.op].need
    /\ done \/ unserved => t.pc \notin Before \cup {"refused", "dropped"}
    /\ Command(t) /\ t.good /\ t.pc \in InThread /\ t.need = 0 => done
    /\ Command(t) /\ t.good /\ t.pc = "back" => done
    /\ Command(t) /\ t.pc = "ok" => done

\* Of requests ts, work ps, what the nodes did and what they still may do.
Kept(ts, ps, did, may) ==
    /\ ts \in Seq(Request) /\ ps \in Seq(DOMAIN ts)
    /\ did \subseteq DOMAIN ts /\ may \subseteq DOMAIN ts
    /\ \A r \in DOMAIN ts : TurnInv(ts[r]) /\ AnswerInv(ts[r], r \in did, r \in may)

GateInv == Kept(task, pool, performed, overdue)

(* A new request has asked nothing.                                        *)
LEMMA NewRequest ==
  ASSUME NEW op \in DOMAIN Ops, NEW p \in Pages
  PROVE  /\ New(op, p) \in Request
         /\ TurnInv(New(op, p)) /\ AnswerInv(New(op, p), FALSE, FALSE)
  <1>1. SoundOp(Ops[op])
    BY GateAssumption
  <1> DEFINE t == New(op, p)
  <1>2. t = [op |-> op, page |-> p, pc |-> "sent", left |-> Ops[op].turns,
             need |-> Ops[op].need, good |-> TRUE]
    BY DEF New
  <1>3. t \in Request
    BY <1>1, <1>2 DEF Request, Places, SoundOp
  <1>4. t.op = op /\ t.pc = "sent" /\ t.left = Ops[op].turns /\ t.need = Ops[op].need
    BY <1>2
  <1> HIDE DEF t
  <1>5. TurnInv(t)
    BY <1>1, <1>4 DEF TurnInv, SoundOp, Before, InThread, Command
  <1>6. AnswerInv(t, FALSE, FALSE)
    BY <1>1, <1>4 DEF AnswerInv, SoundOp, Before, InThread, Command
  <1> QED BY <1>3, <1>5, <1>6 DEF t

(* A sequence of one element.                                              *)
LEMMA Singleton ==
  ASSUME NEW T, NEW x \in T
  PROVE  <<x>> \in Seq(T) /\ Len(<<x>>) = 1 /\ <<x>>[1] = x
  OBVIOUS

(* A sequence of one turn, and the turn in it after a service.             *)
LEMMA OneTurn ==
  ASSUME NEW s \in Seq(Seq(STRING)), s # <<>>
  PROVE  /\ Head(s) = s[1] /\ Head(s) \in Seq(STRING) /\ Tail(s) \in Seq(Seq(STRING))
         /\ Len(s) = 1 => Tail(s) = <<>>
         /\ Head(s) # <<>> =>
              /\ Tail(Head(s)) \in Seq(STRING)
              /\ <<Tail(Head(s))>> \o Tail(s) \in Seq(Seq(STRING))
              /\ (<<Tail(Head(s))>> \o Tail(s))[1] = Tail(Head(s))
              /\ Len(<<Tail(Head(s))>> \o Tail(s)) = Len(s)
              /\ <<Tail(Head(s))>> \o Tail(s) # <<>>
  <1>1. /\ Head(s) = s[1] /\ Head(s) \in Seq(STRING) /\ Tail(s) \in Seq(Seq(STRING))
        /\ Len(Tail(s)) = Len(s) - 1 /\ Len(s) \in Nat /\ Len(s) # 0
    BY HeadTailProperties, EmptySeq, LenProperties
  <1>2. \A q \in Seq(Seq(STRING)) : q = <<>> <=> Len(q) = 0
    BY EmptySeq
  <1>3. ASSUME Head(s) # <<>>
        PROVE  /\ Tail(Head(s)) \in Seq(STRING)
               /\ <<Tail(Head(s))>> \o Tail(s) \in Seq(Seq(STRING))
               /\ (<<Tail(Head(s))>> \o Tail(s))[1] = Tail(Head(s))
               /\ Len(<<Tail(Head(s))>> \o Tail(s)) = Len(s)
    <2>1. Tail(Head(s)) \in Seq(STRING)
      BY <1>1, <1>3, HeadTailProperties
    <2> DEFINE turn == Tail(Head(s))
    <2>2. <<turn>> \in Seq(Seq(STRING)) /\ Len(<<turn>>) = 1 /\ <<turn>>[1] = turn
      BY <2>1, Singleton
    <2> HIDE DEF turn
    <2>3. /\ <<turn>> \o Tail(s) \in Seq(Seq(STRING))
          /\ (<<turn>> \o Tail(s))[1] = <<turn>>[1]
          /\ Len(<<turn>> \o Tail(s)) = Len(<<turn>>) + Len(Tail(s))
      BY <1>1, <2>2, ConcatProperties
    <2> QED BY <1>1, <2>1, <2>2, <2>3 DEF turn
  <1>4. ASSUME Len(s) = 1
        PROVE  Tail(s) = <<>>
    <2>1. Len(Tail(s)) = 0
      BY <1>1, <1>4
    <2> QED BY <1>1, <1>2, <2>1, Zenon
  <1>5. Head(s) # <<>> => <<Tail(Head(s))>> \o Tail(s) # <<>>
    BY <1>1, <1>2, <1>3
  <1> QED BY <1>1, <1>3, <1>4, <1>5

(* A request that goes on or ends in its own way keeps the others'.        *)
LEMMA OneRequestMoves ==
  ASSUME NEW ts, NEW ps, NEW did, NEW may, Kept(ts, ps, did, may),
         NEW r \in DOMAIN ts, NEW t \in Request, NEW ps2 \in Seq(DOMAIN ts), NEW did2, NEW may2,
         did \subseteq did2, did2 \subseteq did \cup {r},
         may \subseteq may2, may2 \subseteq may \cup {r},
         TurnInv(t), AnswerInv(t, r \in did2, r \in may2)
  PROVE  Kept([ts EXCEPT ![r] = t], ps2, did2, may2)
  <1> DEFINE us == [ts EXCEPT ![r] = t]
  <1>1. us \in Seq(Request) /\ DOMAIN us = DOMAIN ts
    BY ExceptSeq DEF Kept
  <1>2. us[r] = t /\ \A q \in DOMAIN ts : q # r => us[q] = ts[q]
    BY DEF Kept
  <1>3. \A q \in DOMAIN ts : q # r => /\ q \in did2 <=> q \in did
                                      /\ q \in may2 <=> q \in may
    OBVIOUS
  <1> HIDE DEF us
  <1>4. ASSUME NEW q \in DOMAIN us
        PROVE  TurnInv(us[q]) /\ AnswerInv(us[q], q \in did2, q \in may2)
    <2>1. CASE q = r
      BY <1>2, <2>1
    <2>2. CASE q # r
      <3>1. TurnInv(ts[q]) /\ AnswerInv(ts[q], q \in did, q \in may)
        BY <1>1 DEF Kept
      <3> QED BY <1>1, <1>2, <1>3, <2>2, <3>1 DEF AnswerInv
    <2> QED BY <2>1, <2>2
  <1>5. did2 \subseteq DOMAIN us /\ may2 \subseteq DOMAIN us
    BY <1>1 DEF Kept
  <1> QED BY <1>1, <1>4, <1>5 DEF Kept, us

(* Requests are added with nothing asked.                                  *)
LEMMA RequestArrives ==
  ASSUME NEW ts, NEW ps, NEW did, NEW may, Kept(ts, ps, did, may),
         NEW op \in DOMAIN Ops, NEW p \in Pages
  PROVE  Kept(Append(ts, New(op, p)), ps, did, may)
  <1> DEFINE t == New(op, p)
             n == Len(ts) + 1
             us == Append(ts, t)
  <1>1. t \in Request /\ TurnInv(t) /\ AnswerInv(t, FALSE, FALSE)
    BY NewRequest
  <1>2. DOMAIN ts = 1..Len(ts) /\ Len(ts) \in Nat
    BY LenProperties DEF Kept
  <1> HIDE DEF t
  <1>3. /\ us \in Seq(Request) /\ DOMAIN us = 1..n
        /\ us[n] = t /\ \A q \in DOMAIN ts : us[q] = ts[q]
    BY <1>1, <1>2, AppendProperties, LenProperties DEF Kept
  <1> HIDE DEF us
  <1>4. DOMAIN ts \subseteq DOMAIN us /\ n \notin DOMAIN ts
        /\ \A q \in DOMAIN us : q \in DOMAIN ts \/ q = n
    BY <1>2, <1>3
  <1> HIDE DEF n
  <1>5. ps \in Seq(DOMAIN us)
    BY <1>4, SeqMonotonic DEF Kept
  <1>6. ASSUME NEW q \in DOMAIN us
        PROVE  TurnInv(us[q]) /\ AnswerInv(us[q], q \in did, q \in may)
    <2>1. CASE q = n
      <3>1. q \notin did /\ q \notin may
        BY <1>4, <2>1 DEF Kept
      <3>2. us[q] = t
        BY <1>3, <2>1
      <3> QED BY <1>1, <3>1, <3>2 DEF AnswerInv
    <2>2. CASE q \in DOMAIN ts
      <3>1. TurnInv(ts[q]) /\ AnswerInv(ts[q], q \in did, q \in may)
        BY <2>2 DEF Kept
      <3> QED BY <1>3, <2>2, <3>1
    <2> QED BY <1>4, <2>1, <2>2
  <1> QED BY <1>3, <1>4, <1>5, <1>6 DEF Kept, us, t

(* What a request becomes when an answer comes or does not.                *)
LEMMA AfterType ==
  ASSUME NEW t \in Request, NEW ok \in BOOLEAN, t.left # <<>>, t.left[1] # <<>>
  PROVE  /\ After(t, ok) \in Request
         /\ After(t, ok).op = t.op
         /\ After(t, ok).good = (t.good /\ (ok \/ t.need = 0))
         /\ After(t, ok).need = IF ok /\ t.need > 0 THEN t.need - 1 ELSE t.need
         /\ After(t, ok).pc \in {"thread", "back"}
         /\ After(t, ok).pc = "thread" =>
              /\ After(t, ok).left # <<>> /\ Len(After(t, ok).left) = Len(t.left)
              /\ After(t, ok).left[1] # <<>>
         /\ After(t, ok).pc = "back" /\ Len(t.left) = 1 => After(t, ok).left = <<>>
  <1> DEFINE turn == Tail(Head(t.left))
             pc == IF CutShort(t, ok) \/ turn = <<>> THEN "back" ELSE "thread"
             rest == IF CutShort(t, ok) THEN <<>>
                     ELSE IF turn = <<>> THEN Tail(t.left) ELSE <<turn>> \o Tail(t.left)
             good == t.good /\ (ok \/ t.need = 0)
             need == IF ok /\ t.need > 0 THEN t.need - 1 ELSE t.need
  <1>1. After(t, ok) = [t EXCEPT !.good = good, !.need = need, !.pc = pc, !.left = rest]
    BY DEF After
  <1>2. /\ t.left \in Seq(Seq(STRING)) /\ Head(t.left) # <<>>
        /\ Tail(t.left) \in Seq(Seq(STRING)) /\ turn \in Seq(STRING)
        /\ Len(t.left) = 1 => Tail(t.left) = <<>>
        /\ <<turn>> \o Tail(t.left) \in Seq(Seq(STRING))
        /\ (<<turn>> \o Tail(t.left))[1] = turn
        /\ Len(<<turn>> \o Tail(t.left)) = Len(t.left)
        /\ <<turn>> \o Tail(t.left) # <<>>
    BY OneTurn DEF Request
  <1>3. pc \in {"back", "thread"} /\ pc \in Places
    BY DEF Places
  <1>4. rest \in Seq(Seq(STRING))
    BY <1>2, EmptySeq
  <1>5. good \in BOOLEAN
    BY Zenon
  <1>6. need \in Nat
    BY DEF Request
  <1>7. pc = "thread" => rest # <<>> /\ Len(rest) = Len(t.left) /\ rest[1] # <<>>
    BY <1>2
  <1>8. pc = "back" /\ Len(t.left) = 1 => rest = <<>>
    BY <1>2
  <1> HIDE DEF turn, pc, rest, good, need
  <1>9. After(t, ok) \in Request
    BY <1>1, <1>3, <1>4, <1>5, <1>6 DEF Request
  <1>10. /\ After(t, ok).op = t.op /\ After(t, ok).good = good /\ After(t, ok).need = need
         /\ After(t, ok).pc = pc /\ After(t, ok).left = rest
    BY <1>1 DEF Request
  <1> QED BY <1>3, <1>7, <1>8, <1>9, <1>10 DEF good, need

LEMMA AfterInv ==
  ASSUME NEW t \in Request, NEW ok \in BOOLEAN,
         NEW done \in BOOLEAN, NEW unserved \in BOOLEAN, NEW did \in BOOLEAN, NEW may \in BOOLEAN,
         TurnInv(t), AnswerInv(t, done, unserved), t.pc \in InThread, t.left[1] # <<>>,
         done => did, did \/ may => Command(t), ok /\ t.need > 0 => did
  PROVE  /\ After(t, ok) \in Request
         /\ TurnInv(After(t, ok)) /\ AnswerInv(After(t, ok), did, may)
  <1>1. t.left # <<>>
    BY DEF TurnInv
  <1> DEFINE u == After(t, ok)
  <1>2. /\ u \in Request /\ u.op = t.op /\ u.good = (t.good /\ (ok \/ t.need = 0))
        /\ u.need = IF ok /\ t.need > 0 THEN t.need - 1 ELSE t.need
        /\ u.pc \in {"thread", "back"}
        /\ u.pc = "thread" => u.left # <<>> /\ Len(u.left) = Len(t.left) /\ u.left[1] # <<>>
        /\ u.pc = "back" /\ Len(t.left) = 1 => u.left = <<>>
    BY <1>1, AfterType
  <1> HIDE DEF u
  <1>3. Command(u) <=> Command(t)
    BY <1>2 DEF Command
  <1>4. TurnInv(u)
    BY <1>2, <1>3 DEF TurnInv, Before, InThread
  <1>5. t.need \in Nat
    BY DEF Request
  <1>6. Command(t) /\ u.good => did
    <2>1. CASE ok /\ t.need > 0
      BY <2>1
    <2>2. CASE t.need = 0
      BY <1>2, <2>2 DEF AnswerInv
    <2>3. CASE ~ok /\ t.need # 0
      BY <1>2, <2>3
    <2> QED BY <1>5, <2>1, <2>2, <2>3
  <1>7. ~Command(u) => u.need = 0 /\ ~did /\ ~may
    BY <1>2, <1>3 DEF AnswerInv
  <1>8. AnswerInv(u, did, may)
    BY <1>2, <1>3, <1>6, <1>7 DEF AnswerInv, Before, InThread
  <1> QED BY <1>2, <1>4, <1>8 DEF u

(* Connections, messages, and pages that leave.                            *)
LEMMA PageStep ==
  ASSUME GateInv, NEW p \in Pages,
         Join(p) \/ Leave(p) \/ \E op \in Uses : Message(p, op)
  PROVE  GateInv'
  <1>1. CASE Join(p)
    <2>1. "greet" \in DOMAIN Ops
      BY GateAssumption
    <2>2. task' = Append(task, New("greet", p)) /\ UNCHANGED <<pool, performed, overdue>>
      BY <1>1 DEF Join
    <2> QED BY <2>1, <2>2, RequestArrives DEF GateInv
  <1>2. ASSUME NEW op \in Uses, Message(p, op)
        PROVE  GateInv'
    <2>1. op \in DOMAIN Ops
      BY GateAssumption
    <2>2. task' = Append(task, New(op, p)) /\ UNCHANGED <<pool, performed, overdue>>
      BY <1>2 DEF Message
    <2> QED BY <2>1, <2>2, RequestArrives DEF GateInv
  <1>3. CASE Leave(p)
    <2> DEFINE new(r) == IF r \in Cancelled(p) THEN EndOf(task[r], "dropped")
                         ELSE IF task[r].page = p THEN [task[r] EXCEPT !.page = Nobody]
                         ELSE task[r]
    <2>1. task' = [r \in Ids |-> new(r)] /\ UNCHANGED <<pool, performed, overdue>>
      BY <1>3 DEF Leave
    <2>2. Ids = 1..Len(task) /\ Len(task) \in Nat /\ task \in [Ids -> Request]
      BY LenProperties DEF GateInv, Kept, Ids
    <2>3. ASSUME NEW r \in Ids
          PROVE  new(r) \in Request /\ TurnInv(new(r))
                 /\ AnswerInv(new(r), r \in performed, r \in overdue)
      <3> DEFINE t == task[r]
      <3>1. t \in Request /\ TurnInv(t) /\ AnswerInv(t, r \in performed, r \in overdue)
        BY <2>2 DEF GateInv, Kept, Ids
      <3>2. CASE r \in Cancelled(p)
        <4>1. t.pc \in Before
          BY <3>2 DEF Cancelled, RequestAt, Before
        <4> DEFINE u == EndOf(t, "dropped")
        <4>2. /\ u \in Request /\ u.op = t.op /\ u.pc = "dropped"
              /\ u.left = <<>> /\ u.need = 0
          BY <3>1, EmptySeq DEF Request, EndOf, Places
        <4> HIDE DEF u
        <4>3. TurnInv(u)
          BY <4>2 DEF TurnInv, Before, InThread
        <4>4. AnswerInv(u, r \in performed, r \in overdue)
          BY <3>1, <4>1, <4>2 DEF AnswerInv, Command, Before, InThread
        <4> QED BY <3>2, <4>2, <4>3, <4>4 DEF u
      <3>3. CASE r \notin Cancelled(p) /\ t.page = p
        <4> DEFINE u == [t EXCEPT !.page = Nobody]
        <4>1. /\ u \in Request /\ u.op = t.op /\ u.pc = t.pc
              /\ u.left = t.left /\ u.need = t.need /\ u.good = t.good
          BY <3>1 DEF Request
        <4> HIDE DEF u
        <4>2. TurnInv(u) /\ AnswerInv(u, r \in performed, r \in overdue)
          BY <3>1, <4>1 DEF TurnInv, AnswerInv, Command
        <4> QED BY <3>3, <4>1, <4>2 DEF u
      <3>4. CASE r \notin Cancelled(p) /\ t.page # p
        BY <3>1, <3>4
      <3> QED BY <3>2, <3>3, <3>4
    <2> HIDE DEF new
    <2>4. task' \in [Ids -> Request] /\ task' \in Seq(Request) /\ DOMAIN task' = Ids
      BY <2>1, <2>2, <2>3
    <2>5. \A r \in Ids : task'[r] = new(r)
      BY <2>1
    <2> QED BY <2>1, <2>3, <2>4, <2>5 DEF GateInv, Kept, Ids
  <1> QED BY <1>1, <1>2, <1>3

(* A request and what is known of it.                                      *)
LEMMA RequestKnown ==
  ASSUME GateInv, NEW r \in Ids
  PROVE  /\ task[r] \in Request /\ TurnInv(task[r])
         /\ AnswerInv(task[r], r \in performed, r \in overdue)
         /\ pool \in Seq(Ids)
  BY ElementOfSeq, LenProperties DEF GateInv, Kept, Ids

(* Only the place of a request changes.                                    *)
LEMMA MovesTo ==
  ASSUME NEW t \in Request, NEW pc \in Places
  PROVE  /\ [t EXCEPT !.pc = pc] \in Request
         /\ [t EXCEPT !.pc = pc].pc = pc /\ [t EXCEPT !.pc = pc].op = t.op
         /\ [t EXCEPT !.pc = pc].left = t.left /\ [t EXCEPT !.pc = pc].need = t.need
         /\ [t EXCEPT !.pc = pc].good = t.good
  BY DEF Request

(* A request ends with nothing left of it.                                 *)
LEMMA EndsAs ==
  ASSUME NEW t \in Request, NEW pc \in {"ok", "failed", "unheard", "refused", "dropped"}
  PROVE  /\ EndOf(t, pc) \in Request
         /\ EndOf(t, pc).pc = pc /\ EndOf(t, pc).op = t.op /\ EndOf(t, pc).need = 0
         /\ TurnInv(EndOf(t, pc))
  <1> DEFINE u == EndOf(t, pc)
  <1>1. u \in Request /\ u.pc = pc /\ u.op = t.op /\ u.left = <<>> /\ u.need = 0
    BY EmptySeq DEF Request, EndOf, Places
  <1> HIDE DEF u
  <1>2. TurnInv(u)
    BY <1>1 DEF TurnInv, Before, InThread
  <1> QED BY <1>1, <1>2 DEF u

(* A thread takes the next work, if it has not been cancelled.             *)
LEMMA StartStep ==
  ASSUME GateInv, Start
  PROVE  GateInv'
  <1> DEFINE r == Head(pool)
  <1>1. r \in Ids /\ Tail(pool) \in Seq(Ids) /\ pool' = Tail(pool)
    BY HeadTailProperties DEF Start, GateInv, Kept, Ids
  <1>2. UNCHANGED <<performed, overdue>>
    BY DEF Start
  <1>3. CASE RequestAt(r, {"queued"})
    <2> DEFINE t == [task[r] EXCEPT !.pc = "thread"]
    <2>1. task' = [task EXCEPT ![r] = t]
      BY <1>3 DEF Start
    <2>2. /\ t \in Request /\ t.pc = "thread" /\ t.op = task[r].op
          /\ t.left = task[r].left /\ t.need = task[r].need /\ t.good = task[r].good
      BY <1>1, RequestKnown, MovesTo DEF Places
    <2>3. task[r].pc = "queued" /\ TurnInv(task[r])
          /\ AnswerInv(task[r], r \in performed, r \in overdue) /\ task[r] \in Request
      BY <1>1, <1>3, RequestKnown DEF RequestAt
    <2> HIDE DEF t
    <2>4. TurnInv(t) /\ AnswerInv(t, r \in performed, r \in overdue)
      BY <2>2, <2>3 DEF TurnInv, AnswerInv, Command, Before, InThread, Request
    <2> HIDE DEF r
    <2> QED BY <1>1, <1>2, <2>1, <2>2, <2>4, OneRequestMoves DEF GateInv, Ids
  <1>4. CASE ~RequestAt(r, {"queued"})
    <2>1. task' = task
      BY <1>4 DEF Start
    <2> QED BY <1>1, <1>2, <2>1 DEF GateInv, Kept, Ids
  <1> QED BY <1>3, <1>4

(* Admitted or refused.                                                    *)
LEMMA AdmitStep ==
  ASSUME GateInv, NEW r \in Ids, AdmitRequest(r)
  PROVE  GateInv'
  <1>1. /\ task[r] \in Request /\ TurnInv(task[r]) /\ task[r].pc = "sent"
        /\ AnswerInv(task[r], r \in performed, r \in overdue) /\ pool \in Seq(Ids)
    BY RequestKnown DEF AdmitRequest, RequestAt
  <1>2. UNCHANGED <<performed, overdue>>
    BY DEF AdmitRequest
  <1>3. CASE task' = [task EXCEPT ![r] = EndOf(@, "refused")] /\ UNCHANGED pool
    <2> DEFINE t == EndOf(task[r], "refused")
    <2>1. t \in Request /\ t.pc = "refused" /\ t.op = task[r].op /\ t.need = 0 /\ TurnInv(t)
      BY <1>1, EndsAs
    <2>2. task' = [task EXCEPT ![r] = t]
      BY <1>3
    <2> HIDE DEF t
    <2>3. AnswerInv(t, r \in performed, r \in overdue)
      BY <1>1, <2>1 DEF AnswerInv, Command, Before, InThread
    <2>4. pool' \in Seq(Ids)
      BY <1>1, <1>3
    <2> QED BY <1>2, <2>1, <2>2, <2>3, <2>4, OneRequestMoves DEF GateInv, Ids
  <1>4. CASE task' = [task EXCEPT ![r].pc = "queued"] /\ pool' = Append(pool, r)
    <2> DEFINE t == [task[r] EXCEPT !.pc = "queued"]
    <2>1. task' = [task EXCEPT ![r] = t]
      BY <1>4
    <2>2. /\ t \in Request /\ t.pc = "queued" /\ t.op = task[r].op
          /\ t.left = task[r].left /\ t.need = task[r].need /\ t.good = task[r].good
      BY <1>1, MovesTo DEF Places
    <2> HIDE DEF t
    <2>3. TurnInv(t) /\ AnswerInv(t, r \in performed, r \in overdue)
      BY <1>1, <2>2 DEF TurnInv, AnswerInv, Command, Before, InThread
    <2>4. pool' \in Seq(Ids)
      BY <1>1, <1>4, AppendProperties
    <2> QED BY <1>1, <1>2, <2>1, <2>2, <2>3, <2>4, OneRequestMoves DEF GateInv, Ids
  <1> QED BY <1>3, <1>4 DEF AdmitRequest

(* A turn without a service is no command's.                               *)
LEMMA LocalStep ==
  ASSUME GateInv, NEW r \in Ids, Local(r)
  PROVE  GateInv'
  <1>1. /\ task[r] \in Request /\ TurnInv(task[r]) /\ task[r].pc = "thread"
        /\ AnswerInv(task[r], r \in performed, r \in overdue) /\ pool \in Seq(Ids)
    BY RequestKnown DEF Local, RequestAt
  <1>2. UNCHANGED <<pool, performed, overdue>>
    BY DEF Local
  <1>3. PICK good \in BOOLEAN :
          task' = [task EXCEPT ![r] =
                     [task[r] EXCEPT !.good = good, !.pc = "back", !.left = Tail(@)]]
    BY DEF Local
  <1> DEFINE t == [task[r] EXCEPT !.good = good, !.pc = "back", !.left = Tail(@)]
  <1>4. task' = [task EXCEPT ![r] = t]
    BY <1>3
  <1>5. /\ task[r].left \in Seq(Seq(STRING)) /\ task[r].left # <<>>
        /\ Head(task[r].left) = task[r].left[1] /\ Tail(task[r].left) \in Seq(Seq(STRING))
    BY <1>1, OneTurn DEF Request, TurnInv, Before, InThread
  <1>6. ~Command(task[r])
    BY <1>1, <1>5 DEF Local, TurnInv, InThread
  <1>7. t \in Request /\ t.op = task[r].op /\ t.pc = "back" /\ t.need = task[r].need
    BY <1>1, <1>5 DEF Request, Places
  <1> HIDE DEF t
  <1>8. ~Command(t)
    BY <1>6, <1>7 DEF Command
  <1>9. TurnInv(t) /\ AnswerInv(t, r \in performed, r \in overdue)
    BY <1>1, <1>6, <1>7, <1>8 DEF TurnInv, AnswerInv, Before, InThread
  <1> QED BY <1>1, <1>2, <1>4, <1>7, <1>9, OneRequestMoves DEF GateInv, Ids

(* A service is missing, asked, answers, or is given up.                   *)
LEMMA AnswerStep ==
  ASSUME GateInv, NEW r \in Ids, NEW ok \in BOOLEAN, NEW did \in BOOLEAN, NEW may \in BOOLEAN,
         task[r].pc \in InThread, task[r].left[1] # <<>>, Returns(r, ok), UNCHANGED pool,
         performed' = IF did THEN performed \cup {r} ELSE performed,
         overdue' = IF may THEN overdue \cup {r} ELSE overdue,
         did \/ may => task[r].need > 0, ok /\ task[r].need > 0 => did
  PROVE  GateInv'
  <1>1. /\ task[r] \in Request /\ TurnInv(task[r])
        /\ AnswerInv(task[r], r \in performed, r \in overdue) /\ pool \in Seq(Ids)
    BY RequestKnown
  <1>2. task' = [task EXCEPT ![r] = After(task[r], ok)]
    BY DEF Returns
  <1>3. /\ performed \subseteq performed' /\ performed' \subseteq performed \cup {r}
        /\ overdue \subseteq overdue' /\ overdue' \subseteq overdue \cup {r}
        /\ r \in performed' <=> r \in performed \/ did
        /\ r \in overdue' <=> r \in overdue \/ may
    OBVIOUS
  <1>4. r \in performed' \/ r \in overdue' => Command(task[r])
    BY <1>1, <1>3 DEF AnswerInv, Request
  <1>5. (r \in performed) \in BOOLEAN /\ (r \in overdue) \in BOOLEAN
        /\ (r \in performed') \in BOOLEAN /\ (r \in overdue') \in BOOLEAN
    OBVIOUS
  <1>6. /\ After(task[r], ok) \in Request /\ TurnInv(After(task[r], ok))
        /\ AnswerInv(After(task[r], ok), r \in performed', r \in overdue')
    BY <1>1, <1>3, <1>4, <1>5, AfterInv
  <1>7. pool' \in Seq(Ids)
    BY <1>1
  <1> QED BY <1>2, <1>3, <1>6, <1>7, OneRequestMoves DEF GateInv, Ids

LEMMA CallStep ==
  ASSUME GateInv, NEW r \in Ids, CallService(r)
  PROVE  GateInv'
  <1>1. /\ task[r] \in Request /\ TurnInv(task[r]) /\ task[r].pc = "thread"
        /\ AnswerInv(task[r], r \in performed, r \in overdue) /\ pool \in Seq(Ids)
    BY RequestKnown DEF CallService, RequestAt
  <1>2. task[r].left[1] # <<>>
    BY <1>1, OneTurn DEF CallService, Request, TurnInv, InThread
  <1>3. UNCHANGED <<pool, performed, overdue>>
    BY DEF CallService
  <1>4. CASE Returns(r, FALSE)
    BY <1>1, <1>2, <1>3, <1>4, AnswerStep DEF InThread
  <1>5. CASE task' = [task EXCEPT ![r].pc = "waiting"]
    <2> DEFINE t == [task[r] EXCEPT !.pc = "waiting"]
    <2>1. task' = [task EXCEPT ![r] = t]
      BY <1>5
    <2>2. /\ t \in Request /\ t.pc = "waiting" /\ t.op = task[r].op
          /\ t.left = task[r].left /\ t.need = task[r].need /\ t.good = task[r].good
      BY <1>1, MovesTo DEF Places
    <2> HIDE DEF t
    <2>3. TurnInv(t) /\ AnswerInv(t, r \in performed, r \in overdue)
      BY <1>1, <1>2, <2>2 DEF TurnInv, AnswerInv, Command, Before, InThread
    <2>4. pool' \in Seq(Ids)
      BY <1>1, <1>3
    <2> QED BY <1>3, <2>1, <2>2, <2>3, <2>4, OneRequestMoves DEF GateInv, Ids
  <1> QED BY <1>4, <1>5 DEF CallService

LEMMA ServeStep ==
  ASSUME GateInv, NEW r \in Ids, GiveUp(r) \/ \E ok \in BOOLEAN : Serve(r, ok)
  PROVE  GateInv'
  <1>1. task[r] \in Request /\ TurnInv(task[r])
    BY RequestKnown
  <1>2. task[r].pc = "waiting" /\ task[r].pc \in InThread /\ task[r].left[1] # <<>>
    BY <1>1 DEF GiveUp, Serve, RequestAt, TurnInv, InThread
  <1>3. ASSUME NEW ok \in BOOLEAN, Serve(r, ok)
        PROVE  GateInv'
    <2> DEFINE did == ok /\ task[r].need > 0
    <2>1. did \in BOOLEAN
      BY Zenon
    <2>2. /\ Returns(r, ok) /\ pool' = pool /\ overdue' = overdue
          /\ performed' = IF did THEN performed \cup {r} ELSE performed
      BY <1>3 DEF Serve
    <2>3. did => task[r].need > 0
      OBVIOUS
    <2>4. ok /\ task[r].need > 0 => did
      OBVIOUS
    <2> HIDE DEF did
    <2> QED BY <1>2, <2>1, <2>2, <2>3, <2>4, AnswerStep
  <1>4. CASE GiveUp(r)
    <2> DEFINE may == task[r].need > 0
    <2>1. may \in BOOLEAN
      OBVIOUS
    <2>2. /\ Returns(r, FALSE) /\ pool' = pool /\ performed' = performed
          /\ overdue' = IF may THEN overdue \cup {r} ELSE overdue
      BY <1>4 DEF GiveUp
    <2>3. may => task[r].need > 0
      OBVIOUS
    <2> HIDE DEF may
    <2> QED BY <1>2, <2>1, <2>2, <2>3, AnswerStep
  <1> QED BY <1>3, <1>4

(* What was given up may still be carried out.                             *)
LEMMA ServeLateStep ==
  ASSUME GateInv, NEW r \in overdue, ServeLate(r)
  PROVE  GateInv'
  <1>1. /\ task' = task /\ pool' = pool
        /\ performed' = performed \cup {r} /\ overdue' = overdue \ {r}
    BY DEF ServeLate
  <1>2. performed' \subseteq Ids /\ overdue' \subseteq Ids
    BY <1>1 DEF GateInv, Kept, Ids
  <1>3. ASSUME NEW q \in Ids
        PROVE  AnswerInv(task[q], q \in performed', q \in overdue')
    <2>1. AnswerInv(task[q], q \in performed, q \in overdue)
      BY DEF GateInv, Kept, Ids
    <2>2. q # r => (q \in performed' <=> q \in performed) /\ (q \in overdue' <=> q \in overdue)
      BY <1>1
    <2>3. q = r => q \in overdue /\ q \in performed'
      BY <1>1
    <2> QED BY <2>1, <2>2, <2>3 DEF AnswerInv
  <1> QED BY <1>1, <1>2, <1>3 DEF GateInv, Kept, Ids

(* A sequence with two more elements is two more appended.                 *)
LEMMA TwoMore ==
  ASSUME NEW T, NEW s \in Seq(T), NEW a \in T, NEW b \in T
  PROVE  s \o <<a, b>> = Append(Append(s, a), b)
  <1>1. <<a, b>> \in Seq(T) /\ Len(<<a, b>>) = 2 /\ <<a, b>>[1] = a /\ <<a, b>>[2] = b
    OBVIOUS
  <1> DEFINE ab == <<a, b>>
             l == s \o ab
             m == Append(s, a)
             n == Append(m, b)
  <1>2. Len(s) \in Nat
    BY LenProperties
  <1> HIDE DEF ab
  <1>3. /\ l \in Seq(T) /\ Len(l) = Len(s) + 2
        /\ \A i \in 1..Len(s) + 2 : l[i] = IF i <= Len(s) THEN s[i] ELSE ab[i - Len(s)]
    BY <1>1, ConcatProperties DEF ab
  <1>4. /\ m \in Seq(T) /\ Len(m) = Len(s) + 1
        /\ \A i \in 1..Len(s) : m[i] = s[i]
        /\ m[Len(s) + 1] = a
    BY AppendProperties
  <1> HIDE DEF l, m
  <1>5. /\ n \in Seq(T) /\ Len(n) = Len(m) + 1
        /\ \A i \in 1..Len(m) : n[i] = m[i]
        /\ n[Len(m) + 1] = b
    BY <1>4, AppendProperties
  <1> HIDE DEF n
  <1>6. ASSUME NEW i \in 1..Len(l)
        PROVE  l[i] = n[i]
    <2>1. CASE i <= Len(s)
      BY <1>2, <1>3, <1>4, <1>5, <2>1
    <2>2. CASE i = Len(s) + 1
      BY <1>1, <1>2, <1>3, <1>4, <1>5, <2>2 DEF ab
    <2>3. CASE i = Len(s) + 2
      BY <1>1, <1>2, <1>3, <1>4, <1>5, <2>3 DEF ab
    <2> QED BY <1>2, <1>3, <2>1, <2>2, <2>3
  <1>7. Len(l) = Len(n)
    BY <1>2, <1>3, <1>4, <1>5
  <1>8. l = n
    BY <1>3, <1>5, <1>6, <1>7, SeqEqual
  <1> QED BY <1>8 DEF l, m, n, ab

(* A task ends without an answer.                                          *)
LEMMA RaiseStep ==
  ASSUME GateInv, NEW r \in Ids, Raise(r)
  PROVE  GateInv'
  <1>1. /\ task[r] \in Request /\ pool \in Seq(Ids)
        /\ AnswerInv(task[r], r \in performed, r \in overdue)
    BY RequestKnown
  <1> DEFINE t == EndOf(task[r], "unheard")
  <1>2. t \in Request /\ t.pc = "unheard" /\ t.op = task[r].op /\ t.need = 0 /\ TurnInv(t)
    BY <1>1, EndsAs
  <1>3. task' = [task EXCEPT ![r] = t] /\ UNCHANGED <<pool, performed, overdue>>
    BY DEF Raise
  <1> HIDE DEF t
  <1>4. AnswerInv(t, r \in performed, r \in overdue)
    BY <1>1, <1>2 DEF AnswerInv, Command, Before, InThread
  <1> QED BY <1>1, <1>2, <1>3, <1>4, OneRequestMoves DEF GateInv, Ids

(* A task goes on, or ends with its answer; a greeted page is then heard,  *)
(* and two readings begin.                                                 *)
LEMMA ResumeStep ==
  ASSUME GateInv, NEW r \in Ids, Resume(r)
  PROVE  GateInv'
  <1>1. /\ task[r] \in Request /\ TurnInv(task[r]) /\ task[r].pc = "back"
        /\ AnswerInv(task[r], r \in performed, r \in overdue) /\ pool \in Seq(Ids)
    BY RequestKnown DEF Resume, RequestAt
  <1>2. UNCHANGED <<performed, overdue>>
    BY DEF Resume
  <1>3. CASE task[r].left # <<>> /\ task[r].page # Nobody
    <2> DEFINE t == [task[r] EXCEPT !.pc = "queued"]
    <2>1. task' = [task EXCEPT ![r] = t] /\ pool' = Append(pool, r)
      BY <1>3 DEF Resume
    <2>2. /\ t \in Request /\ t.pc = "queued" /\ t.op = task[r].op
          /\ t.left = task[r].left /\ t.need = task[r].need /\ t.good = task[r].good
      BY <1>1, MovesTo DEF Places
    <2> HIDE DEF t
    <2>3. ~Command(task[r]) /\ ~Command(t)
      BY <1>1, <1>3, <2>2 DEF TurnInv, Command
    <2>4. t.need = Ops[t.op].need
      <3>1. SoundOp(Ops[t.op])
        BY <2>2, GateAssumption DEF Request
      <3>2. Ops[t.op].need = 0
        BY <2>3, <3>1 DEF Command, SoundOp
      <3> QED BY <1>1, <2>2, <2>3, <3>2 DEF AnswerInv
    <2>5. TurnInv(t) /\ AnswerInv(t, r \in performed, r \in overdue)
      BY <1>1, <1>3, <2>2, <2>3, <2>4 DEF TurnInv, AnswerInv, Before, InThread
    <2>6. pool' \in Seq(Ids)
      BY <1>1, <2>1, AppendProperties
    <2> QED BY <1>2, <2>1, <2>2, <2>5, <2>6, OneRequestMoves DEF GateInv, Ids
  <1>4. CASE ~(task[r].left # <<>> /\ task[r].page # Nobody)
    <2> DEFINE t == EndOf(task[r], Answer(r))
               over == [task EXCEPT ![r] = t]
               page == task[r].page
    <2>1. Answer(r) \in {"ok", "failed", "unheard"} /\ (Answer(r) = "ok" => task[r].good)
      BY DEF Answer
    <2>2. t \in Request /\ t.pc = Answer(r) /\ t.op = task[r].op /\ t.need = 0 /\ TurnInv(t)
      BY <1>1, <2>1, EndsAs
    <2> HIDE DEF t
    <2>3. AnswerInv(t, r \in performed, r \in overdue)
      BY <1>1, <2>1, <2>2 DEF AnswerInv, Command, Before, InThread
    <2>4. Kept(over, pool, performed, overdue)
      BY <1>1, <2>2, <2>3, OneRequestMoves DEF GateInv, Ids
    <2>5. pool' = pool
      BY <1>4 DEF Resume
    <2>6. CASE task[r].op = "greet" /\ page # Nobody
      <3> DEFINE a == New("reload_zones", page)
                 b == New("refresh_nav", page)
      <3>1. task' = over \o <<a, b>>
        BY <1>4, <2>6 DEF Resume, t
      <3>2. page \in Pages /\ "reload_zones" \in DOMAIN Ops /\ "refresh_nav" \in DOMAIN Ops
        BY <1>1, <2>6, GateAssumption DEF Request
      <3>3. a \in Request /\ b \in Request /\ over \in Seq(Request)
        BY <2>4, <3>2, NewRequest DEF Kept
      <3> HIDE DEF over, page
      <3>4. Kept(Append(Append(over, a), b), pool, performed, overdue)
        BY <2>4, <3>2, RequestArrives
      <3> HIDE DEF a, b
      <3>5. task' = Append(Append(over, a), b)
        BY <3>1, <3>3, TwoMore
      <3> QED BY <1>2, <2>5, <3>4, <3>5 DEF GateInv
    <2>7. CASE ~(task[r].op = "greet" /\ page # Nobody)
      <3>1. task' = over
        BY <1>4, <2>7 DEF Resume, t
      <3> QED BY <1>2, <2>4, <2>5, <3>1 DEF GateInv
    <2> QED BY <2>6, <2>7
  <1> QED BY <1>3, <1>4

(* What a page is told is true, for any pages, threads and requests: the   *)
(* event loop, the pool, the nodes, late answers and pages that leave, in  *)
(* any order.                                                              *)
THEOREM GateSafety == GateSpec => []AnswersAreTrue
  <1>1. GateInit => GateInv
    <2> SUFFICES ASSUME GateInit PROVE GateInv
      OBVIOUS
    <2>1. task = <<>> /\ pool = <<>> /\ performed = {} /\ overdue = {}
      BY DEF GateInit, GateStarts
    <2>2. <<>> \in Seq(Request) /\ <<>> \in Seq(DOMAIN <<>>) /\ DOMAIN <<>> = {}
      BY EmptySeq
    <2> QED BY <2>1, <2>2 DEF GateInv, Kept
  <1>2. GateInv /\ [GateNext]_gate => GateInv'
    <2> SUFFICES ASSUME GateInv, [GateNext]_gate PROVE GateInv'
      OBVIOUS
    <2>1. CASE Start
      BY <2>1, StartStep
    <2>2. CASE DogShuts
      BY <2>2 DEF DogShuts, GateInv, Kept
    <2>3. CASE \E p \in Pages : Join(p) \/ Leave(p) \/ \E op \in Uses : Message(p, op)
      BY <2>3, PageStep
    <2>4. CASE \E r \in Ids : RequestMoves(r)
      BY <2>4, AdmitStep, LocalStep, CallStep, ServeStep, ResumeStep DEF RequestMoves
    <2>5. CASE \E r \in Ids : \E ok \in BOOLEAN : Serve(r, ok)
      BY <2>5, ServeStep
    <2>6. CASE \E r \in overdue : ServeLate(r)
      BY <2>6, ServeLateStep
    <2>7. CASE UNCHANGED gate
      BY <2>7 DEF gate, GateInv, Kept
    <2>8. CASE \E r \in Ids : Raise(r)
      BY <2>8, RaiseStep
    <2> QED BY <2>1, <2>2, <2>3, <2>4, <2>5, <2>6, <2>7, <2>8 DEF GateNext
  <1>3. GateInv => AnswersAreTrue
    <2> SUFFICES ASSUME GateInv, NEW r \in Ids
                 PROVE  /\ task[r].pc = "ok" /\ Ops[task[r].op].need > 0 => r \in performed
                        /\ task[r].pc \in {"refused", "dropped"} =>
                             r \notin performed \cup overdue
      BY DEF AnswersAreTrue, RequestAt
    <2>1. AnswerInv(task[r], r \in performed, r \in overdue)
      BY RequestKnown
    <2> QED BY <2>1 DEF AnswerInv, Command
  <1> QED BY <1>1, <1>2, <1>3, PTL DEF GateSpec
----------------------------------------------------------------------------
(* PathClearance.  The counter of check_path_clearance is the distance to  *)
(* the last sample that is not high, so the sweep finds what Obstructed    *)
(* says; and the cache is dropped with every costmap and parameter.        *)

\* How far back the last sample lies that is not high.
Back(high, n) == {d \in 0..n : n - d \notin high}
Run(high, n)  == CHOOSE d \in Back(high, n) : \A e \in Back(high, n) : d <= e

LEMMA RunIs ==
  ASSUME NEW last \in Nat, NEW high \in SUBSET (1..last), NEW n \in 0..last
  PROVE  /\ Run(high, n) \in Back(high, n)
         /\ \A e \in Back(high, n) : Run(high, n) <= e
  <1>1. Back(high, n) \in SUBSET Nat /\ n \in Back(high, n)
    BY DEF Back
  <1>2. \E d \in Back(high, n) : \A e \in Back(high, n) : d <= e
    BY <1>1, LeastNat
  <1> QED BY <1>2 DEF Run

(* The run behind a sample is that of the one before and one more, or none. *)
LEMMA RunGrows ==
  ASSUME NEW last \in Nat, NEW high \in SUBSET (1..last), NEW n \in 0..last
  PROVE  Run(high, n) = IF n \in high THEN Run(high, n - 1) + 1 ELSE 0
  <1>1. CASE n \notin high
    <2>1. 0 \in Back(high, n)
      BY <1>1 DEF Back
    <2> QED BY <1>1, <2>1, RunIs DEF Back
  <1>2. CASE n \in high
    <2>1. n - 1 \in 0..last
      BY <1>2
    <2> DEFINE a == Run(high, n)
               b == Run(high, n - 1)
    <2>2. a \in Back(high, n) /\ \A e \in Back(high, n) : a <= e
      BY RunIs
    <2>3. b \in Back(high, n - 1) /\ \A e \in Back(high, n - 1) : b <= e
      BY <2>1, RunIs
    <2> HIDE DEF a, b
    <2>4. a # 0 /\ a - 1 \in Back(high, n - 1)
      BY <1>2, <2>2 DEF Back
    <2>5. b + 1 \in Back(high, n)
      BY <1>2, <2>3 DEF Back
    <2>6. a = b + 1
      BY <2>2, <2>3, <2>4, <2>5 DEF Back
    <2> QED BY <1>2, <2>6 DEF a, b
  <1> QED BY <1>1, <1>2

(* The code's counter is the run.                                          *)
LEMMA HighsAreRuns ==
  ASSUME NEW last \in Nat, NEW high \in SUBSET (1..last), NEW n \in 0..last
  PROVE  Highs(high, last)[n] = Run(high, n)
  <1> DEFINE F(f) == [i \in 0..last |-> IF i \in high THEN f[i - 1] + 1 ELSE 0]
             f == Highs(high, last)
             r == [i \in 0..last |-> Run(high, i)]
  <1>1. r = F(r)
    <2>1. ASSUME NEW i \in 0..last
          PROVE  r[i] = IF i \in high THEN r[i - 1] + 1 ELSE 0
      <3>1. i \in high => i - 1 \in 0..last
        OBVIOUS
      <3> QED BY <3>1, RunGrows
    <2> QED BY <2>1
  <1>2. f = CHOOSE g : g = F(g)
    BY DEF Highs
  <1>3. f = F(f)
    <2> HIDE DEF r, f, F
    <2> QED BY <1>1, <1>2
  <1> DEFINE Differ == {i \in 0..last : f[i] # r[i]}
  <1>4. Differ = {}
    <2> SUFFICES ASSUME Differ # {} PROVE FALSE
      OBVIOUS
    <2>1. PICK i \in Differ : \A j \in Differ : i <= j
      <3>1. Differ \in SUBSET Nat
        OBVIOUS
      <3> HIDE DEF Differ
      <3> QED BY <3>1, LeastNat
    <2>2. i \in 0..last /\ f[i] # r[i]
      BY <2>1
    <2>3. f[i] = IF i \in high THEN f[i - 1] + 1 ELSE 0
      BY <1>3, <2>2
    <2>4. r[i] = IF i \in high THEN r[i - 1] + 1 ELSE 0
      BY <1>1, <2>2
    <2>5. i \in high => i - 1 \in 0..last /\ i - 1 \notin Differ
      BY <2>1
    <2> HIDE DEF f, r, F
    <2>6. i \in high => f[i - 1] = r[i - 1]
      BY <2>5
    <2> QED BY <2>2, <2>3, <2>4, <2>6
  <1>5. f[n] = r[n]
    BY <1>4
  <1> QED BY <1>5

(* The counter reaches k exactly behind k high samples in a row.           *)
LEMMA HighsCount ==
  ASSUME NEW last \in Nat, NEW high \in SUBSET (1..last), NEW n \in 0..last, NEW k \in Nat
  PROVE  /\ Highs(high, last)[n] \in Nat
         /\ Highs(high, last)[n] >= k <=> k <= n /\ n - k + 1 .. n \subseteq high
  <1> DEFINE r == Run(high, n)
  <1>1. r \in Back(high, n) /\ \A e \in Back(high, n) : r <= e
    BY RunIs
  <1>2. Highs(high, last)[n] = r
    BY HighsAreRuns
  <1> HIDE DEF r
  <1>3. ASSUME r >= k
        PROVE  k <= n /\ n - k + 1 .. n \subseteq high
    <2>1. k <= n
      BY <1>1, <1>3 DEF Back
    <2>2. ASSUME NEW i \in n - k + 1 .. n
          PROVE  i \in high
      <3>1. r \in Nat
        BY <1>1 DEF Back
      <3>2. n - i \in 0..n /\ n - i < r /\ n - (n - i) = i
        BY <1>3, <2>1, <2>2, <3>1
      <3>3. n - i \notin Back(high, n)
        BY <1>1, <3>1, <3>2
      <3> QED BY <3>2, <3>3 DEF Back
    <2> QED BY <2>1, <2>2
  <1>4. ASSUME k <= n, n - k + 1 .. n \subseteq high
        PROVE  r >= k
    BY <1>1, <1>4 DEF Back
  <1>5. r \in Nat
    BY <1>1 DEF Back
  <1> QED BY <1>2, <1>3, <1>4, <1>5

(* The cost of a sample is the greatest of its cells.                      *)
LEMMA CostIs ==
  ASSUME NEW m \in Maps \cup {NoMap}, NEW cells, NEW k \in {1, 2}
  PROVE  /\ Cost(m, cells) \in 0..2
         /\ Cost(m, cells) >= k <=> \E c \in cells \cap DOMAIN m : m[c] >= k
  <1> DEFINE known == {m[c] : c \in cells \cap DOMAIN m}
  <1>1. known \subseteq {0, 1, 2}
    BY ClearanceAssumption DEF NoMap
  <1>2. (\E c \in cells \cap DOMAIN m : m[c] >= k) <=> \E j \in known : j >= k
    OBVIOUS
  <1>3. Cost(m, cells) = IF known = {} THEN 0 ELSE CHOOSE i \in known : \A j \in known : j <= i
    BY DEF Cost
  <1> HIDE DEF known
  <1>4. CASE known = {}
    BY <1>2, <1>3, <1>4
  <1>5. CASE known # {}
    <2>1. \E i \in known : \A j \in known : j <= i
      <3>1. CASE 2 \in known
        BY <1>1, <3>1
      <3>2. CASE 2 \notin known /\ 1 \in known
        BY <1>1, <3>2
      <3>3. CASE 2 \notin known /\ 1 \notin known
        <4>1. 0 \in known /\ \A j \in known : j = 0
          BY <1>1, <1>5, <3>3
        <4> QED BY <4>1
      <3> QED BY <3>1, <3>2, <3>3
    <2>2. Cost(m, cells) \in known /\ \A j \in known : j <= Cost(m, cells)
      BY <1>3, <1>5, <2>1
    <2> DEFINE cost == Cost(m, cells)
    <2>3. cost \in 0..2
      <3>1. cost \in {0, 1, 2}
        BY <1>1, <2>2
      <3> HIDE DEF cost
      <3> QED BY <3>1
    <2> HIDE DEF cost
    <2>4. cost >= k <=> \E j \in known : j >= k
      <3>1. cost \in known /\ \A j \in known : j <= cost /\ j \in 0..2
        BY <1>1, <2>2 DEF cost
      <3> QED BY <2>3, <3>1
    <2> QED BY <1>2, <2>3, <2>4 DEF cost
  <1> QED BY <1>4, <1>5

(* The sweep of check_path_clearance finds exactly the obstructed paths.   *)
LEMMA ClearIs ==
  ASSUME NEW path \in Paths, NEW m \in Maps \cup {NoMap}, NEW s \in Settings
  PROVE  Clear(path, m, s) = ~Obstructed(path, m, s)
  <1> DEFINE last == Capped(s.reach, Len(path))
             run  == s.run
             high == {n \in 1..last : Cost(m, path[n]) # 0}
             touches(n, k) == \E c \in path[n] \cap DOMAIN m : m[c] >= k
             count(n) == Highs(high, last)[n]
  <1>1. last \in Nat /\ run \in Nat /\ run # 0
    BY ClearanceAssumption DEF Capped
  <1>2. Clear(path, m, s) = \A n \in 1..last : Cost(m, path[n]) < 2 /\ count(n) < run
    BY DEF Clear
  <1>3. Obstructed(path, m, s) =
          \E n \in 1..last : \/ touches(n, 2)
                             \/ n + run <= last + 1 /\ \A k \in n..n + run - 1 : touches(k, 1)
    BY DEF Obstructed
  <1>4. \A n \in 1..last :
          (Cost(m, path[n]) < 2 <=> ~touches(n, 2)) /\ (n \in high <=> touches(n, 1))
    <2> TAKE n \in 1..last
    <2>1. Cost(m, path[n]) \in 0..2 /\ (Cost(m, path[n]) >= 2 <=> touches(n, 2))
      BY CostIs
    <2>2. Cost(m, path[n]) >= 1 <=> touches(n, 1)
      BY CostIs
    <2> HIDE DEF touches
    <2> QED BY <2>1, <2>2
  <1>5. high \subseteq 1..last
    OBVIOUS
  <1> HIDE DEF last, run, high, touches
  <1>6. \A n \in 1..last : count(n) \in Nat /\ (count(n) >= run <=> run <= n /\ n - run + 1 .. n \subseteq high)
    BY <1>1, <1>5, HighsCount
  <1> HIDE DEF count
  <1>7. ASSUME ~Clear(path, m, s) PROVE Obstructed(path, m, s)
    <2>1. PICK n \in 1..last : Cost(m, path[n]) >= 2 \/ count(n) >= run
      <3>1. \A n \in 1..last : Cost(m, path[n]) \in 0..2 /\ count(n) \in Nat
        BY <1>6, CostIs
      <3> QED BY <1>1, <1>2, <1>7, <3>1
    <2>2. CASE Cost(m, path[n]) >= 2
      <3>1. touches(n, 2)
        BY <1>4, <2>2, CostIs
      <3> QED BY <1>3, <3>1
    <2>3. CASE count(n) >= run
      <3>1. run <= n /\ n - run + 1 .. n \subseteq high
        BY <1>6, <2>3
      <3> DEFINE b == n - run + 1
      <3>2. b \in 1..last /\ b + run <= last + 1 /\ b + run - 1 = n
        BY <1>1, <3>1
      <3>3. \A k \in b..b + run - 1 : k \in 1..last /\ k \in high
        BY <1>1, <3>1, <3>2
      <3>4. \A k \in b..b + run - 1 : touches(k, 1)
        BY <1>4, <3>3
      <3> HIDE DEF b
      <3> QED BY <1>3, <3>2, <3>4
    <2> QED BY <2>1, <2>2, <2>3
  <1>8. ASSUME Obstructed(path, m, s) PROVE ~Clear(path, m, s)
    <2>1. PICK n \in 1..last : \/ touches(n, 2)
                               \/ n + run <= last + 1 /\ \A k \in n..n + run - 1 : touches(k, 1)
      BY <1>3, <1>8
    <2>2. CASE touches(n, 2)
      BY <1>2, <1>4, <2>2
    <2>3. CASE n + run <= last + 1 /\ \A k \in n..n + run - 1 : touches(k, 1)
      <3> DEFINE e == n + run - 1
      <3>1. e \in 1..last /\ run <= e /\ e - run + 1 = n
        BY <1>1, <2>3
      <3>2. \A k \in n..e : k \in 1..last /\ touches(k, 1)
        BY <1>1, <2>3, <3>1
      <3>3. n..e \subseteq high
        BY <1>4, <3>2
      <3> HIDE DEF e
      <3>4. count(e) \in Nat /\ count(e) >= run
        BY <1>6, <3>1, <3>3
      <3>5. ~(count(e) < run)
        BY <1>1, <3>4
      <3> QED BY <1>2, <3>1, <3>5
    <2> QED BY <2>1, <2>2, <2>3
  <1>9. Clear(path, m, s) \in BOOLEAN /\ Obstructed(path, m, s) \in BOOLEAN
    BY <1>2, <1>3, Zenon
  <1> QED BY <1>7, <1>8, <1>9

\* The cache and the last answer are about the map and settings in force.
ClearanceInv ==
    /\ settings \in Settings /\ map \in Maps \cup {NoMap}
    /\ cache # NoCache =>
          cache.path \in Paths /\ cache.valid = Clear(cache.path, map, settings)
    /\ reply # NoReply /\ ~reply.open =>
          reply.path \in Paths /\ reply.valid = Clear(reply.path, map, settings)

(* An answer is about the costmap and the parameters of now, for any       *)
(* paths, costmaps, parameters and times, whatever was remembered.         *)
THEOREM ClearanceSafety == ClearanceSpec => []AnswerIsCurrent
  <1>1. ClearanceInit => ClearanceInv
    BY DEF ClearanceInit, ClearanceInv, NoReply
  <1>2. ClearanceInv /\ [ClearanceNext]_clearance => ClearanceInv'
    <2> SUFFICES ASSUME ClearanceInv, [ClearanceNext]_clearance PROVE ClearanceInv'
      OBVIOUS
    <2>1. CASE ClearanceTime \/ UNCHANGED clearance
      BY <2>1 DEF ClearanceTime, clearance, ClearanceInv
    <2>2. ASSUME NEW m \in Maps, Costmap(m) PROVE ClearanceInv'
      BY <2>2 DEF Costmap, ClearanceInv
    <2>3. ASSUME NEW s \in Settings, SetParameters(s) PROVE ClearanceInv'
      BY <2>3 DEF SetParameters, ClearanceInv
    <2>4. ASSUME NEW path \in Paths, Validate(path) PROVE ClearanceInv'
      <3>1. settings' = settings /\ map' = map
        BY <2>4 DEF Validate
      <3>2. CASE FailOpen(path)
        BY <3>1, <3>2 DEF FailOpen, ClearanceInv
      <3>3. CASE FromCache(path)
        BY <3>1, <3>3 DEF FromCache, Cached, Answers, ClearanceInv
      <3>4. CASE Checked(path)
        BY <3>1, <3>4 DEF Checked, Answers, ClearanceInv
      <3> QED BY <2>4, <3>2, <3>3, <3>4 DEF Validate
    <2> QED BY <2>1, <2>2, <2>3, <2>4 DEF ClearanceNext
  <1>3. ClearanceInv => AnswerIsCurrent
    BY ClearIs DEF ClearanceInv, AnswerIsCurrent
  <1> QED BY <1>1, <1>2, <1>3, PTL DEF ClearanceSpec

----------------------------------------------------------------------------
(* PowerLog.  Two halves that meet only in the judgement.  Of the files:   *)
(* the last run has come to some file l; those before it are synced and    *)
(* whole, those behind it hold samples of older runs only, so a half line  *)
(* never hides a synced sample of the last run.  Of the journal: wherever  *)
(* the power cuts it, what is left ends cleanly only if no sample was      *)
(* taken after the stop.                                                   *)

File(T) == [data : Seq(T), safe : Nat, torn : BOOLEAN]

(* Of files fs with samples up to n, when the last run began with sample f *)
(* and has come to file l.                                                 *)
FilesInv(fs, n, f, l) ==
    /\ fs \in Seq(File(Nat)) /\ n \in Nat /\ f \in Nat /\ l \in 0..Len(fs)
    /\ \A s \in 1..Len(fs) :
          /\ fs[s].safe <= Len(fs[s].data)
          /\ \A i \in 1..Len(fs[s].data) : fs[s].data[i] <= n
          /\ s < l => fs[s].safe = Len(fs[s].data) /\ ~fs[s].torn
          /\ s > l => \A i \in 1..Len(fs[s].data) : fs[s].data[i] < f
    /\ \A s, t \in 1..Len(fs) : \A i \in 1..Len(fs[s].data), j \in 1..Len(fs[t].data) :
          /\ s < t \/ (s = t /\ i < j)
          /\ fs[s].data[i] >= f /\ fs[t].data[j] >= f
          => fs[s].data[i] < fs[t].data[j]

(* The first n entries of the journal end the boot cleanly.                *)
CleanTo(d, n) == \E i \in 1..n : d[i] = "stop" /\ \A j \in 1..n : d[j] = "start" => j < i

Events == {"start", "critical", "stop"}
JournalInv ==
    /\ journal \in File(Events) /\ journal.safe <= Len(journal.data)
    /\ \A n \in journal.safe..Len(journal.data) :
          CleanTo(journal.data, n) =>
              monitor \in {"off", "started", "stopped", "cut"} /\ cleanAt = written
    /\ monitor = "started" => Len(journal.data) > 0 /\ journal.data[Len(journal.data)] = "start"

SegmentsInv ==
    /\ \E l \in 0..Len(segments) :
          /\ FilesInv(segments, written, first, l)
          /\ monitor \notin {"off", "cut"} => l = segment
    /\ monitor # "cut" => \A s \in 1..Len(segments) : ~segments[s].torn

PowerInv == SegmentsInv /\ JournalInv

(* A file of Seq(T) and its fields.                                        *)
LEMMA FileFields ==
  ASSUME NEW T, NEW f \in File(T)
  PROVE  /\ f.data \in Seq(T) /\ Len(f.data) \in Nat /\ DOMAIN f.data = 1..Len(f.data)
         /\ \A i \in 1..Len(f.data) : f.data[i] \in T
         /\ f.safe \in Nat /\ f.torn \in BOOLEAN
  <1>1. f.data \in Seq(T) /\ f.safe \in Nat /\ f.torn \in BOOLEAN
    BY DEF File
  <1> QED BY <1>1, LenProperties, ElementOfSeq

(* What adding and syncing do to a file.                                   *)
LEMMA AddIs ==
  ASSUME NEW T, NEW f \in File(T), NEW x \in T
  PROVE  /\ Add(f, x) \in File(T)
         /\ Add(f, x).data = Append(f.data, x) /\ Len(Add(f, x).data) = Len(f.data) + 1
         /\ \A i \in 1..Len(f.data) : Add(f, x).data[i] = f.data[i]
         /\ Add(f, x).data[Len(f.data) + 1] = x
         /\ Add(f, x).safe = f.safe /\ Add(f, x).torn = f.torn
  <1>1. f.data \in Seq(T) /\ f.safe \in Nat /\ f.torn \in BOOLEAN
    BY FileFields
  <1> DEFINE d == Append(f.data, x)
  <1>2. /\ d \in Seq(T) /\ Len(d) = Len(f.data) + 1
        /\ \A i \in 1..Len(f.data) : d[i] = f.data[i]
        /\ d[Len(f.data) + 1] = x
    BY <1>1, AppendProperties
  <1> HIDE DEF d
  <1>3. Add(f, x) = [f EXCEPT !.data = d]
    BY DEF Add, d
  <1>4. /\ Add(f, x) \in File(T) /\ Add(f, x).data = d
        /\ Add(f, x).safe = f.safe /\ Add(f, x).torn = f.torn
    BY <1>1, <1>2, <1>3 DEF File
  <1> QED BY <1>2, <1>4 DEF d

LEMMA SyncedIs ==
  ASSUME NEW T, NEW f \in File(T)
  PROVE  /\ Synced(f) \in File(T) /\ Synced(f).data = f.data
         /\ Synced(f).safe = Len(f.data) /\ Synced(f).torn = f.torn
  <1>1. Len(f.data) \in Nat
    BY FileFields
  <1> QED BY <1>1 DEF Synced, File

(* What a power cut leaves of a file.                                      *)
LEMMA RemainsIs ==
  ASSUME NEW T, NEW f \in File(T), f.safe <= Len(f.data), NEW g \in Remains(f)
  PROVE  /\ g \in File(T) /\ g.safe = f.safe /\ f.safe <= Len(g.data)
         /\ Len(g.data) <= Len(f.data)
         /\ \A i \in 1..Len(g.data) : g.data[i] = f.data[i]
         /\ g.torn => Len(g.data) < Len(f.data)
  <1>1. PICK n \in f.safe..Len(f.data), torn \in BOOLEAN :
          g = [data |-> SubSeq(f.data, 1, n), safe |-> f.safe, torn |-> torn]
    BY DEF Remains
  <1>2. f.data \in Seq(T) /\ Len(f.data) \in Nat /\ f.safe \in Nat /\ n \in Int
        /\ \A i \in 1..n : f.data[i] \in T
    BY <1>1, FileFields
  <1> DEFINE d == SubSeq(f.data, 1, n)
  <1>3. /\ d \in Seq(T) /\ Len(d) = IF 1 <= n THEN n - 1 + 1 ELSE 0
        /\ \A i \in 1..n - 1 + 1 : d[i] = f.data[1 + i - 1]
    BY <1>2, SubSeqProperties
  <1>4. Len(d) = n /\ \A i \in 1..n : d[i] = f.data[i]
    BY <1>1, <1>2, <1>3
  <1>5. n = Len(f.data) => d = f.data
    BY <1>2, SubSeqFull
  <1> HIDE DEF d
  <1>6. g = [data |-> d, safe |-> f.safe, torn |-> torn]
    BY <1>1 DEF d
  <1>7. g \in File(T) /\ g.data = d /\ g.safe = f.safe /\ g.torn = torn
    BY <1>2, <1>3, <1>6 DEF File
  <1>8. n = Len(f.data) => ~torn
    <2> SUFFICES ASSUME n = Len(f.data), torn PROVE FALSE
      OBVIOUS
    <2>1. g = [data |-> f.data, safe |-> f.safe, torn |-> TRUE]
      BY <1>5, <1>6
    <2> QED BY <2>1 DEF Remains
  <1> QED BY <1>1, <1>2, <1>4, <1>7, <1>8

(* Files lose what was not synced, are synced or closed.                   *)
LEMMA FilesShrink ==
  ASSUME NEW fs, NEW n, NEW f, NEW l, FilesInv(fs, n, f, l),
         NEW gs \in Seq(File(Nat)), Len(gs) = Len(fs), NEW k \in l..Len(fs),
         \A s \in 1..Len(fs) :
            /\ Len(gs[s].data) <= Len(fs[s].data)
            /\ \A i \in 1..Len(gs[s].data) : gs[s].data[i] = fs[s].data[i]
            /\ gs[s].safe <= Len(gs[s].data)
            /\ s < k => gs[s].safe = Len(gs[s].data) /\ ~gs[s].torn
  PROVE  FilesInv(gs, n, f, k)
  <1>1. Len(fs) \in Nat /\ \A s \in 1..Len(fs) : fs[s] \in File(Nat) /\ gs[s] \in File(Nat)
    BY LenProperties, ElementOfSeq DEF FilesInv
  <1>2. \A s \in 1..Len(fs) : Len(fs[s].data) \in Nat /\ Len(gs[s].data) \in Nat
    BY <1>1, FileFields
  <1>3. \A s \in 1..Len(fs) : \A i \in 1..Len(gs[s].data) :
          i \in 1..Len(fs[s].data) /\ gs[s].data[i] = fs[s].data[i]
    BY <1>2
  <1>4. n \in Nat /\ f \in Nat /\ l \in Nat /\ k \in 0..Len(gs)
    BY <1>1 DEF FilesInv
  <1>5. \A s \in 1..Len(fs) :
          /\ \A i \in 1..Len(gs[s].data) : gs[s].data[i] <= n
          /\ s > k => \A i \in 1..Len(gs[s].data) : gs[s].data[i] < f
    <2> TAKE s \in 1..Len(fs)
    <2>1. \A i \in 1..Len(fs[s].data) : fs[s].data[i] <= n
      BY DEF FilesInv
    <2>2. s > k => \A i \in 1..Len(fs[s].data) : fs[s].data[i] < f
      BY <1>1, <1>4 DEF FilesInv
    <2> QED BY <1>3, <2>1, <2>2
  <1>6. \A s, t \in 1..Len(fs) : \A i \in 1..Len(gs[s].data), j \in 1..Len(gs[t].data) :
          /\ s < t \/ (s = t /\ i < j)
          /\ gs[s].data[i] >= f /\ gs[t].data[j] >= f
          => gs[s].data[i] < gs[t].data[j]
    BY <1>3 DEF FilesInv
  <1> QED BY <1>4, <1>5, <1>6 DEF FilesInv

(* A new file, a new sample in the file of this run, a new run.            *)
LEMMA FileAdded ==
  ASSUME NEW fs, NEW n, NEW f, NEW l, FilesInv(fs, n, f, l)
  PROVE  /\ FilesInv(Append(fs, NewFile), n, f, l)
         /\ Len(Append(fs, NewFile)) = Len(fs) + 1
         /\ \A s \in 1..Len(fs) : Append(fs, NewFile)[s] = fs[s]
         /\ Append(fs, NewFile)[Len(fs) + 1] = NewFile
  <1> DEFINE gs == Append(fs, NewFile)
  <1>1. NewFile \in File(Nat) /\ NewFile.data = <<>> /\ NewFile.safe = 0 /\ ~NewFile.torn
    BY EmptySeq DEF NewFile, File
  <1>2. Len(NewFile.data) = 0
    BY <1>1, EmptySeq
  <1>3. fs \in Seq(File(Nat)) /\ Len(fs) \in Nat
    BY LenProperties DEF FilesInv
  <1>4. /\ gs \in Seq(File(Nat)) /\ Len(gs) = Len(fs) + 1
        /\ \A s \in 1..Len(fs) : gs[s] = fs[s]
        /\ gs[Len(fs) + 1] = NewFile
    BY <1>1, <1>3, AppendProperties
  <1> HIDE DEF gs
  <1>5. \A s \in 1..Len(gs) : s \in 1..Len(fs) \/ (s = Len(fs) + 1 /\ Len(gs[s].data) = 0)
    BY <1>2, <1>3, <1>4
  <1>6. /\ n \in Nat /\ f \in Nat /\ l \in 0..Len(gs) /\ l <= Len(fs)
    BY <1>3, <1>4 DEF FilesInv
  <1>7. \A s \in 1..Len(gs) :
          /\ gs[s].safe <= Len(gs[s].data)
          /\ \A i \in 1..Len(gs[s].data) : gs[s].data[i] <= n
          /\ s < l => gs[s].safe = Len(gs[s].data) /\ ~gs[s].torn
          /\ s > l => \A i \in 1..Len(gs[s].data) : gs[s].data[i] < f
    BY <1>1, <1>2, <1>3, <1>4, <1>5, <1>6 DEF FilesInv
  <1>8. \A s, t \in 1..Len(gs) : \A i \in 1..Len(gs[s].data), j \in 1..Len(gs[t].data) :
          /\ s < t \/ (s = t /\ i < j)
          /\ gs[s].data[i] >= f /\ gs[t].data[j] >= f
          => gs[s].data[i] < gs[t].data[j]
    <2> TAKE s, t \in 1..Len(gs)
    <2> TAKE i \in 1..Len(gs[s].data), j \in 1..Len(gs[t].data)
    <2>1. s \in 1..Len(fs) /\ t \in 1..Len(fs)
      BY <1>5
    <2>2. gs[s] = fs[s] /\ gs[t] = fs[t]
      BY <1>4, <2>1
    <2> QED BY <2>1, <2>2 DEF FilesInv
  <1>9. FilesInv(gs, n, f, l)
    BY <1>4, <1>6, <1>7, <1>8 DEF FilesInv
  <1> QED BY <1>4, <1>9 DEF gs

LEMMA SampleAdded ==
  ASSUME NEW fs, NEW n, NEW f, NEW l, FilesInv(fs, n, f, l), l > 0
  PROVE  /\ FilesInv([fs EXCEPT ![l] = Add(@, n + 1)], n + 1, f, l)
         /\ \A s \in 1..Len(fs) : [fs EXCEPT ![l] = Add(@, n + 1)][s].torn = fs[s].torn
  <1> DEFINE g == Add(fs[l], n + 1)
             gs == [fs EXCEPT ![l] = g]
  <1>1. /\ fs \in Seq(File(Nat)) /\ Len(fs) \in Nat /\ n \in Nat /\ f \in Nat
        /\ l \in 1..Len(fs) /\ DOMAIN fs = 1..Len(fs)
    BY LenProperties DEF FilesInv
  <1>2. \A s \in 1..Len(fs) : fs[s] \in File(Nat) /\ Len(fs[s].data) \in Nat
    BY <1>1, ElementOfSeq, FileFields
  <1>3. /\ g \in File(Nat) /\ Len(g.data) = Len(fs[l].data) + 1
        /\ \A i \in 1..Len(fs[l].data) : g.data[i] = fs[l].data[i]
        /\ g.data[Len(fs[l].data) + 1] = n + 1
        /\ g.safe = fs[l].safe /\ g.torn = fs[l].torn
    BY <1>1, <1>2, AddIs
  <1> HIDE DEF g
  <1>4. gs \in Seq(File(Nat)) /\ Len(gs) = Len(fs) /\ gs[l] = g
        /\ \A s \in 1..Len(fs) : s # l => gs[s] = fs[s]
    BY <1>1, <1>3, ExceptSeq
  <1> HIDE DEF gs
  <1>5. \A s \in 1..Len(fs) : \A i \in 1..Len(gs[s].data) :
          \/ i \in 1..Len(fs[s].data) /\ gs[s].data[i] = fs[s].data[i] /\ fs[s].data[i] <= n
          \/ s = l /\ i = Len(fs[s].data) + 1 /\ gs[s].data[i] = n + 1
    BY <1>1, <1>2, <1>3, <1>4 DEF FilesInv
  <1>6. \A s \in 1..Len(fs) : \A i \in 1..Len(fs[s].data) : fs[s].data[i] \in Nat
    BY <1>2, FileFields
  <1>7. \A s \in 1..Len(fs) :
          /\ gs[s].safe <= Len(gs[s].data)
          /\ s < l => gs[s].safe = Len(gs[s].data) /\ ~gs[s].torn
          /\ s > l => \A i \in 1..Len(gs[s].data) : gs[s].data[i] < f
          /\ gs[s].torn = fs[s].torn
    <2> TAKE s \in 1..Len(fs)
    <2>1. fs[s] \in File(Nat) /\ fs[s].safe \in Nat /\ Len(fs[s].data) \in Nat
      BY <1>2, FileFields
    <2>2. CASE s = l
      BY <1>3, <1>4, <2>1, <2>2 DEF FilesInv
    <2>3. CASE s # l
      BY <1>4, <2>3 DEF FilesInv
    <2> QED BY <2>2, <2>3
  <1>8. \A s \in 1..Len(fs) : \A i \in 1..Len(gs[s].data) : gs[s].data[i] <= n + 1
    <2> TAKE s \in 1..Len(fs)
    <2> TAKE i \in 1..Len(gs[s].data)
    <2>1. CASE i \in 1..Len(fs[s].data) /\ gs[s].data[i] = fs[s].data[i] /\ fs[s].data[i] <= n
      BY <1>1, <1>6, <2>1
    <2>2. CASE gs[s].data[i] = n + 1
      BY <1>1, <2>2
    <2> QED BY <1>5, <2>1, <2>2
  <1>9. \A s, t \in 1..Len(fs) : \A i \in 1..Len(gs[s].data), j \in 1..Len(gs[t].data) :
          /\ s < t \/ (s = t /\ i < j)
          /\ gs[s].data[i] >= f /\ gs[t].data[j] >= f
          => gs[s].data[i] < gs[t].data[j]
    <2> SUFFICES ASSUME NEW s \in 1..Len(fs), NEW t \in 1..Len(fs),
                        NEW i \in 1..Len(gs[s].data), NEW j \in 1..Len(gs[t].data),
                        s < t \/ (s = t /\ i < j), gs[s].data[i] >= f, gs[t].data[j] >= f
                 PROVE  gs[s].data[i] < gs[t].data[j]
      OBVIOUS
    <2>1. CASE i \in 1..Len(fs[s].data) /\ j \in 1..Len(fs[t].data)
      <3>1. gs[s].data[i] = fs[s].data[i] /\ gs[t].data[j] = fs[t].data[j]
        <4>1. i # Len(fs[s].data) + 1 /\ j # Len(fs[t].data) + 1
          BY <1>2, <2>1
        <4> QED BY <1>5, <4>1
      <3> QED BY <2>1, <3>1 DEF FilesInv
    <2>2. CASE i \notin 1..Len(fs[s].data)
      <3>1. s = l /\ i = Len(fs[s].data) + 1
        BY <1>5, <2>2
      <3>2. t > l
        <4>1. ASSUME t = l PROVE FALSE
          <5>1. Len(gs[t].data) = Len(fs[l].data) + 1 /\ Len(fs[l].data) \in Nat
            BY <1>1, <1>2, <1>3, <1>4, <4>1
          <5> QED BY <1>2, <3>1, <4>1, <5>1
        <4> QED BY <1>1, <3>1, <4>1
      <3>3. gs[t].data[j] < f
        BY <1>7, <3>2
      <3>4. gs[t].data[j] \in Nat
        <4>1. gs[t].data[j] = fs[t].data[j] /\ j \in 1..Len(fs[t].data)
          BY <1>1, <1>4, <3>2
        <4> QED BY <1>6, <4>1
      <3> QED BY <1>1, <3>3, <3>4
    <2>3. CASE i \in 1..Len(fs[s].data) /\ j \notin 1..Len(fs[t].data)
      <3>1. gs[t].data[j] = n + 1
        BY <1>5, <2>3
      <3>2. gs[s].data[i] = fs[s].data[i] /\ fs[s].data[i] <= n /\ fs[s].data[i] \in Nat
        BY <1>2, <1>5, <1>6, <2>3
      <3> QED BY <1>1, <3>1, <3>2
    <2> QED BY <2>1, <2>2, <2>3
  <1>10. FilesInv(gs, n + 1, f, l)
    BY <1>1, <1>4, <1>7, <1>8, <1>9 DEF FilesInv
  <1>11. [fs EXCEPT ![l] = Add(@, n + 1)] = gs
    BY DEF gs, g
  <1> QED BY <1>7, <1>10, <1>11

LEMMA RunAdded ==
  ASSUME NEW fs, NEW n, NEW f, NEW l, FilesInv(fs, n, f, l)
  PROVE  FilesInv(fs, n, n + 1, 0)
  <1>1. /\ fs \in Seq(File(Nat)) /\ Len(fs) \in Nat /\ n \in Nat
    BY LenProperties DEF FilesInv
  <1>2. \A s \in 1..Len(fs) : fs[s] \in File(Nat)
    BY <1>1, ElementOfSeq
  <1>3. \A s \in 1..Len(fs) : \A i \in 1..Len(fs[s].data) :
          fs[s].data[i] \in Nat /\ fs[s].data[i] <= n
    BY <1>2, FileFields DEF FilesInv
  <1>4. \A s \in 1..Len(fs) : \A i \in 1..Len(fs[s].data) :
          fs[s].data[i] < n + 1 /\ ~(fs[s].data[i] >= n + 1)
    BY <1>1, <1>3
  <1> QED BY <1>1, <1>4 DEF FilesInv

(* The journal: what an entry changes, and what a power cut leaves.        *)
LEMMA EntryAdded ==
  ASSUME NEW T, NEW d \in Seq(T), NEW e \in T
  PROVE  /\ \A n \in 0..Len(d) : CleanTo(Append(d, e), n) <=> CleanTo(d, n)
         /\ e = "start" => ~CleanTo(Append(d, e), Len(d) + 1)
         /\ e = "critical" => (CleanTo(Append(d, e), Len(d) + 1) <=> CleanTo(d, Len(d)))
  <1> DEFINE c == Append(d, e)
  <1>1. /\ Len(d) \in Nat /\ \A i \in 1..Len(d) : c[i] = d[i]
        /\ c[Len(d) + 1] = e
    <2>1. Len(d) \in Nat
      BY LenProperties
    <2>2. (\A i \in 1..Len(d) : c[i] = d[i]) /\ c[Len(d) + 1] = e
      BY AppendProperties
    <2> QED BY <2>1, <2>2
  <1> HIDE DEF c
  <1>2. \A n \in 0..Len(d) : CleanTo(c, n) <=> CleanTo(d, n)
    <2> TAKE n \in 0..Len(d)
    <2>1. \A i \in 1..n : c[i] = d[i]
      BY <1>1
    <2> QED BY <2>1 DEF CleanTo
  <1>3. ASSUME e = "start" PROVE ~CleanTo(c, Len(d) + 1)
    BY <1>1, <1>3 DEF CleanTo
  <1>4. ASSUME e = "critical" PROVE CleanTo(c, Len(d) + 1) <=> CleanTo(d, Len(d))
    <2>1. \A i \in 1..Len(d) + 1 : i \in 1..Len(d) \/ i = Len(d) + 1
      BY <1>1
    <2>2. e # "stop" /\ e # "start"
      BY <1>4
    <2>3. CleanTo(c, Len(d) + 1) <=> CleanTo(c, Len(d))
      BY <1>1, <2>1, <2>2 DEF CleanTo
    <2> QED BY <1>1, <1>2, <2>3
  <1> QED BY <1>2, <1>3, <1>4 DEF c

(* While the monitor is at work nothing in the journal ends the boot.      *)
Sampling == {"up", "fresh", "due", "due, alarm", "alarm", "alarmed", "stop"}

LEMMA SamplesKeepJournal ==
  ASSUME JournalInv, journal' = journal, monitor \in Sampling, cleanAt' = cleanAt,
         monitor' \in Sampling \cup {"off", "cut"}
  PROVE  JournalInv'
  BY DEF JournalInv, Sampling

LEMMA EntryStep ==
  ASSUME NEW T, NEW f \in File(T), f.safe <= Len(f.data), NEW e \in T
  PROVE  /\ Add(f, e) \in File(T) /\ Add(f, e).safe = f.safe
         /\ Len(Add(f, e).data) = Len(f.data) + 1
         /\ Add(f, e).data[Len(f.data) + 1] = e
         /\ \A n \in f.safe..Len(f.data) : CleanTo(Add(f, e).data, n) <=> CleanTo(f.data, n)
         /\ e = "start" => ~CleanTo(Add(f, e).data, Len(Add(f, e).data))
         /\ e = "critical" => (CleanTo(Add(f, e).data, Len(Add(f, e).data))
                                <=> CleanTo(f.data, Len(f.data)))
  <1>1. f.data \in Seq(T) /\ f.safe \in Nat /\ Len(f.data) \in Nat
    BY FileFields
  <1> DEFINE g == Add(f, e)
  <1>2. /\ g \in File(T) /\ g.data = Append(f.data, e)
        /\ Len(g.data) = Len(f.data) + 1
        /\ g.data[Len(f.data) + 1] = e /\ g.safe = f.safe
    BY AddIs
  <1> HIDE DEF g
  <1>3. /\ \A n \in 0..Len(f.data) : CleanTo(g.data, n) <=> CleanTo(f.data, n)
        /\ e = "start" => ~CleanTo(g.data, Len(g.data))
        /\ e = "critical" => (CleanTo(g.data, Len(g.data)) <=> CleanTo(f.data, Len(f.data)))
    BY <1>1, <1>2, EntryAdded
  <1> QED BY <1>1, <1>2, <1>3 DEF g

LEMMA JournalStep ==
  ASSUME JournalInv, [PowerNext]_power
  PROVE  JournalInv'
  <1>0. /\ Len(journal.data) \in Nat /\ journal.safe \in Nat /\ journal \in File(Events)
        /\ journal.safe <= Len(journal.data)
    BY FileFields DEF JournalInv
  <1>1. CASE Begin
    <2>1. journal' = Add(journal, "start") /\ monitor' = "started"
          /\ monitor = "off" /\ cleanAt' = cleanAt /\ written' = written
      BY <1>1 DEF Begin, Emit
    <2>2. /\ journal' \in File(Events) /\ journal'.safe = journal.safe
          /\ Len(journal'.data) = Len(journal.data) + 1
          /\ journal'.data[Len(journal'.data)] = "start"
          /\ ~CleanTo(journal'.data, Len(journal'.data))
          /\ \A n \in journal.safe..Len(journal.data) :
                CleanTo(journal'.data, n) => CleanTo(journal.data, n)
      BY <1>0, <2>1, EntryStep DEF Events
    <2>3. \A n \in journal'.safe..Len(journal'.data) :
            n \in journal.safe..Len(journal.data) \/ n = Len(journal'.data)
      BY <1>0, <2>2
    <2>4. \A n \in journal'.safe..Len(journal'.data) :
            CleanTo(journal'.data, n) => cleanAt' = written'
      BY <2>1, <2>2, <2>3 DEF JournalInv
    <2> QED BY <1>0, <2>1, <2>2, <2>4 DEF JournalInv
  <1>2. CASE SyncEvent
    <2>1. journal' = Synced(journal) /\ cleanAt' = cleanAt /\ written' = written
      BY <1>2 DEF SyncEvent
    <2>5. \/ monitor = "started" /\ monitor' = "up"
          \/ monitor = "alarmed" /\ monitor' = "up"
          \/ monitor = "stopped" /\ monitor' = "off"
      <3>1. DOMAIN AfterEvent = {"started", "alarmed", "stopped"}
        BY DEF AfterEvent
      <3>2. /\ AfterEvent["started"] = "up" /\ AfterEvent["alarmed"] = "up"
            /\ AfterEvent["stopped"] = "off"
        BY DEF AfterEvent
      <3> QED BY <1>2, <3>1, <3>2 DEF SyncEvent
    <2>2. /\ journal' \in File(Events) /\ journal'.data = journal.data
          /\ journal'.safe = Len(journal.data)
      BY <1>0, <2>1, SyncedIs
    <2>3. CASE monitor = "started"
      <3>1. ~CleanTo(journal.data, Len(journal.data))
        BY <1>0, <2>3 DEF JournalInv, CleanTo
      <3> QED BY <1>0, <2>5, <2>2, <2>3, <3>1 DEF JournalInv
    <2>4. CASE monitor # "started"
      BY <1>0, <2>1, <2>5, <2>2, <2>4 DEF JournalInv
    <2> QED BY <2>3, <2>4
  <1>3. CASE Rotate \/ Write \/ SyncSample \/ \E clean \in BOOLEAN : CloseLog(clean)
    <2>1. /\ journal' = journal /\ cleanAt' = cleanAt
          /\ monitor \in Sampling /\ monitor' \in Sampling \cup {"off"}
      BY <1>3 DEF Rotate, Write, SyncSample, CloseLog, Sampling
    <2> QED BY <2>1, SamplesKeepJournal
  <1>4. CASE Alarm
    <2>1. journal' = Add(journal, "critical") /\ monitor' = "alarmed"
          /\ monitor = "alarm" /\ cleanAt' = cleanAt /\ written' = written
      BY <1>4 DEF Alarm, Emit
    <2>2. /\ journal' \in File(Events) /\ journal'.safe = journal.safe
          /\ Len(journal'.data) = Len(journal.data) + 1
          /\ CleanTo(journal'.data, Len(journal'.data)) => CleanTo(journal.data, Len(journal.data))
          /\ \A n \in journal.safe..Len(journal.data) :
                CleanTo(journal'.data, n) => CleanTo(journal.data, n)
      BY <1>0, <2>1, EntryStep DEF Events
    <2>3. \A n \in journal.safe..Len(journal.data) : ~CleanTo(journal.data, n)
      BY <2>1 DEF JournalInv
    <2>4. Len(journal.data) \in journal.safe..Len(journal.data)
      BY <1>0
    <2>5. \A n \in journal'.safe..Len(journal'.data) :
            n \in journal.safe..Len(journal.data) \/ n = Len(journal'.data)
      BY <1>0, <2>2
    <2>6. \A n \in journal'.safe..Len(journal'.data) : ~CleanTo(journal'.data, n)
      BY <2>2, <2>3, <2>4, <2>5
    <2> QED BY <1>0, <2>1, <2>2, <2>6 DEF JournalInv
  <1>5. CASE Stop
    <2>1. journal' = Add(journal, "stop") /\ monitor' = "stopped"
          /\ monitor = "stop" /\ cleanAt' = written /\ written' = written
      BY <1>5 DEF Stop, Emit
    <2>2. /\ journal' \in File(Events) /\ journal'.safe = journal.safe
          /\ Len(journal'.data) = Len(journal.data) + 1
      BY <1>0, <2>1, EntryStep DEF Events
    <2> QED BY <1>0, <2>1, <2>2 DEF JournalInv
  <1>6. CASE Kill
    BY <1>6 DEF Kill, JournalInv
  <1>7. CASE PowerCut
    <2>1. /\ journal' \in Remains(journal) /\ cleanAt' = cleanAt
          /\ written' = written /\ monitor' = "cut"
      BY <1>7 DEF PowerCut
    <2>2. /\ journal' \in File(Events) /\ journal'.safe = journal.safe
          /\ journal.safe <= Len(journal'.data) /\ Len(journal'.data) <= Len(journal.data)
          /\ \A i \in 1..Len(journal'.data) : journal'.data[i] = journal.data[i]
      BY <1>0, <2>1, RemainsIs
    <2>3. Len(journal'.data) \in Nat
      BY <2>2, FileFields
    <2>4. ASSUME NEW n \in journal'.safe..Len(journal'.data), CleanTo(journal'.data, n)
          PROVE  cleanAt' = written'
      <3>1. n \in journal.safe..Len(journal.data)
        BY <1>0, <2>2, <2>3
      <3>2. \A i \in 1..n : journal'.data[i] = journal.data[i]
        BY <1>0, <2>2, <2>3
      <3>3. CleanTo(journal.data, n)
        BY <2>4, <3>2 DEF CleanTo
      <3> QED BY <2>1, <3>1, <3>3 DEF JournalInv
    <2> QED BY <2>1, <2>2, <2>4 DEF JournalInv
  <1>8. CASE UNCHANGED power
    BY <1>8 DEF power, JournalInv
  <1> QED BY <1>1, <1>2, <1>3, <1>4, <1>5, <1>6, <1>7, <1>8 DEF PowerNext

(* The files.                                                              *)
LEMMA ClosedIs ==
  ASSUME NEW n, NEW f, FilesInv(segments, n, f, segment),
         \A s \in 1..Len(segments) : ~segments[s].torn
  PROVE  /\ FilesInv(Closed, n, f, segment) /\ Len(Closed) = Len(segments)
         /\ \A s \in 1..Len(segments) : ~Closed[s].torn
         /\ \A s \in 1..segment : Closed[s].safe = Len(Closed[s].data)
  <1>1. /\ segments \in Seq(File(Nat)) /\ Len(segments) \in Nat
        /\ DOMAIN segments = 1..Len(segments) /\ segment \in 0..Len(segments)
    BY LenProperties DEF FilesInv
  <1>2. \A s \in 1..Len(segments) : segments[s] \in File(Nat)
    BY <1>1, ElementOfSeq
  <1> DEFINE c == Closed
  <1>3. /\ DOMAIN c = 1..Len(segments)
        /\ \A s \in 1..Len(segments) :
              c[s] = IF s = segment THEN Synced(segments[s]) ELSE segments[s]
    BY <1>1 DEF Closed
  <1> HIDE DEF c
  <1>4. \A s \in 1..Len(segments) :
          /\ c[s] \in File(Nat) /\ c[s].data = segments[s].data /\ ~c[s].torn
          /\ Len(c[s].data) \in Nat /\ c[s].safe <= Len(c[s].data)
          /\ s <= segment => c[s].safe = Len(c[s].data)
    <2> TAKE s \in 1..Len(segments)
    <2>1. Len(segments[s].data) \in Nat
      BY <1>2, FileFields
    <2>2. CASE s = segment
      <3>1. /\ Synced(segments[s]) \in File(Nat) /\ Synced(segments[s]).data = segments[s].data
            /\ Synced(segments[s]).safe = Len(segments[s].data)
            /\ Synced(segments[s]).torn = segments[s].torn
        BY <1>2, SyncedIs
      <3> QED BY <1>3, <2>1, <2>2, <3>1
    <2>3. CASE s # segment
      <3>1. c[s] = segments[s] /\ segments[s].safe <= Len(segments[s].data)
            /\ (s < segment => segments[s].safe = Len(segments[s].data))
        BY <1>3, <2>3 DEF FilesInv
      <3>2. s <= segment => s < segment
        BY <1>1, <2>3
      <3> QED BY <1>2, <2>1, <3>1, <3>2
    <2> QED BY <2>2, <2>3
  <1>5. c \in Seq(File(Nat)) /\ Len(c) = Len(segments)
    <2>1. c = [s \in 1..Len(segments) |-> c[s]]
      BY <1>1, <1>3 DEF Closed, c
    <2>2. c \in [1..Len(segments) -> File(Nat)]
      BY <1>3, <1>4, <2>1
    <2>3. c \in Seq(File(Nat))
      BY <1>1, <2>2, SeqDef
    <2> QED BY <1>1, <1>3, <2>3, LenProperties
  <1>6. FilesInv(c, n, f, segment)
    <2>1. segment \in segment..Len(segments)
      BY <1>1
    <2>2. \A s \in 1..Len(segments) :
            /\ Len(c[s].data) <= Len(segments[s].data)
            /\ \A i \in 1..Len(c[s].data) : c[s].data[i] = segments[s].data[i]
            /\ c[s].safe <= Len(c[s].data)
            /\ s < segment => c[s].safe = Len(c[s].data) /\ ~c[s].torn
      BY <1>1, <1>4
    <2> QED BY <1>5, <2>1, <2>2, FilesShrink
  <1>7. \A s \in 1..segment : c[s].safe = Len(c[s].data)
    BY <1>1, <1>4
  <1> QED BY <1>4, <1>5, <1>6, <1>7 DEF c

LEMMA FilesStart == PowerInit => SegmentsInv
  <1> SUFFICES ASSUME PowerInit PROVE SegmentsInv
    OBVIOUS
  <1>1. /\ segments = <<>> /\ Len(segments) = 0 /\ written = 0 /\ first = 1 /\ monitor = "off"
    BY DEF PowerInit
  <1>2. segments \in Seq(File(Nat))
    BY <1>1, EmptySeq
  <1>3. FilesInv(segments, written, first, 0)
    BY <1>1, <1>2 DEF FilesInv
  <1> QED BY <1>1, <1>3 DEF SegmentsInv

LEMMA RotateKeeps ==
  ASSUME SegmentsInv, Rotate
  PROVE  SegmentsInv'
  <1>1. /\ monitor = "up" /\ monitor' = "fresh" /\ written' = written /\ first' = first
        /\ segment' = segment + 1
        /\ segments' = IF segment = Len(segments) THEN Append(Closed, NewFile) ELSE Closed
    BY DEF Rotate
  <1>2. FilesInv(segments, written, first, segment) /\ \A s \in 1..Len(segments) : ~segments[s].torn
    BY <1>1 DEF SegmentsInv
  <1>3. Len(segments) \in Nat /\ segment \in 0..Len(segments)
    BY <1>2, LenProperties DEF FilesInv
  <1> DEFINE c == Closed
  <1>4. /\ FilesInv(c, written, first, segment) /\ Len(c) = Len(segments)
        /\ \A s \in 1..Len(segments) : ~c[s].torn
        /\ \A s \in 1..segment : c[s].safe = Len(c[s].data)
    BY <1>2, ClosedIs
  <1> HIDE DEF c
  <1>5. CASE segment = Len(segments)
    <2> DEFINE g == Append(c, NewFile)
    <2>1. FilesInv(g, written, first, segment) /\ Len(g) = Len(c) + 1
          /\ (\A s \in 1..Len(c) : g[s] = c[s]) /\ g[Len(c) + 1] = NewFile
      BY <1>4, FileAdded
    <2> HIDE DEF g
    <2>2. segments' = g
      BY <1>1, <1>5 DEF g, c
    <2>3. /\ NewFile.torn = FALSE
      BY DEF NewFile
    <2>4. \A s \in 1..Len(g) : ~g[s].torn
      BY <1>3, <1>4, <2>1, <2>3
    <2>5. g \in Seq(File(Nat))
      BY <2>1 DEF FilesInv
    <2>6. \A s \in 1..Len(g) : Len(g[s].data) \in Nat
      BY <2>5, ElementOfSeq, FileFields
    <2>7. FilesInv(g, written, first, segment + 1)
      <3>1. segment + 1 \in segment..Len(g)
        BY <1>3, <1>4, <1>5, <2>1
      <3>2. \A s \in 1..Len(g) : s < segment + 1 => g[s].safe = Len(g[s].data) /\ ~g[s].torn
        BY <1>3, <1>4, <1>5, <2>1, <2>4
      <3>3. \A s \in 1..Len(g) : g[s].safe <= Len(g[s].data) /\ Len(g[s].data) <= Len(g[s].data)
        BY <2>1, <2>6 DEF FilesInv
      <3> QED BY <2>1, <2>5, <3>1, <3>2, <3>3, FilesShrink
    <2> QED BY <1>1, <2>2, <2>4, <2>7 DEF SegmentsInv, FilesInv
  <1>6. CASE segment # Len(segments)
    <2>1. segments' = c
      BY <1>1, <1>6 DEF c
    <2>2. c \in Seq(File(Nat))
      BY <1>4 DEF FilesInv
    <2>3. \A s \in 1..Len(c) : Len(c[s].data) \in Nat
      BY <2>2, ElementOfSeq, FileFields
    <2>4. FilesInv(c, written, first, segment + 1)
      <3>1. segment + 1 \in segment..Len(c)
        BY <1>3, <1>4, <1>6
      <3>2. \A s \in 1..Len(c) : s < segment + 1 => c[s].safe = Len(c[s].data) /\ ~c[s].torn
        BY <1>3, <1>4
      <3>3. \A s \in 1..Len(c) : c[s].safe <= Len(c[s].data) /\ Len(c[s].data) <= Len(c[s].data)
        BY <1>4, <2>3 DEF FilesInv
      <3> QED BY <1>4, <2>2, <3>1, <3>2, <3>3, FilesShrink
    <2> QED BY <1>1, <1>4, <2>1, <2>4 DEF SegmentsInv, FilesInv
  <1> QED BY <1>5, <1>6

LEMMA CutKeeps ==
  ASSUME SegmentsInv, PowerCut
  PROVE  SegmentsInv'
  <1>1. PICK l \in 0..Len(segments) : FilesInv(segments, written, first, l)
    BY DEF SegmentsInv
  <1>2. /\ segments \in Seq(File(Nat)) /\ Len(segments) \in Nat
        /\ DOMAIN segments = 1..Len(segments) /\ l \in l..Len(segments)
    BY <1>1, LenProperties DEF FilesInv
  <1>3. PICK kept \in [DOMAIN segments -> UNION {Remains(segments[s]) : s \in DOMAIN segments}] :
          /\ \A s \in DOMAIN segments : kept[s] \in Remains(segments[s])
          /\ segments' = kept
    BY DEF PowerCut
  <1>4. \A s \in 1..Len(segments) :
          /\ segments[s] \in File(Nat) /\ segments[s].safe \in Nat
          /\ Len(segments[s].data) \in Nat /\ segments[s].safe <= Len(segments[s].data)
    BY <1>1, <1>2, ElementOfSeq, FileFields DEF FilesInv
  <1>5. \A s \in 1..Len(segments) :
          /\ kept[s] \in File(Nat) /\ kept[s].safe = segments[s].safe
          /\ segments[s].safe <= Len(kept[s].data)
          /\ Len(kept[s].data) <= Len(segments[s].data)
          /\ \A i \in 1..Len(kept[s].data) : kept[s].data[i] = segments[s].data[i]
          /\ kept[s].torn => Len(kept[s].data) < Len(segments[s].data)
    <2> TAKE s \in 1..Len(segments)
    <2> DEFINE file == segments[s]
               rest == kept[s]
    <2>1. rest \in Remains(file) /\ file \in File(Nat) /\ file.safe <= Len(file.data)
      BY <1>2, <1>3, <1>4
    <2> HIDE DEF file, rest
    <2>2. /\ rest \in File(Nat) /\ rest.safe = file.safe /\ file.safe <= Len(rest.data)
          /\ Len(rest.data) <= Len(file.data)
          /\ \A i \in 1..Len(rest.data) : rest.data[i] = file.data[i]
          /\ rest.torn => Len(rest.data) < Len(file.data)
      BY <2>1, RemainsIs
    <2> QED BY <2>2 DEF file, rest
  <1>6. kept \in Seq(File(Nat)) /\ Len(kept) = Len(segments)
    <2>1. kept \in [1..Len(segments) -> File(Nat)]
      BY <1>2, <1>3, <1>5
    <2>2. kept \in Seq(File(Nat))
      BY <1>2, <2>1, SeqDef
    <2> QED BY <1>2, <2>1, <2>2, LenProperties
  <1>7. \A s \in 1..Len(segments) :
          s < l => kept[s].safe = Len(kept[s].data) /\ ~kept[s].torn
    <2> TAKE s \in 1..Len(segments)
    <2>1. ASSUME s < l PROVE segments[s].safe = Len(segments[s].data)
      BY <1>1, <2>1 DEF FilesInv
    <2>2. Len(kept[s].data) \in Nat
      BY <1>5, FileFields
    <2> QED BY <1>4, <1>5, <2>1, <2>2
  <1>8. FilesInv(kept, written, first, l)
    <2>1. \A s \in 1..Len(segments) :
            /\ Len(kept[s].data) <= Len(segments[s].data)
            /\ \A i \in 1..Len(kept[s].data) : kept[s].data[i] = segments[s].data[i]
            /\ kept[s].safe <= Len(kept[s].data)
            /\ s < l => kept[s].safe = Len(kept[s].data) /\ ~kept[s].torn
      BY <1>5, <1>7
    <2> QED BY <1>1, <1>2, <1>6, <2>1, FilesShrink
  <1>9. /\ written' = written /\ first' = first /\ monitor' = "cut"
    BY DEF PowerCut
  <1>10. /\ FilesInv(segments', written', first', l) /\ l \in 0..Len(segments')
    BY <1>3, <1>6, <1>8, <1>9
  <1> QED BY <1>9, <1>10 DEF SegmentsInv

LEMMA FilesStep ==
  ASSUME SegmentsInv, [PowerNext]_power
  PROVE  SegmentsInv'
  <1>1. PICK l \in 0..Len(segments) :
          /\ FilesInv(segments, written, first, l)
          /\ monitor \notin {"off", "cut"} => l = segment
    BY DEF SegmentsInv
  <1>2. monitor # "cut" => \A s \in 1..Len(segments) : ~segments[s].torn
    BY DEF SegmentsInv
  <1>3. Len(segments) \in Nat /\ segments \in Seq(File(Nat))
    BY <1>1, LenProperties DEF FilesInv
  <1>4. CASE Begin
    <2>1. /\ monitor = "off" /\ monitor' = "started" /\ segment' = 0 /\ first' = written + 1
          /\ segments' = segments /\ written' = written
      BY <1>4 DEF Begin, Emit
    <2>2. FilesInv(segments', written', first', 0)
      BY <1>1, <2>1, RunAdded
    <2> QED BY <1>2, <1>3, <2>1, <2>2 DEF SegmentsInv
  <1>5. CASE SyncEvent \/ Alarm \/ Stop
    <2>1. segment' = segment /\ segments' = segments /\ written' = written /\ first' = first
      BY <1>5 DEF SyncEvent, Alarm, Stop
    <2>2. monitor \notin {"off", "cut"}
      <3>1. DOMAIN AfterEvent = {"started", "alarmed", "stopped"}
        BY DEF AfterEvent
      <3> QED BY <1>5, <3>1 DEF SyncEvent, Alarm, Stop
    <2> QED BY <1>1, <1>2, <2>1, <2>2 DEF SegmentsInv
  <1>6. CASE Rotate
    BY <1>6, RotateKeeps
  <1>7. CASE Write
    <2>1. /\ monitor \notin {"off", "cut"} /\ monitor' # "cut" /\ l = segment /\ segment > 0
          /\ written' = written + 1
          /\ segments' = [segments EXCEPT ![segment] = Add(@, written')]
          /\ segment' = segment /\ first' = first
      BY <1>1, <1>7 DEF Write
    <2>2. segments' = [segments EXCEPT ![l] = Add(@, written + 1)]
      BY <2>1
    <2>3. /\ FilesInv(segments', written', first', l)
          /\ \A s \in 1..Len(segments) : segments'[s].torn = segments[s].torn
      <3> DEFINE gs == [segments EXCEPT ![l] = Add(@, written + 1)]
      <3>0. FilesInv(segments, written, first, l) /\ l > 0
        BY <1>1, <2>1
      <3>1. /\ FilesInv(gs, written + 1, first, l)
            /\ \A s \in 1..Len(segments) : gs[s].torn = segments[s].torn
        BY <3>0, SampleAdded
      <3>2. segments' = gs
        BY <2>2
      <3> HIDE DEF gs
      <3> QED BY <2>1, <3>1, <3>2
    <2>4. Len(segments') = Len(segments)
      <3>1. DOMAIN segments' = DOMAIN segments
        BY <2>2
      <3>2. segments' \in Seq(File(Nat))
        BY <2>3 DEF FilesInv
      <3> QED BY <1>3, <3>1, <3>2, LenProperties
    <2> QED BY <1>1, <1>2, <2>1, <2>3, <2>4 DEF SegmentsInv
  <1>8. CASE SyncSample \/ \E clean \in BOOLEAN : CloseLog(clean)
    <2>1. /\ monitor \notin {"off", "cut"} /\ monitor' # "cut" /\ l = segment
          /\ segment' = segment /\ written' = written /\ first' = first
      BY <1>1, <1>8 DEF SyncSample, CloseLog
    <2>2. segments' = Closed
      <3>1. CASE SyncSample
        <4>1. segments' = [segments EXCEPT ![segment] = Synced(@)]
          BY <3>1 DEF SyncSample
        <4> QED BY <4>1 DEF Closed
      <3> QED BY <1>8, <3>1 DEF CloseLog
    <2>3. /\ FilesInv(segments', written', first', segment') /\ Len(segments') = Len(segments)
          /\ \A s \in 1..Len(segments) : ~segments'[s].torn
      BY <1>1, <1>2, <2>1, <2>2, ClosedIs
    <2> QED BY <1>1, <2>1, <2>3 DEF SegmentsInv
  <1>9. CASE Kill
    <2>1. monitor # "cut" /\ monitor' = "off" /\ segments' = segments
          /\ written' = written /\ first' = first
      BY <1>9 DEF Kill
    <2> QED BY <1>1, <1>2, <2>1 DEF SegmentsInv
  <1>10. CASE PowerCut
    BY <1>10, CutKeeps
  <1>11. CASE UNCHANGED power
    BY <1>1, <1>2, <1>11 DEF power, SegmentsInv
  <1> QED BY <1>4, <1>5, <1>6, <1>7, <1>8, <1>9, <1>10, <1>11 DEF PowerNext

LEMMA JournalStart == PowerInit => JournalInv
  <1> SUFFICES ASSUME PowerInit PROVE JournalInv
    OBVIOUS
  <1>1. journal = NewFile /\ monitor = "off"
    BY DEF PowerInit
  <1>2. NewFile \in File(Events) /\ NewFile.safe = 0 /\ Len(NewFile.data) = 0
    BY EmptySeq DEF NewFile, File
  <1>3. ~CleanTo(NewFile.data, 0)
    BY DEF CleanTo
  <1> QED BY <1>1, <1>2, <1>3 DEF JournalInv

(* What the invariant says of the files left by the power cut.             *)
LEMMA InvSound == PowerInv => PostmortemIsSound
  <1> SUFFICES ASSUME PowerInv, monitor = "cut" PROVE PostmortemIsSound
    BY DEF PostmortemIsSound
  <1>1. PICK l \in 0..Len(segments) : FilesInv(segments, written, first, l)
    BY DEF PowerInv, SegmentsInv
  <1>2. /\ segments \in Seq(File(Nat)) /\ Len(segments) \in Nat
        /\ DOMAIN segments = 1..Len(segments) /\ first \in Nat
    BY <1>1, LenProperties DEF FilesInv
  <1>3. \A s \in 1..Len(segments) :
          /\ Len(segments[s].data) \in Nat /\ segments[s].safe \in Nat
          /\ segments[s].safe <= Len(segments[s].data)
          /\ DOMAIN segments[s].data = 1..Len(segments[s].data)
          /\ \A i \in 1..Len(segments[s].data) : segments[s].data[i] \in Nat
    BY <1>1, <1>2, ElementOfSeq, FileFields DEF FilesInv
  <1>4. \A s \in DOMAIN segments : s <= l => s \in Readable
    BY <1>1, <1>2 DEF FilesInv, Readable
  <1>5. \A s \in 1..Len(segments) : \A i \in 1..Len(segments[s].data) :
          segments[s].data[i] >= first => s <= l
    BY <1>1, <1>2, <1>3 DEF FilesInv
  <1>6. Owed \subseteq {Sample(line) : line \in Read}
    <2> SUFFICES ASSUME NEW n \in Owed PROVE n \in {Sample(line) : line \in Read}
      OBVIOUS
    <2>1. PICK s \in 1..Len(segments) : \E i \in 1..segments[s].safe : n = segments[s].data[i]
      BY <1>2 DEF Owed
    <2>2. PICK i \in 1..segments[s].safe : n = segments[s].data[i]
      BY <2>1
    <2>3. i \in 1..Len(segments[s].data) /\ n >= first
      BY <1>3, <2>2 DEF Owed
    <2>4. s \in Readable
      BY <1>2, <1>4, <1>5, <2>2, <2>3
    <2>5. <<s, i>> \in Read /\ Sample(<<s, i>>) = n
      BY <1>3, <2>2, <2>3, <2>4 DEF Read, Sample
    <2> QED BY <2>5
  <1>7. ASSUME NEW line \in Read, NEW next \in Read, Precedes(line, next),
               Sample(line) \in Owed, Sample(next) \in Owed
        PROVE  Sample(line) < Sample(next)
    <2>1. /\ line[1] \in 1..Len(segments) /\ line[2] \in 1..Len(segments[line[1]].data)
          /\ next[1] \in 1..Len(segments) /\ next[2] \in 1..Len(segments[next[1]].data)
      BY <1>2, <1>3, <1>7 DEF Read, Readable
    <2>2. Sample(line) >= first /\ Sample(next) >= first
      BY <1>7 DEF Owed
    <2> QED BY <1>1, <1>7, <2>1, <2>2 DEF FilesInv, Precedes, Sample
  <1>8. /\ journal \in File(Events) /\ journal.safe \in Nat /\ Len(journal.data) \in Nat
        /\ DOMAIN journal.data = 1..Len(journal.data) /\ journal.safe <= Len(journal.data)
    BY FileFields DEF PowerInv, JournalInv
  <1>9. ASSUME Verdict = "clean" PROVE cleanAt = written
    <2>1. ClosedCleanly
      BY <1>9 DEF Verdict
    <2>2. CleanTo(journal.data, Len(journal.data))
      BY <1>8, <2>1 DEF ClosedCleanly, Says, CleanTo
    <2>3. Len(journal.data) \in journal.safe..Len(journal.data)
      BY <1>8
    <2> QED BY <2>2, <2>3 DEF PowerInv, JournalInv
  <1>10. ASSUME Verdict = "steady or unknown" PROVE ~Alarmed /\ Owed \cap dips = {}
    <2>1. Says("critical") = {} /\ {Sample(line) : line \in Read} \cap dips = {}
      BY <1>10 DEF Verdict
    <2>2. ~Alarmed
      BY <1>8, <2>1 DEF Alarmed, Says
    <2>3. Owed \cap dips = {}
      BY <1>6, <2>1
    <2> QED BY <2>2, <2>3
  <1> QED BY <1>6, <1>7, <1>9, <1>10 DEF PostmortemIsSound

(* However often the monitor was stopped, killed and started in a boot and *)
(* wherever the power went, the post-mortem reads the synced samples of    *)
(* the last run in their order and judges them soundly                     *)
(* (jetson_power_lib.py: load_jsonl_many, classify_boot).                  *)
THEOREM PostmortemSafety == PowerSpec => []PostmortemIsSound
  <1>1. PowerInit => PowerInv
    BY FilesStart, JournalStart DEF PowerInv
  <1>2. PowerInv /\ [PowerNext]_power => PowerInv'
    BY FilesStep, JournalStep DEF PowerInv
  <1> QED BY <1>1, <1>2, InvSound, PTL DEF PowerSpec

----------------------------------------------------------------------------
(* FrameParser.  The frames returned are those of the bytes fed so far,    *)
(* whatever follows them: the stream is cut where the buffer starts, and   *)
(* neither a header skipped nor a frame taken before that place looks at   *)
(* a byte behind the buffer's end.  Both recursions, over the places of a  *)
(* buffer and of the stream, are resolved by induction from the end.       *)

FrameLists == Seq(Seq(Bytes))

LEMMA FramesJoin ==
  ASSUME NEW x \in FrameLists, NEW y \in FrameLists, NEW z \in FrameLists
  PROVE  (x \o y) \o z = x \o (y \o z) /\ x \o y \in FrameLists
  <1>1. x \in Seq(Seq(Bytes)) /\ y \in Seq(Seq(Bytes)) /\ z \in Seq(Seq(Bytes))
    BY DEF FrameLists
  <1>2. (x \o y) \o z = x \o (y \o z)
    BY <1>1, ConcatAssociative
  <1>3. x \o y \in FrameLists
    BY <1>1, ConcatProperties DEF FrameLists
  <1> QED BY <1>2, <1>3

(* Frames with the same bytes are the same.                                *)
LEMMA FrameAtIs ==
  ASSUME NEW s \in Seq(Bytes), NEW i \in Nat \ {0}, i + FrameSize - 1 <= Len(s)
  PROVE  /\ FrameAt(s, i) \in Seq(Bytes) /\ Len(FrameAt(s, i)) = FrameSize
         /\ \A k \in 1..FrameSize : FrameAt(s, i)[k] = s[i + k - 1]
  <1>1. Len(s) \in Nat /\ \A k \in i..i + FrameSize - 1 : s[k] \in Bytes
    BY ParserAssumption, LenProperties, ElementOfSeq
  <1>2. i \in Int /\ i + FrameSize - 1 \in Int /\ i <= i + FrameSize - 1
    BY ParserAssumption
  <1>3. /\ FrameAt(s, i) \in Seq(Bytes)
        /\ Len(FrameAt(s, i)) = FrameSize
        /\ \A k \in 1..FrameSize : FrameAt(s, i)[k] = s[i + k - 1]
    <2> DEFINE n == i + FrameSize - 1
    <2>1. n \in Int /\ \A k \in i..n : s[k] \in Bytes
      BY <1>1, <1>2
    <2>2. FrameAt(s, i) = SubSeq(s, i, n)
      BY DEF FrameAt
    <2>3. i \in Int /\ i <= n
      BY <1>2
    <2>4. n = i + FrameSize - 1
      OBVIOUS
    <2> HIDE DEF n
    <2>5. /\ FrameAt(s, i) \in Seq(Bytes) /\ Len(FrameAt(s, i)) = n - i + 1
          /\ \A k \in 1..n - i + 1 : FrameAt(s, i)[k] = s[i + k - 1]
      BY <2>1, <2>2, <2>3, SubSeqProperties
    <2>6. n - i + 1 = FrameSize
      BY <2>4, ParserAssumption
    <2> QED BY <2>5, <2>6
  <1> QED BY <1>3, ParserAssumption

LEMMA SameFrame ==
  ASSUME NEW s \in Seq(Bytes), NEW t \in Seq(Bytes), NEW i \in Nat \ {0}, NEW j \in Nat \ {0},
         i + FrameSize - 1 <= Len(s), j + FrameSize - 1 <= Len(t),
         \A k \in 0..FrameSize - 1 : s[i + k] = t[j + k]
  PROVE  FrameAt(s, i) = FrameAt(t, j) /\ (IsFrame(s, i) <=> IsFrame(t, j))
  <1>1. /\ FrameAt(s, i) \in Seq(Bytes) /\ Len(FrameAt(s, i)) = FrameSize
        /\ \A k \in 1..FrameSize : FrameAt(s, i)[k] = s[i + k - 1]
    BY FrameAtIs
  <1>2. /\ FrameAt(t, j) \in Seq(Bytes) /\ Len(FrameAt(t, j)) = FrameSize
        /\ \A k \in 1..FrameSize : FrameAt(t, j)[k] = t[j + k - 1]
    BY FrameAtIs
  <1>3. \A k \in 1..FrameSize : s[i + k - 1] = t[j + k - 1]
    <2> TAKE k \in 1..FrameSize
    <2>1. k - 1 \in 0..FrameSize - 1 /\ i + (k - 1) = i + k - 1 /\ j + (k - 1) = j + k - 1
      BY ParserAssumption
    <2> QED BY <2>1
  <1>4. FrameAt(s, i) = FrameAt(t, j)
    BY <1>1, <1>2, <1>3, SeqEqual
  <1>5. s[i] = t[j]
    <2>1. 0 \in 0..FrameSize - 1 /\ i + 0 = i /\ j + 0 = j
      BY ParserAssumption
    <2> QED BY <2>1
  <1> QED BY <1>4, <1>5 DEF IsFrame


(* Induction from the end: what holds at a place when it holds at all the  *)
(* places behind it holds at every place.                                  *)
LEMMA FromTheEnd ==
  ASSUME NEW N \in Nat, NEW S,
         \A i \in 1..N : (\A k \in i + 1..N : k \in S) => i \in S
  PROVE  \A i \in 1..N : i \in S
  <1> DEFINE bad == {n \in 0..N - 1 : N - n \notin S}
  <1>1. bad \in SUBSET Nat
    OBVIOUS
  <1>2. \A n : n \in bad <=> n \in 0..N - 1 /\ N - n \notin S
    OBVIOUS
  <1> HIDE DEF bad
  <1>3. bad = {}
    <2> SUFFICES ASSUME bad # {} PROVE FALSE
      OBVIOUS
    <2>1. PICK n \in bad : \A m \in bad : n <= m
      BY <1>1, LeastNat
    <2>2. n \in 0..N - 1 /\ N - n \in 1..N /\ N - n \notin S
      BY <1>2, <2>1
    <2>3. \A k \in N - n + 1..N : k \in S
      <3> TAKE k \in N - n + 1..N
      <3>1. N - k \in 0..N - 1 /\ N - (N - k) = k /\ ~(n <= N - k)
        BY <2>2
      <3> QED BY <1>2, <2>1, <3>1
    <2> QED BY <2>2, <2>3
  <1> QED
    <2> TAKE i \in 1..N
    <2>1. N - i \in 0..N - 1 /\ N - (N - i) = i
      OBVIOUS
    <2>2. N - (N - i) \in S
      BY <1>2, <1>3, <2>1
    <2> QED BY <2>1, <2>2

(* What the recursive definition of the frames of a stream says.           *)
LEMMA FramesFromIs ==
  ASSUME NEW s \in Seq(Bytes), NEW i \in 1..Len(s) + FrameSize
  PROVE  FramesFrom(s)[i] =
            IF i > Len(s) THEN <<>>
            ELSE IF IsFrame(s, i) THEN <<FrameAt(s, i)>> \o FramesFrom(s)[i + FrameSize]
            ELSE FramesFrom(s)[i + 1]
  <1> DEFINE N == Len(s) + FrameSize
             Body(g, k) == IF k > Len(s) THEN <<>>
                           ELSE IF IsFrame(s, k) THEN <<FrameAt(s, k)>> \o g[k + FrameSize]
                           ELSE g[k + 1]
             Solves(g, n) == \A k \in n..N : g[k] = Body(g, k)
             some == {n \in 1..N : \E g : Solves(g, n)}
  <1>1. Len(s) \in Nat /\ N \in Nat /\ N = Len(s) + FrameSize
        /\ FrameSize \in Nat /\ FrameSize > 0
    BY LenProperties, ParserAssumption
  <1>2. FramesFrom(s) = CHOOSE from : from = [k \in 1..N |-> Body(from, k)]
    BY DEF FramesFrom
  <1>3. \A g, h : \A k \in 1..N :
          (k <= Len(s) => g[k + 1] = h[k + 1] /\ g[k + FrameSize] = h[k + FrameSize])
            => Body(g, k) = Body(h, k)
    BY <1>1
  <1> HIDE DEF N, Body
  <1>4. \A n \in 1..N : (\A k \in n + 1..N : k \in some) => n \in some
    <2> SUFFICES ASSUME NEW n \in 1..N, \A k \in n + 1..N : k \in some
                 PROVE  \E g : Solves(g, n)
      OBVIOUS
    <2>1. \E g : \A k \in n + 1..N : g[k] = Body(g, k)
      <3>1. CASE n = N
        BY <1>1, <3>1
      <3>2. CASE n # N
        <4>1. n + 1 \in n + 1..N
          BY <1>1, <3>2
        <4> QED BY <4>1
      <3> QED BY <3>1, <3>2
    <2>2. PICK g : \A k \in n + 1..N : g[k] = Body(g, k)
      BY <2>1
    <2> DEFINE h == [k \in n..N |-> IF k = n THEN Body(g, k) ELSE g[k]]
    <2>3. \A k \in n..N : h[k] = Body(g, k)
      <3> TAKE k \in n..N
      <3>1. k # n => k \in n + 1..N
        BY <1>1
      <3> QED BY <2>2, <3>1
    <2>4. \A k \in n + 1..N : h[k] = g[k]
      BY <1>1
    <2> HIDE DEF h
    <2>5. \A k \in n..N : Body(g, k) = Body(h, k)
      <3> TAKE k \in n..N
      <3>1. k <= Len(s) => k + 1 \in n + 1..N /\ k + FrameSize \in n + 1..N
        BY <1>1
      <3>2. k <= Len(s) => g[k + 1] = h[k + 1] /\ g[k + FrameSize] = h[k + FrameSize]
        BY <2>4, <3>1
      <3>3. k \in 1..N
        BY <1>1
      <3> QED BY <1>3, <3>2, <3>3
    <2> QED BY <2>3, <2>5
  <1>5. \A n \in 1..N : n \in some
    <2> HIDE DEF some
    <2> QED BY <1>1, <1>4, FromTheEnd
  <1>6. PICK g : Solves(g, 1)
    <2>1. 1 \in 1..N
      BY <1>1
    <2> QED BY <1>5, <2>1
  <1> DEFINE h == [k \in 1..N |-> g[k]]
  <1>7. \A k \in 1..N : h[k] = Body(h, k)
    <2> TAKE k \in 1..N
    <2>1. h[k] = Body(g, k)
      BY <1>6
    <2>2. k <= Len(s) => k + 1 \in 1..N /\ k + FrameSize \in 1..N
      BY <1>1
    <2>3. k <= Len(s) => g[k + 1] = h[k + 1] /\ g[k + FrameSize] = h[k + FrameSize]
      BY <2>2
    <2> HIDE DEF h
    <2> QED BY <1>3, <2>1, <2>3
  <1>8. h = [k \in 1..N |-> Body(h, k)]
    <2>1. h = [k \in 1..N |-> h[k]]
      OBVIOUS
    <2> HIDE DEF h
    <2> QED BY <1>7, <2>1
  <1> HIDE DEF h
  <1>9. FramesFrom(s) = [k \in 1..N |-> Body(FramesFrom(s), k)]
    BY <1>2, <1>8
  <1>10. FramesFrom(s)[i] = Body(FramesFrom(s), i)
    BY <1>1, <1>9
  <1> QED BY <1>10 DEF Body

LEMMA FramesFromType ==
  ASSUME NEW s \in Seq(Bytes)
  PROVE  \A i \in 1..Len(s) + FrameSize : FramesFrom(s)[i] \in FrameLists
  <1> DEFINE N == Len(s) + FrameSize
             typed == {n \in 1..N : FramesFrom(s)[n] \in FrameLists}
  <1>1. Len(s) \in Nat /\ N \in Nat /\ N = Len(s) + FrameSize
        /\ FrameSize \in Nat /\ FrameSize > 0
    BY LenProperties, ParserAssumption
  <1> HIDE DEF N
  <1>2. \A n \in 1..N : (\A k \in n + 1..N : k \in typed) => n \in typed
    <2> SUFFICES ASSUME NEW n \in 1..N, \A k \in n + 1..N : k \in typed
                 PROVE  FramesFrom(s)[n] \in FrameLists
      OBVIOUS
    <2>1. FramesFrom(s)[n] =
            IF n > Len(s) THEN <<>>
            ELSE IF IsFrame(s, n) THEN <<FrameAt(s, n)>> \o FramesFrom(s)[n + FrameSize]
            ELSE FramesFrom(s)[n + 1]
      BY <1>1, FramesFromIs
    <2>2. CASE n > Len(s)
      BY <2>1, <2>2, EmptySeq DEF FrameLists
    <2>3. ASSUME ~(n > Len(s))
          PROVE  FramesFrom(s)[n + 1] \in FrameLists /\ FramesFrom(s)[n + FrameSize] \in FrameLists
      <3>1. n + 1 \in n + 1..N /\ n + FrameSize \in n + 1..N
        BY <1>1, <2>3
      <3> QED BY <3>1
    <2>4. CASE ~(n > Len(s)) /\ ~IsFrame(s, n)
      BY <2>1, <2>3, <2>4
    <2>5. CASE ~(n > Len(s)) /\ IsFrame(s, n)
      <3>1. FrameAt(s, n) \in Seq(Bytes)
        BY <1>1, <2>5, FrameAtIs DEF IsFrame
      <3>2. <<FrameAt(s, n)>> \in FrameLists
        BY <3>1 DEF FrameLists
      <3> QED BY <2>1, <2>3, <2>5, <3>2, ConcatProperties DEF FrameLists
    <2> QED BY <2>2, <2>4, <2>5
  <1>3. \A n \in 1..N : n \in typed
    <2> HIDE DEF typed
    <2> QED BY <1>1, <1>2, FromTheEnd
  <1> QED BY <1>1, <1>3

(* No frame starts before j: what is found from i on is found from j on.   *)
LEMMA NoFrameBefore ==
  ASSUME NEW s \in Seq(Bytes), NEW j \in 1..Len(s) + 1, NEW i \in 1..j,
         \A k \in i..j - 1 : ~IsFrame(s, k)
  PROVE  FramesFrom(s)[i] = FramesFrom(s)[j]
  <1> DEFINE same == {n \in 1..j : n >= i => FramesFrom(s)[n] = FramesFrom(s)[j]}
  <1>1. Len(s) \in Nat /\ FrameSize \in Nat /\ FrameSize > 0 /\ j \in Nat
    BY LenProperties, ParserAssumption
  <1>2. \A n \in 1..j : (\A k \in n + 1..j : k \in same) => n \in same
    <2> SUFFICES ASSUME NEW n \in 1..j, \A k \in n + 1..j : k \in same, n >= i, n # j
                 PROVE  FramesFrom(s)[n] = FramesFrom(s)[j]
      OBVIOUS
    <2>1. n + 1 \in n + 1..j /\ n + 1 >= i
      BY <1>1
    <2>2. FramesFrom(s)[n + 1] = FramesFrom(s)[j]
      BY <2>1
    <2>3. n \in i..j - 1 /\ n \in 1..Len(s) + FrameSize /\ ~(n > Len(s))
      BY <1>1
    <2> QED BY <2>2, <2>3, FramesFromIs
  <1>3. \A n \in 1..j : n \in same
    <2> HIDE DEF same
    <2> QED BY <1>1, <1>2, FromTheEnd
  <1> QED BY <1>1, <1>3

(* The rest of a stream: its bytes, and its frames.                        *)
LEMMA RestIs ==
  ASSUME NEW s \in Seq(Bytes), NEW k \in 0..Len(s)
  PROVE  /\ SubSeq(s, k + 1, Len(s)) \in Seq(Bytes)
         /\ Len(SubSeq(s, k + 1, Len(s))) = Len(s) - k
         /\ \A i \in 1..Len(s) - k : SubSeq(s, k + 1, Len(s))[i] = s[k + i]
  <1> DEFINE m == k + 1
             n == Len(s)
             r == SubSeq(s, m, n)
  <1>1. n \in Nat /\ m \in Nat /\ m >= 1 /\ m <= n + 1 /\ m = k + 1
    BY LenProperties
  <1>2. \A i \in m..n : s[i] \in Bytes
    BY <1>1, ElementOfSeq
  <1> HIDE DEF m
  <1>3. /\ r \in Seq(Bytes) /\ Len(r) = IF m <= n THEN n - m + 1 ELSE 0
        /\ \A i \in 1..n - m + 1 : r[i] = s[m + i - 1]
    BY <1>1, <1>2, SubSeqProperties
  <1>4. n - m + 1 = n - k /\ (m <= n <=> n - k > 0) /\ n - k >= 0
    BY <1>1
  <1>5. \A i \in 1..n - k : m + i - 1 = k + i
    BY <1>1
  <1>6. Len(r) = n - k
    <2>1. CASE m <= n
      BY <1>3, <1>4, <2>1
    <2>2. CASE ~(m <= n)
      <3>1. n - k = 0
        BY <1>1, <2>2
      <3> QED BY <1>3, <2>2, <3>1
    <2> QED BY <2>1, <2>2
  <1>7. \A i \in 1..n - k : r[i] = s[k + i]
    BY <1>3, <1>4, <1>5
  <1> QED BY <1>3, <1>6, <1>7 DEF m

LEMMA FramesOfRest ==
  ASSUME NEW s \in Seq(Bytes), NEW r \in Seq(Bytes), NEW k \in Nat, Len(s) = k + Len(r),
         \A i \in 1..Len(r) : r[i] = s[k + i]
  PROVE  \A i \in 1..Len(r) + FrameSize : FramesFrom(r)[i] = FramesFrom(s)[k + i]
  <1> DEFINE N == Len(r) + FrameSize
             same == {n \in 1..N : FramesFrom(r)[n] = FramesFrom(s)[k + n]}
  <1>1. /\ Len(r) \in Nat /\ Len(s) \in Nat /\ N \in Nat /\ N = Len(r) + FrameSize
        /\ FrameSize \in Nat /\ FrameSize > 0
    BY LenProperties, ParserAssumption
  <1> HIDE DEF N
  <1>2. \A n \in 1..N : (\A m \in n + 1..N : m \in same) => n \in same
    <2> SUFFICES ASSUME NEW n \in 1..N, \A m \in n + 1..N : m \in same
                 PROVE  FramesFrom(r)[n] = FramesFrom(s)[k + n]
      OBVIOUS
    <2>1. FramesFrom(r)[n] =
            IF n > Len(r) THEN <<>>
            ELSE IF IsFrame(r, n) THEN <<FrameAt(r, n)>> \o FramesFrom(r)[n + FrameSize]
            ELSE FramesFrom(r)[n + 1]
      BY <1>1, FramesFromIs
    <2> DEFINE j == k + n
    <2>2. /\ j \in 1..Len(s) + FrameSize /\ j \in Nat \ {0} /\ j = k + n
          /\ (j > Len(s) <=> n > Len(r))
      BY <1>1
    <2>3. n <= Len(r) => /\ n + 1 \in n + 1..N /\ n + FrameSize \in n + 1..N
                         /\ k + (n + 1) = j + 1 /\ k + (n + FrameSize) = j + FrameSize
      BY <1>1
    <2> HIDE DEF j
    <2>4. FramesFrom(s)[j] =
            IF j > Len(s) THEN <<>>
            ELSE IF IsFrame(s, j) THEN <<FrameAt(s, j)>> \o FramesFrom(s)[j + FrameSize]
            ELSE FramesFrom(s)[j + 1]
      BY <2>2, FramesFromIs
    <2>5. n <= Len(r) => /\ FramesFrom(r)[n + 1] = FramesFrom(s)[j + 1]
                         /\ FramesFrom(r)[n + FrameSize] = FramesFrom(s)[j + FrameSize]
      BY <2>3
    <2>6. CASE n > Len(r)
      BY <2>1, <2>2, <2>4, <2>6
    <2>7. CASE n <= Len(r) /\ n + FrameSize - 1 <= Len(r)
      <3>1. j + FrameSize - 1 <= Len(s)
        BY <1>1, <2>2, <2>7
      <3>2. \A m \in 0..FrameSize - 1 : r[n + m] = s[j + m]
        <4> TAKE m \in 0..FrameSize - 1
        <4>1. n + m \in 1..Len(r) /\ k + (n + m) = j + m
          BY <1>1, <2>2, <2>7
        <4> QED BY <4>1
      <3>3. FrameAt(r, n) = FrameAt(s, j) /\ (IsFrame(r, n) <=> IsFrame(s, j))
        <4>1. n \in Nat \ {0}
          BY <1>1
        <4>2. j \in Nat \ {0} /\ n + FrameSize - 1 <= Len(r)
          BY <2>2, <2>7
        <4> QED BY <3>1, <3>2, <4>1, <4>2, SameFrame
      <3>4. ~(n > Len(r)) /\ ~(j > Len(s))
        BY <1>1, <2>2, <2>7
      <3> QED BY <2>1, <2>4, <2>5, <2>7, <3>3, <3>4, <2>2
    <2>8. CASE n <= Len(r) /\ ~(n + FrameSize - 1 <= Len(r))
      <3>1. ~IsFrame(r, n)
        BY <2>8 DEF IsFrame
      <3>2. ~(j + FrameSize - 1 <= Len(s))
        BY <1>1, <2>2, <2>8
      <3>3. ~IsFrame(s, j)
        BY <3>2 DEF IsFrame
      <3>4. ~(n > Len(r)) /\ ~(j > Len(s))
        BY <1>1, <2>2, <2>8
      <3> QED BY <2>1, <2>4, <2>5, <2>8, <3>1, <3>3, <3>4, <2>2
    <2> QED BY <1>1, <2>6, <2>7, <2>8
  <1>3. \A n \in 1..N : n \in same
    <2> HIDE DEF same
    <2> QED BY <1>1, <1>2, FromTheEnd
  <1> QED BY <1>1, <1>3

(* The loop of feed().                                                     *)
LEMMA HeaderIs ==
  ASSUME NEW b \in Seq(Bytes), NEW i \in 1..Len(b) + 1
  PROVE  /\ Header(b, i) \in i..Len(b) + 1
         /\ Header(b, i) <= Len(b) => b[Header(b, i)] \in Headers
         /\ \A k \in i..Header(b, i) - 1 : b[k] \notin Headers
  <1> DEFINE found == {j \in i..Len(b) + 1 : j <= Len(b) => b[j] \in Headers}
  <1>1. Len(b) \in Nat /\ i \in Nat
    BY LenProperties
  <1>2. found \in SUBSET Nat /\ found # {}
    <2>1. Len(b) + 1 \in found
      BY <1>1
    <2> QED BY <1>1, <2>1
  <1>3. PICK j \in found : \A k \in found : j <= k
    BY <1>2, LeastNat
  <1>4. j \in i..Len(b) + 1 /\ (j <= Len(b) => b[j] \in Headers)
    BY <1>3
  <1>5. \A k \in i..j - 1 : b[k] \notin Headers
    <2> SUFFICES ASSUME NEW k \in i..j - 1, b[k] \in Headers PROVE FALSE
      OBVIOUS
    <2>1. k \in i..Len(b) + 1 /\ k < j
      BY <1>1, <1>4
    <2>2. k \in found
      BY <2>1
    <2> QED BY <1>1, <1>3, <1>4, <2>1, <2>2
  <1> QED BY <1>4, <1>5 DEF Header

LEMMA ScanIs ==
  ASSUME NEW b \in Seq(Bytes), NEW i \in 1..Len(b) + 1
  PROVE  Scan(b)[i] =
            IF Len(b) - i + 1 < FrameSize THEN [next |-> i, out |-> <<>>]
            ELSE IF Len(b) - Header(b, i) + 1 < FrameSize
                 THEN [next |-> Header(b, i), out |-> <<>>]
            ELSE IF ~Sound(FrameAt(b, Header(b, i))) THEN Scan(b)[Header(b, i) + 1]
            ELSE [next |-> Scan(b)[Header(b, i) + FrameSize].next,
                  out |-> <<FrameAt(b, Header(b, i))>> \o Scan(b)[Header(b, i) + FrameSize].out]
  <1> DEFINE N == Len(b) + 1
             Body(g, k) ==
                LET head == Header(b, k)
                IN  IF Len(b) - k + 1 < FrameSize THEN [next |-> k, out |-> <<>>]
                    ELSE IF Len(b) - head + 1 < FrameSize THEN [next |-> head, out |-> <<>>]
                    ELSE IF ~Sound(FrameAt(b, head)) THEN g[AfterBad(head)]
                    ELSE LET more == g[head + FrameSize]
                         IN  [next |-> more.next, out |-> <<FrameAt(b, head)>> \o more.out]
             Solves(g, n) == \A k \in n..N : g[k] = Body(g, k)
             some == {n \in 1..N : \E g : Solves(g, n)}
  <1>1. Len(b) \in Nat /\ N \in Nat /\ N = Len(b) + 1 /\ FrameSize \in Nat /\ FrameSize > 0
    BY LenProperties, ParserAssumption
  <1>2. Scan(b) = CHOOSE scan : scan = [k \in 1..N |-> Body(scan, k)]
    BY DEF Scan
  <1>3. \A g, h : \A k \in 1..N :
          (\A m \in k + 1..N : g[m] = h[m]) => Body(g, k) = Body(h, k)
    <2> SUFFICES ASSUME NEW g, NEW h, NEW k \in 1..N, \A m \in k + 1..N : g[m] = h[m]
                 PROVE  Body(g, k) = Body(h, k)
      OBVIOUS
    <2> DEFINE head == Header(b, k)
    <2>1. head \in k..N
      BY <1>1, HeaderIs
    <2> HIDE DEF head
    <2>2. CASE Len(b) - head + 1 < FrameSize
      BY <2>2 DEF head
    <2>3. CASE ~(Len(b) - head + 1 < FrameSize)
      <3>1. head + 1 \in k + 1..N /\ head + FrameSize \in k + 1..N
        BY <1>1, <2>1, <2>3
      <3>2. g[head + 1] = h[head + 1] /\ g[head + FrameSize] = h[head + FrameSize]
        BY <3>1
      <3> QED BY <3>2 DEF head, AfterBad
    <2> QED BY <2>2, <2>3
  <1>4. Body(Scan(b), i) =
            IF Len(b) - i + 1 < FrameSize THEN [next |-> i, out |-> <<>>]
            ELSE IF Len(b) - Header(b, i) + 1 < FrameSize
                 THEN [next |-> Header(b, i), out |-> <<>>]
            ELSE IF ~Sound(FrameAt(b, Header(b, i))) THEN Scan(b)[Header(b, i) + 1]
            ELSE [next |-> Scan(b)[Header(b, i) + FrameSize].next,
                  out |-> <<FrameAt(b, Header(b, i))>> \o Scan(b)[Header(b, i) + FrameSize].out]
    BY DEF AfterBad
  <1> HIDE DEF N, Body
  <1>5. \A n \in 1..N : (\A k \in n + 1..N : k \in some) => n \in some
    <2> SUFFICES ASSUME NEW n \in 1..N, \A k \in n + 1..N : k \in some
                 PROVE  \E g : Solves(g, n)
      OBVIOUS
    <2>1. \E g : \A k \in n + 1..N : g[k] = Body(g, k)
      <3>1. CASE n = N
        BY <1>1, <3>1
      <3>2. CASE n # N
        <4>1. n + 1 \in n + 1..N
          BY <1>1, <3>2
        <4> QED BY <4>1
      <3> QED BY <3>1, <3>2
    <2>2. PICK g : \A k \in n + 1..N : g[k] = Body(g, k)
      BY <2>1
    <2> DEFINE h == [k \in n..N |-> IF k = n THEN Body(g, k) ELSE g[k]]
    <2>3. \A k \in n..N : h[k] = Body(g, k)
      <3> TAKE k \in n..N
      <3>1. k # n => k \in n + 1..N
        BY <1>1
      <3> QED BY <2>2, <3>1
    <2>4. \A k \in n + 1..N : h[k] = g[k]
      BY <1>1
    <2> HIDE DEF h
    <2>5. \A k \in n..N : Body(g, k) = Body(h, k)
      <3> TAKE k \in n..N
      <3>1. \A m \in k + 1..N : g[m] = h[m]
        BY <1>1, <2>4
      <3>2. k \in 1..N
        BY <1>1
      <3> QED BY <1>3, <3>1, <3>2
    <2> QED BY <2>3, <2>5
  <1>6. \A n \in 1..N : n \in some
    <2> HIDE DEF some
    <2> QED BY <1>1, <1>5, FromTheEnd
  <1>7. PICK g : Solves(g, 1)
    <2>1. 1 \in 1..N
      BY <1>1
    <2> QED BY <1>6, <2>1
  <1> DEFINE h == [k \in 1..N |-> g[k]]
  <1>8. \A k \in 1..N : h[k] = Body(h, k)
    <2> TAKE k \in 1..N
    <2>1. h[k] = Body(g, k)
      BY <1>7
    <2>2. \A m \in k + 1..N : g[m] = h[m]
      BY <1>1
    <2> HIDE DEF h
    <2> QED BY <1>3, <2>1, <2>2
  <1>9. h = [k \in 1..N |-> Body(h, k)]
    <2>1. h = [k \in 1..N |-> h[k]]
      OBVIOUS
    <2> HIDE DEF h
    <2> QED BY <1>8, <2>1
  <1> HIDE DEF h
  <1>10. Scan(b) = [k \in 1..N |-> Body(Scan(b), k)]
    BY <1>2, <1>9
  <1>11. Scan(b)[i] = Body(Scan(b), i)
    BY <1>1, <1>10
  <1> QED BY <1>4, <1>11

(* The loop finds the frames up to the place where it ends, whatever bytes *)
(* follow, and ends with less than a frame.                                *)
Cuts(b, i, found) ==
    /\ found.next \in i..Len(b) + 1 /\ found.out \in FrameLists
    /\ Len(b) - found.next + 1 < FrameSize
    /\ \A d \in Seq(Bytes) :
          FramesFrom(b \o d)[i] = found.out \o FramesFrom(b \o d)[found.next]

LEMMA BytesBehind ==
  ASSUME NEW b \in Seq(Bytes), NEW d \in Seq(Bytes), NEW i \in 1..Len(b),
         i + FrameSize - 1 <= Len(b)
  PROVE  /\ FrameAt(b \o d, i) = FrameAt(b, i)
         /\ IsFrame(b \o d, i) <=> IsFrame(b, i)
  <1> DEFINE t == b \o d
  <1>1. t \in Seq(Bytes) /\ Len(t) = Len(b) + Len(d)
        /\ \A k \in 1..Len(b) + Len(d) : t[k] = IF k <= Len(b) THEN b[k] ELSE d[k - Len(b)]
    BY ConcatProperties
  <1> HIDE DEF t
  <1>2. Len(b) \in Nat /\ Len(d) \in Nat /\ FrameSize \in Nat /\ FrameSize > 0
    BY LenProperties, ParserAssumption
  <1>3. \A k \in 0..FrameSize - 1 : b[i + k] = t[i + k]
    <2> TAKE k \in 0..FrameSize - 1
    <2>1. i + k \in 1..Len(b) + Len(d) /\ i + k <= Len(b)
      BY <1>2
    <2> QED BY <1>1, <2>1
  <1>4. i \in Nat \ {0} /\ i + FrameSize - 1 <= Len(t)
    BY <1>1, <1>2
  <1>5. FrameAt(b, i) = FrameAt(t, i) /\ (IsFrame(b, i) <=> IsFrame(t, i))
    BY <1>1, <1>3, <1>4, SameFrame
  <1> QED BY <1>5 DEF t

LEMMA HeaderSkips ==
  ASSUME NEW b \in Seq(Bytes), NEW d \in Seq(Bytes), NEW i \in 1..Len(b) + 1
  PROVE  FramesFrom(b \o d)[i] = FramesFrom(b \o d)[Header(b, i)]
  <1> DEFINE t == b \o d
             j == Header(b, i)
  <1>1. t \in Seq(Bytes) /\ Len(t) = Len(b) + Len(d)
        /\ \A k \in 1..Len(b) + Len(d) : t[k] = IF k <= Len(b) THEN b[k] ELSE d[k - Len(b)]
    BY ConcatProperties
  <1>2. Len(b) \in Nat /\ Len(d) \in Nat
    BY LenProperties
  <1>3. j \in i..Len(b) + 1 /\ \A k \in i..j - 1 : b[k] \notin Headers
    BY HeaderIs
  <1> HIDE DEF t, j
  <1>4. j \in 1..Len(t) + 1 /\ i \in 1..j
    BY <1>1, <1>2, <1>3
  <1>5. \A k \in i..j - 1 : ~IsFrame(t, k)
    <2> TAKE k \in i..j - 1
    <2>1. k \in 1..Len(b) + Len(d) /\ k <= Len(b)
      BY <1>2, <1>3
    <2>2. t[k] \notin Headers
      BY <1>1, <1>3, <2>1
    <2> QED BY <2>2 DEF IsFrame
  <1>6. FramesFrom(t)[i] = FramesFrom(t)[j]
    BY <1>1, <1>4, <1>5, NoFrameBefore
  <1> QED BY <1>6 DEF t, j

LEMMA ScanCuts ==
  ASSUME NEW b \in Seq(Bytes)
  PROVE  \A i \in 1..Len(b) + 1 : Cuts(b, i, Scan(b)[i])
  <1> DEFINE N == Len(b) + 1
             good == {n \in 1..N : Cuts(b, n, Scan(b)[n])}
  <1>1. Len(b) \in Nat /\ N \in Nat /\ N = Len(b) + 1 /\ FrameSize \in Nat /\ FrameSize > 0
    BY LenProperties, ParserAssumption
  <1> HIDE DEF N
  <1>2. \A d \in Seq(Bytes) :
          /\ b \o d \in Seq(Bytes) /\ Len(b \o d) = Len(b) + Len(d) /\ Len(d) \in Nat
          /\ \A k \in 1..N : FramesFrom(b \o d)[k] \in FrameLists
                             /\ <<>> \o FramesFrom(b \o d)[k] = FramesFrom(b \o d)[k]
    <2> TAKE d \in Seq(Bytes)
    <2>1. b \o d \in Seq(Bytes) /\ Len(b \o d) = Len(b) + Len(d) /\ Len(d) \in Nat
      BY ConcatProperties, LenProperties
    <2>2. \A k \in 1..Len(b \o d) + FrameSize : FramesFrom(b \o d)[k] \in FrameLists
      BY <2>1, FramesFromType
    <2>3. \A k \in 1..N : k \in 1..Len(b \o d) + FrameSize
      BY <1>1, <2>1
    <2>4. \A k \in 1..N : FramesFrom(b \o d)[k] \in FrameLists
      BY <2>2, <2>3
    <2> QED BY <2>1, <2>4, ConcatEmptySeq DEF FrameLists
  <1>3. <<>> \in FrameLists
    BY EmptySeq DEF FrameLists
  <1>4. \A n \in 1..N : (\A k \in n + 1..N : k \in good) => n \in good
    <2> SUFFICES ASSUME NEW n \in 1..N, \A k \in n + 1..N : k \in good
                 PROVE  Cuts(b, n, Scan(b)[n])
      OBVIOUS
    <2>0. \A k \in n + 1..N : Cuts(b, k, Scan(b)[k])
      OBVIOUS
    <2> HIDE DEF good
    <2> DEFINE head == Header(b, n)
    <2>1. Scan(b)[n] =
            IF Len(b) - n + 1 < FrameSize THEN [next |-> n, out |-> <<>>]
            ELSE IF Len(b) - head + 1 < FrameSize THEN [next |-> head, out |-> <<>>]
            ELSE IF ~Sound(FrameAt(b, head)) THEN Scan(b)[head + 1]
            ELSE [next |-> Scan(b)[head + FrameSize].next,
                  out |-> <<FrameAt(b, head)>> \o Scan(b)[head + FrameSize].out]
      BY <1>1, ScanIs
    <2>2. head \in n..N /\ (head <= Len(b) => b[head] \in Headers)
      BY <1>1, HeaderIs
    <2>3. \A d \in Seq(Bytes) : FramesFrom(b \o d)[n] = FramesFrom(b \o d)[head]
      BY <1>1, HeaderSkips
    <2>4. n \in Nat /\ head \in 1..N /\ head \in Nat
      BY <1>1, <2>2
    <2> HIDE DEF head
    <2>5. CASE Len(b) - n + 1 < FrameSize
      <3> DEFINE found == [next |-> n, out |-> <<>>]
      <3>1. Scan(b)[n] = found /\ found.next = n /\ found.out = <<>>
        BY <2>1, <2>5
      <3> HIDE DEF found
      <3> QED BY <1>1, <1>2, <1>3, <2>4, <2>5, <3>1 DEF Cuts
    <2>6. CASE ~(Len(b) - n + 1 < FrameSize) /\ Len(b) - head + 1 < FrameSize
      <3> DEFINE found == [next |-> head, out |-> <<>>]
      <3>1. Scan(b)[n] = found /\ found.next = head /\ found.out = <<>>
        BY <2>1, <2>6
      <3> HIDE DEF found
      <3> QED BY <1>1, <1>2, <1>3, <2>2, <2>3, <2>4, <2>6, <3>1 DEF Cuts
    <2>7. ASSUME ~(Len(b) - n + 1 < FrameSize), ~(Len(b) - head + 1 < FrameSize)
          PROVE  /\ head \in 1..Len(b) /\ head + FrameSize - 1 <= Len(b)
                 /\ head + 1 \in n + 1..N /\ head + FrameSize \in n + 1..N
                 /\ \A d \in Seq(Bytes) :
                        /\ head \in 1..Len(b \o d) + FrameSize /\ ~(head > Len(b \o d))
                        /\ FrameAt(b \o d, head) = FrameAt(b, head)
                        /\ IsFrame(b \o d, head) <=> IsFrame(b, head)
      <3>1. /\ head \in 1..Len(b) /\ head + FrameSize - 1 <= Len(b)
            /\ head + 1 \in n + 1..N /\ head + FrameSize \in n + 1..N
        BY <1>1, <2>2, <2>4, <2>7
      <3>2. ASSUME NEW d \in Seq(Bytes)
            PROVE  head \in 1..Len(b \o d) + FrameSize /\ ~(head > Len(b \o d))
        BY <1>1, <1>2, <3>1
      <3>3. \A d \in Seq(Bytes) : /\ FrameAt(b \o d, head) = FrameAt(b, head)
                                  /\ IsFrame(b \o d, head) <=> IsFrame(b, head)
        BY <3>1, BytesBehind
      <3> QED BY <3>1, <3>2, <3>3
    <2>8. CASE /\ ~(Len(b) - n + 1 < FrameSize) /\ ~(Len(b) - head + 1 < FrameSize)
               /\ ~Sound(FrameAt(b, head))
      <3> DEFINE found == Scan(b)[head + 1]
      <3>1. Scan(b)[n] = found
        BY <2>1, <2>8
      <3>2. Cuts(b, head + 1, found)
        BY <2>0, <2>7, <2>8
      <3> HIDE DEF found
      <3>3. \A d \in Seq(Bytes) : FramesFrom(b \o d)[head] = FramesFrom(b \o d)[head + 1]
        <4> TAKE d \in Seq(Bytes)
        <4>1. ~IsFrame(b \o d, head)
          BY <2>7, <2>8 DEF IsFrame
        <4> QED BY <1>2, <2>7, <2>8, <4>1, FramesFromIs
      <3>4. found.next \in n..Len(b) + 1
        BY <1>1, <2>2, <2>4, <3>2 DEF Cuts
      <3> QED BY <2>3, <3>1, <3>2, <3>3, <3>4 DEF Cuts
    <2>9. CASE /\ ~(Len(b) - n + 1 < FrameSize) /\ ~(Len(b) - head + 1 < FrameSize)
               /\ Sound(FrameAt(b, head))
      <3> DEFINE more == Scan(b)[head + FrameSize]
                 one == <<FrameAt(b, head)>>
                 out == one \o more.out
                 found == [next |-> more.next, out |-> out]
      <3>1. Scan(b)[n] = found
        BY <2>1, <2>9
      <3>2. Cuts(b, head + FrameSize, more)
        BY <2>0, <2>7, <2>9
      <3>3. one \in FrameLists
        <4>1. FrameAt(b, head) \in Seq(Bytes)
          BY <2>4, <2>7, <2>9, FrameAtIs
        <4> QED BY <4>1 DEF FrameLists
      <3>4. found.next = more.next /\ found.out = out
        OBVIOUS
      <3> HIDE DEF more, one, found
      <3>5. out \in FrameLists
        BY <3>2, <3>3, ConcatProperties DEF Cuts, FrameLists
      <3>6. IsFrame(b, head)
        BY <2>2, <2>7, <2>9 DEF IsFrame
      <3>7. more.next \in n..Len(b) + 1 /\ more.next \in 1..N
        BY <1>1, <2>2, <2>4, <3>2 DEF Cuts
      <3>8. \A d \in Seq(Bytes) : FramesFrom(b \o d)[n] = out \o FramesFrom(b \o d)[more.next]
        <4> TAKE d \in Seq(Bytes)
        <4>1. FramesFrom(b \o d)[head] = one \o FramesFrom(b \o d)[head + FrameSize]
          <5> DEFINE t == b \o d
          <5>1. /\ t \in Seq(Bytes) /\ head \in 1..Len(t) + FrameSize /\ ~(head > Len(t))
                /\ IsFrame(t, head) /\ FrameAt(t, head) = FrameAt(b, head)
            BY <1>2, <2>7, <2>9, <3>6
          <5> HIDE DEF t
          <5>2. FramesFrom(t)[head] = <<FrameAt(t, head)>> \o FramesFrom(t)[head + FrameSize]
            BY <5>1, FramesFromIs
          <5> QED BY <5>1, <5>2 DEF t, one
        <4>2. FramesFrom(b \o d)[head + FrameSize]
                = more.out \o FramesFrom(b \o d)[more.next]
          BY <3>2 DEF Cuts
        <4>3. FramesFrom(b \o d)[more.next] \in FrameLists
          BY <1>2, <3>7
        <4>4. out \o FramesFrom(b \o d)[more.next]
                = one \o (more.out \o FramesFrom(b \o d)[more.next])
          <5>1. more.out \in FrameLists
            BY <3>2 DEF Cuts
          <5> DEFINE tail == more.out
                     behind == FramesFrom(b \o d)[more.next]
          <5>2. tail \in FrameLists /\ behind \in FrameLists
            BY <4>3, <5>1
          <5> HIDE DEF tail, behind
          <5>3. (one \o tail) \o behind = one \o (tail \o behind)
            BY <3>3, <5>2, FramesJoin
          <5> QED BY <5>3 DEF tail, behind
        <4> QED BY <2>3, <4>1, <4>2, <4>4
      <3> HIDE DEF out
      <3> QED BY <3>1, <3>2, <3>4, <3>5, <3>7, <3>8 DEF Cuts
    <2> QED BY <2>5, <2>6, <2>8, <2>9
  <1>5. \A n \in 1..N : n \in good
    <2> HIDE DEF good
    <2> QED BY <1>1, <1>4, FromTheEnd
  <1> QED BY <1>1, <1>5

(* v are the bytes of u from place k on. *)
Behind(u, v, k) == Len(u) = k + Len(v) /\ \A i \in 1..Len(v) : v[i] = u[k + i]

(* f are the frames of the head k bytes of stream s, whatever follows it, *)
(* and b is the rest.                                                      *)
Parsed(s, b, f, k) ==
    /\ s \in Seq(Bytes) /\ b \in Seq(Bytes) /\ f \in FrameLists /\ k \in Nat
    /\ Behind(s, b, k) /\ Len(b) < FrameSize
    /\ \A d \in Seq(Bytes) : FramesFrom(s \o d)[1] = f \o FramesFrom(s \o d)[k + 1]

ParserInv == \E k \in Nat : Parsed(stream, buffer, frames, k)

(* The rest of a stream stays its rest when bytes follow both. *)
LEMMA BehindGrows ==
  ASSUME NEW u \in Seq(Bytes), NEW v \in Seq(Bytes), NEW d \in Seq(Bytes), NEW k \in Nat,
         Behind(u, v, k)
  PROVE  u \o d \in Seq(Bytes) /\ v \o d \in Seq(Bytes) /\ Behind(u \o d, v \o d, k)
  <1> DEFINE ud == u \o d
             vd == v \o d
             lu == Len(u)
             lv == Len(v)
             ld == Len(d)
  <1>1. lu \in Nat /\ lv \in Nat /\ ld \in Nat /\ lu = k + lv
    BY LenProperties DEF Behind
  <1>2. /\ ud \in Seq(Bytes) /\ Len(ud) = lu + ld
        /\ \A i \in 1..lu + ld : ud[i] = IF i <= lu THEN u[i] ELSE d[i - lu]
    BY ConcatProperties
  <1>3. /\ vd \in Seq(Bytes) /\ Len(vd) = lv + ld
        /\ \A i \in 1..lv + ld : vd[i] = IF i <= lv THEN v[i] ELSE d[i - lv]
    BY ConcatProperties
  <1>4. \A i \in 1..lv : v[i] = u[k + i]
    BY DEF Behind
  <1> HIDE DEF ud, vd, lu, lv, ld
  <1>5. ASSUME NEW i \in 1..lv + ld
        PROVE  vd[i] = ud[k + i]
    <2> DEFINE j == k + i
    <2>1. j \in 1..lu + ld /\ (j <= lu <=> i <= lv) /\ j - lu = i - lv
      BY <1>1
    <2>6. j = k + i
      OBVIOUS
    <2> HIDE DEF j
    <2>2. ud[j] = IF j <= lu THEN u[j] ELSE d[j - lu]
      BY <1>2, <2>1
    <2>3. vd[i] = IF i <= lv THEN v[i] ELSE d[i - lv]
      BY <1>3
    <2>4. CASE i <= lv
      <3>1. v[i] = u[k + i]
        <4>1. i \in 1..lv
          BY <1>1, <2>4
        <4> QED BY <1>4, <4>1
      <3> QED BY <2>1, <2>2, <2>3, <2>4, <2>6, <3>1
    <2>5. CASE ~(i <= lv)
      BY <2>1, <2>2, <2>3, <2>5, <2>6
    <2> QED BY <2>4, <2>5
  <1>6. Len(ud) = k + Len(vd) /\ Len(vd) \in Nat
    BY <1>1, <1>2, <1>3
  <1>7. \A i \in 1..Len(vd) : vd[i] = ud[k + i]
    BY <1>3, <1>5
  <1>8. Behind(ud, vd, k)
    BY <1>6, <1>7 DEF Behind
  <1> QED BY <1>2, <1>3, <1>8 DEF ud, vd

LEMMA ParsedIs ==
  ASSUME NEW s, NEW b, NEW f, NEW k, Parsed(s, b, f, k)
  PROVE  /\ Behind(s, b, k)
         /\ \A d \in Seq(Bytes) : FramesFrom(s \o d)[1] = f \o FramesFrom(s \o d)[k + 1]
  BY Zenon DEF Parsed

LEMMA FeedKeeps ==
  ASSUME NEW s \in Seq(Bytes), NEW b \in Seq(Bytes), NEW f \in FrameLists, NEW k \in Nat,
         Parsed(s, b, f, k), NEW data \in Seq(Bytes)
  PROVE  \E j \in Nat :
            Parsed(s \o data, SubSeq(b \o data, Scan(b \o data)[1].next, Len(b \o data)),
                   f \o Scan(b \o data)[1].out, j)
  <1> DEFINE t == s \o data
             c == b \o data
  <1>1. FrameSize \in Nat /\ FrameSize > 0
    BY ParserAssumption
  <1>2. Behind(s, b, k)
    BY ParsedIs
  <1>3. \A d \in Seq(Bytes) : FramesFrom(s \o d)[1] = f \o FramesFrom(s \o d)[k + 1]
    BY Zenon DEF Parsed
  <1>4. t \in Seq(Bytes) /\ c \in Seq(Bytes) /\ Behind(t, c, k)
    BY <1>2, BehindGrows
  <1>5. /\ t \in Seq(Bytes) /\ c \in Seq(Bytes) /\ Len(t) = k + Len(c) /\ Len(c) \in Nat
        /\ \A i \in 1..Len(c) : c[i] = t[k + i]
    BY <1>4, LenProperties DEF Behind
  <1>6. \A d \in Seq(Bytes) : t \o d = s \o (data \o d) /\ data \o d \in Seq(Bytes)
    BY ConcatAssociative, ConcatProperties
  <1>7. ASSUME NEW d \in Seq(Bytes)
        PROVE  FramesFrom(t \o d)[1] = f \o FramesFrom(t \o d)[k + 1]
    <2> DEFINE e == data \o d
               se == s \o e
    <2>1. e \in Seq(Bytes) /\ t \o d = se
      BY <1>6
    <2> HIDE DEF e
    <2>2. FramesFrom(se)[1] = f \o FramesFrom(se)[k + 1]
      BY Zenon, <1>3, <2>1
    <2> QED BY <2>1, <2>2
  <1> HIDE DEF t, c
  <1> DEFINE found == Scan(c)[1]
  <1>8. Cuts(c, 1, found)
    <2>1. 1 \in 1..Len(c) + 1
      BY <1>5
    <2> QED BY <1>5, <2>1, ScanCuts
  <1> HIDE DEF found
  <1>9. PICK m \in 0..Len(c) : found.next = m + 1
    <2>1. found.next \in 1..Len(c) + 1
      BY <1>8 DEF Cuts
    <2>2. found.next - 1 \in 0..Len(c) /\ found.next = found.next - 1 + 1
      BY <1>5, <2>1
    <2> QED BY <2>2
  <1>10. found.out \in FrameLists /\ Len(c) - (m + 1) + 1 < FrameSize
    BY <1>8, <1>9 DEF Cuts
  <1> DEFINE rest == SubSeq(c, m + 1, Len(c))
  <1>11. /\ rest \in Seq(Bytes) /\ Len(rest) = Len(c) - m
         /\ \A i \in 1..Len(c) - m : rest[i] = c[m + i]
    BY <1>5, RestIs
  <1> HIDE DEF rest
  <1>12. /\ k + m \in Nat /\ Len(t) = (k + m) + Len(rest) /\ Len(rest) < FrameSize
    BY <1>5, <1>10, <1>11
  <1>13. \A i \in 1..Len(rest) : rest[i] = t[(k + m) + i]
    <2> TAKE i \in 1..Len(rest)
    <2>1. i \in 1..Len(c) - m /\ m + i \in 1..Len(c) /\ k + (m + i) = (k + m) + i
      BY <1>5, <1>11
    <2> QED BY <1>5, <1>11, <2>1
  <1>14. ASSUME NEW d \in Seq(Bytes)
         PROVE  FramesFrom(t \o d)[1] = (f \o found.out) \o FramesFrom(t \o d)[(k + m) + 1]
    <2> DEFINE td == t \o d
               cd == c \o d
    <2>1. FramesFrom(td)[1] = f \o FramesFrom(td)[k + 1]
      BY <1>7
    <2>2. /\ td \in Seq(Bytes) /\ cd \in Seq(Bytes)
          /\ Len(td) = k + Len(cd) /\ Len(cd) \in Nat
          /\ \A i \in 1..Len(cd) : cd[i] = td[k + i]
      <3>1. td \in Seq(Bytes) /\ cd \in Seq(Bytes) /\ Behind(td, cd, k)
        BY <1>4, BehindGrows
      <3> HIDE DEF td, cd
      <3> QED BY <3>1, LenProperties DEF Behind
    <2>3. Len(c) <= Len(cd)
      <3>1. Len(cd) = Len(c) + Len(d) /\ Len(d) \in Nat
        BY <1>5, ConcatProperties, LenProperties
      <3> QED BY <1>5, <3>1
    <2>4. FramesFrom(cd)[1] = found.out \o FramesFrom(cd)[m + 1]
      BY <1>8, <1>9 DEF Cuts
    <2> HIDE DEF td, cd
    <2>5. \A i \in 1..Len(cd) + FrameSize : FramesFrom(cd)[i] = FramesFrom(td)[k + i]
      BY <2>2, FramesOfRest
    <2>6. /\ 1 \in 1..Len(cd) + FrameSize /\ m + 1 \in 1..Len(cd) + FrameSize
          /\ k + (m + 1) = (k + m) + 1
      <3>1. Len(c) \in Nat /\ Len(cd) \in Nat
        BY <1>5, <2>2
      <3> QED BY ONLY <1>1, <2>3, <3>1, k \in Nat, m \in 0..Len(c)
    <2>7. FramesFrom(td)[k + 1] = found.out \o FramesFrom(td)[(k + m) + 1]
      BY <2>4, <2>5, <2>6
    <2>8. FramesFrom(cd)[m + 1] \in FrameLists
      BY <2>2, <2>6, FramesFromType
    <2> DEFINE out == found.out
               behind == FramesFrom(td)[(k + m) + 1]
    <2>9. out \in FrameLists /\ behind \in FrameLists
      BY <1>10, <2>5, <2>6, <2>8
    <2> HIDE DEF out, behind
    <2>10. (f \o out) \o behind = f \o (out \o behind)
      BY <2>9, FramesJoin
    <2> QED BY <2>1, <2>7, <2>10 DEF td, out, behind
  <1>15. f \o found.out \in FrameLists
    BY <1>10, FramesJoin
  <1>16. Parsed(t, rest, f \o found.out, k + m)
    <2>1. Behind(t, rest, k + m)
      BY <1>12, <1>13 DEF Behind
    <2> QED BY <1>5, <1>11, <1>12, <1>14, <1>15, <2>1 DEF Parsed
  <1>17. rest = SubSeq(c, found.next, Len(c))
    BY <1>9 DEF rest
  <1> QED BY <1>12, <1>16, <1>17 DEF t, c, found

LEMMA ParserStart == ParserInit => ParserInv
  <1> SUFFICES ASSUME ParserInit PROVE Parsed(stream, buffer, frames, 0)
    BY DEF ParserInv
  <1>1. buffer = <<>> /\ frames = <<>> /\ stream = <<>>
    BY DEF ParserInit
  <1>2. /\ stream \in Seq(Bytes) /\ buffer \in Seq(Bytes) /\ frames \in FrameLists
        /\ Len(stream) = 0 /\ Len(buffer) = 0
    BY <1>1, EmptySeq DEF FrameLists
  <1>3. FrameSize \in Nat /\ FrameSize > 0
    BY ParserAssumption
  <1>4. ASSUME NEW d \in Seq(Bytes)
        PROVE  FramesFrom(stream \o d)[1] = frames \o FramesFrom(stream \o d)[0 + 1]
    <2> DEFINE t == stream \o d
    <2>1. t \in Seq(Bytes) /\ Len(t) \in Nat
      BY <1>2, ConcatProperties, LenProperties
    <2> HIDE DEF t
    <2>2. 1 \in 1..Len(t) + FrameSize
      BY <1>3, <2>1
    <2>3. FramesFrom(t)[1] \in FrameLists
      BY <2>1, <2>2, FramesFromType
    <2>4. <<>> \o FramesFrom(t)[1] = FramesFrom(t)[1]
      BY <2>3, ConcatEmptySeq DEF FrameLists
    <2> QED BY <1>1, <2>4 DEF t
  <1>5. Behind(stream, buffer, 0)
    BY <1>1, <1>2 DEF Behind
  <1> QED BY <1>2, <1>3, <1>4, <1>5 DEF Parsed

LEMMA ParserStep == ParserInv /\ [ParserNext]_parser => ParserInv'
  <1> SUFFICES ASSUME ParserInv, [ParserNext]_parser PROVE ParserInv'
    OBVIOUS
  <1>1. CASE ParserNext
    <2>1. PICK n \in 1..MaxRead : \E data \in [1..n -> Bytes] : Feed(data)
      BY <1>1 DEF ParserNext
    <2>2. PICK data \in [1..n -> Bytes] : Feed(data)
      BY <2>1
    <2>3. data \in Seq(Bytes)
      <3>1. n \in Nat
        OBVIOUS
      <3> QED BY <3>1, SeqDef
    <2>4. PICK k \in Nat : Parsed(stream, buffer, frames, k)
      BY DEF ParserInv
    <2>5. /\ stream' = stream \o data
          /\ buffer' = SubSeq(buffer \o data, Scan(buffer \o data)[1].next, Len(buffer \o data))
          /\ frames' = frames \o Scan(buffer \o data)[1].out
      BY <2>2 DEF Feed
    <2>6. \E j \in Nat : Parsed(stream', buffer', frames', j)
      <3>1. stream \in Seq(Bytes) /\ buffer \in Seq(Bytes) /\ frames \in FrameLists
        BY <2>4 DEF Parsed
      <3>2. \E j \in Nat :
              Parsed(stream \o data,
                     SubSeq(buffer \o data, Scan(buffer \o data)[1].next, Len(buffer \o data)),
                     frames \o Scan(buffer \o data)[1].out, j)
        BY <2>3, <2>4, <3>1, FeedKeeps
      <3> QED BY <2>5, <3>2
    <2> QED BY <2>6 DEF ParserInv
  <1>2. CASE UNCHANGED parser
    BY <1>2 DEF parser, ParserInv
  <1> QED BY <1>1, <1>2

LEMMA ParserSound == ParserInv => FramesOfStream
  <1> SUFFICES ASSUME ParserInv PROVE frames = FramesFrom(stream)[1]
    BY DEF FramesOfStream
  <1>1. PICK k \in Nat : Parsed(stream, buffer, frames, k)
    BY DEF ParserInv
  <1>2. /\ stream \in Seq(Bytes) /\ frames \in FrameLists
        /\ Len(stream) = k + Len(buffer) /\ Len(buffer) \in Nat /\ Len(buffer) < FrameSize
        /\ Len(stream) \in Nat /\ FrameSize \in Nat /\ FrameSize > 0
    BY <1>1, LenProperties, ParserAssumption DEF Parsed, Behind
  <1>3. stream \o <<>> = stream /\ <<>> \in Seq(Bytes)
    BY <1>2, ConcatEmptySeq, EmptySeq
  <1>4. FramesFrom(stream)[1] = frames \o FramesFrom(stream)[k + 1]
    <2>1. FramesFrom(stream \o <<>>)[1] = frames \o FramesFrom(stream \o <<>>)[k + 1]
      BY <1>1, <1>3 DEF Parsed
    <2> QED BY <1>3, <2>1
  <1>5. FramesFrom(stream)[k + 1] = <<>>
    <2> DEFINE last == Len(stream) + 1
    <2>1. last \in 1..Len(stream) + 1 /\ k + 1 \in 1..last
          /\ last \in 1..Len(stream) + FrameSize /\ last > Len(stream)
      BY <1>2
    <2>2. \A i \in k + 1..last - 1 : ~IsFrame(stream, i)
      <3> TAKE i \in k + 1..last - 1
      <3>1. ~(i + FrameSize - 1 <= Len(stream))
        BY <1>2
      <3> QED BY <3>1 DEF IsFrame
    <2> HIDE DEF last
    <2>3. FramesFrom(stream)[k + 1] = FramesFrom(stream)[last]
      BY <1>2, <2>1, <2>2, NoFrameBefore
    <2>4. FramesFrom(stream)[last] = <<>>
      BY <1>2, <2>1, FramesFromIs
    <2> QED BY <2>3, <2>4
  <1> QED BY <1>2, <1>4, <1>5, ConcatEmptySeq DEF FrameLists

(* However the bytes were cut into reads, the parser returns the frames of *)
(* the stream (protocol.py: EspFrameParser.feed).                          *)
THEOREM ParserSafety == ParserSpec => []FramesOfStream
  BY ParserStart, ParserStep, ParserSound, PTL DEF ParserSpec

----------------------------------------------------------------------------
(* NavProfile.  Without harm one caller at a time is on its way, and the   *)
(* step it is at says which parts have its target already and which the    *)
(* profile before.                                                         *)

Stages == {"idle", "ground", "local", "global", "clear", "undo local", "undo ground"}
CallType == [at : Stages, target : Profiles, before : Profiles]

ProfileTypes ==
    /\ current \in Profiles
    /\ applied \in [Parts -> Profiles \cup {Mixed}]
    /\ call \in [Callers -> CallType]
    /\ late \subseteq Parts \X Profiles
    /\ harmed \in BOOLEAN

\* The parts that have the target of a call at this stage.
Switched(stage) ==
    CASE stage \in {"idle", "ground"}       -> {}
      [] stage \in {"local", "undo ground"} -> {"ground"}
      [] stage \in {"global", "undo local"} -> {"ground", "local"}
      [] stage = "clear"                    -> Parts

AloneInv == \A c, d \in Callers : call[c] # Unasked /\ call[d] # Unasked => c = d
PartsInv ==
    /\ (\A c \in Callers : call[c] = Unasked) => \A part \in Parts : applied[part] = current
    /\ \A c \in Callers : call[c] # Unasked =>
        /\ call[c].at # "idle"
        /\ call[c].before = current
        /\ \A part \in Parts :
              applied[part] = IF part \in Switched(call[c].at) THEN call[c].target ELSE current

\* Without harm no request that was given up is on its way.
ProfileInv == ProfileTypes /\ (~harmed => AloneInv /\ PartsInv /\ late = {})

(* All parts have the urban profile and nobody is on the way.              *)
LEMMA ProfileStart ==
  ASSUME Urban \in Profiles, ProfileInit
  PROVE  ProfileInv
  <1>1. ProfileTypes
    BY DEF ProfileInit, ProfileTypes, Unasked, CallType, Stages
  <1>2. AloneInv /\ PartsInv
    BY DEF ProfileInit, AloneInv, PartsInv
  <1>3. late = {}
    BY DEF ProfileInit
  <1>4. QED
    BY <1>1, <1>2, <1>3 DEF ProfileInv

(* A caller that goes on stays what it is, but for its stage.              *)
LEMMA GoesOn ==
  ASSUME ProfileTypes, NEW c \in Callers, NEW step \in Stages \ {"idle"}, Goes(c, step)
  PROVE  /\ call' = [call EXCEPT ![c] = [call[c] EXCEPT !.at = step]]
         /\ call' \in [Callers -> CallType]
         /\ call'[c].at = step
         /\ call'[c].target = call[c].target /\ call'[c].before = call[c].before
         /\ call'[c] # Unasked
         /\ \A d \in Callers \ {c} : call'[d] = call[d]
  <1>1. call' = [call EXCEPT ![c] = [call[c] EXCEPT !.at = step]]
    BY DEF Goes, Stages
  <1>2. call[c] \in CallType
    BY DEF ProfileTypes
  <1>3. QED
    BY <1>1, <1>2 DEF ProfileTypes, CallType, Unasked

(* A caller that ends.                                                     *)
LEMMA GoesHome ==
  ASSUME Urban \in Profiles, ProfileTypes, NEW c \in Callers, Goes(c, "idle")
  PROVE  /\ call' \in [Callers -> CallType]
         /\ call'[c] = Unasked
         /\ \A d \in Callers \ {c} : call'[d] = call[d]
  BY DEF Goes, ProfileTypes, Unasked, CallType, Stages

(* A call begins: with another on the way that is harm.                    *)
LEMMA BeginKeeps ==
  ASSUME Urban \in Profiles, ProfileInv, NEW c \in Callers, NEW p \in Profiles, BeginSwitch(c, p)
  PROVE  ProfileInv'
  <1> DEFINE new == [at |-> "ground", target |-> p, before |-> current]
  <1>1. /\ call' = [call EXCEPT ![c] = new] /\ call[c] = Unasked
        /\ current' = current /\ applied' = applied /\ late' = late /\ ~harmed
    BY DEF BeginSwitch
  <1>2. ProfileTypes
    BY DEF ProfileInv
  <1>3. new \in CallType /\ new # Unasked
    BY <1>2 DEF ProfileTypes, CallType, Stages, Unasked
  <1>4. ProfileTypes'
    <2>1. harmed' \in BOOLEAN
      BY <1>2, Zenon DEF BeginSwitch, ProfileTypes
    <2>2. QED
      BY <1>1, <1>2, <1>3, <2>1 DEF ProfileTypes
  <1>5. ASSUME ~harmed' PROVE AloneInv' /\ PartsInv'
    <2>1. \A d \in Callers : call[d] = Unasked
      BY <1>5 DEF BeginSwitch
    <2>2. \A part \in Parts : applied[part] = current
      BY <1>1, <2>1 DEF ProfileInv, PartsInv
    <2>3. call'[c] = new /\ \A d \in Callers \ {c} : call'[d] = Unasked
      BY <1>1, <1>2, <2>1 DEF ProfileTypes
    <2>4. AloneInv'
      BY <2>3, <1>3 DEF AloneInv
    <2>5. ASSUME NEW d \in Callers, call'[d] # Unasked
          PROVE  /\ call'[d].at # "idle" /\ call'[d].before = current'
                 /\ Switched(call'[d].at) = {}
      <3>1. d = c /\ call'[d] = new
        BY <2>3, <2>5
      <3>2. call'[d].at = "ground" /\ call'[d].before = current'
        BY <1>1, <3>1
      <3>3. QED
        BY <3>2 DEF Switched
    <2>6. PartsInv'
      BY <1>1, <1>3, <2>2, <2>3, <2>5 DEF PartsInv
    <2>7. QED
      BY <2>4, <2>6
  <1>6. QED
    BY <1>1, <1>4, <1>5 DEF ProfileInv

(* A part of it: what a caller's stage and the parts become when all goes  *)
(* as the caller believes.                                                 *)
LEMMA SwitchKeeps ==
  ASSUME Urban \in Profiles, AloneInv, PartsInv, ProfileTypes, ProfileTypes',
         NEW c \in Callers, call[c] # Unasked, call'[c] # Unasked, call'[c].at # "idle",
         call'[c].target = call[c].target, call'[c].before = call[c].before,
         \A d \in Callers \ {c} : call'[d] = call[d],
         current' = current,
         \A part \in Parts :
            applied'[part] = IF part \in Switched(call'[c].at) THEN call[c].target ELSE current
  PROVE  AloneInv' /\ PartsInv'
  <1>1. \A d \in Callers \ {c} : call'[d] = Unasked
    BY DEF AloneInv
  <1>2. AloneInv'
    BY <1>1 DEF AloneInv
  <1>3. call'[c].before = current'
    BY DEF PartsInv
  <1>4. PartsInv'
    BY <1>1, <1>3 DEF PartsInv
  <1>5. QED
    BY <1>2, <1>4

LEMMA EndKeeps ==
  ASSUME AloneInv, NEW c \in Callers, call[c] # Unasked, call'[c] = Unasked,
         \A d \in Callers \ {c} : call'[d] = call[d],
         \A part \in Parts : applied'[part] = current'
  PROVE  AloneInv' /\ PartsInv'
  BY DEF AloneInv, PartsInv

(* A request of a call: taken, refused, or harm.                           *)
LEMMA SetKeeps ==
  ASSUME Urban \in Profiles, ProfileInv, NEW c \in Callers, NEW part \in Parts, Set(c, part)
  PROVE  ProfileInv'
  <1>1. /\ ProfileTypes /\ call[c] \in CallType /\ call[c].at = part /\ current' = current
        /\ call[c] # Unasked
    BY DEF ProfileInv, ProfileTypes, Set, Unasked, Parts
  <1>2. /\ AfterTaken(part) \in Stages \ {"idle"}
        /\ AfterRefused(part) \in Stages
    BY DEF Parts, AfterTaken, AfterRefused, Stages
  <1>3. \/ Goes(c, AfterTaken(part)) \/ Goes(c, AfterRefused(part))
    BY DEF Set
  <1>4. call' \in [Callers -> CallType]
    <2>1. CASE AfterRefused(part) = "idle" /\ Goes(c, AfterRefused(part))
      BY <1>1, <2>1, GoesHome
    <2>2. CASE Goes(c, AfterTaken(part))
      BY <1>1, <1>2, <2>2, GoesOn
    <2>3. CASE AfterRefused(part) # "idle" /\ Goes(c, AfterRefused(part))
      BY <1>1, <1>2, <2>3, GoesOn
    <2>4. QED
      BY <1>3, <2>1, <2>2, <2>3
  <1>5. applied' \in [Parts -> Profiles \cup {Mixed}]
    BY <1>1 DEF Set, Taken, TakenInPart, GivenUp, ProfileTypes, CallType
  <1>6. harmed' \in BOOLEAN /\ late' \subseteq Parts \X Profiles
    <2>1. harmed' \in BOOLEAN
      BY <1>1, Zenon DEF Set, ProfileTypes
    <2>2. late' \subseteq Parts \X Profiles
      BY <1>1 DEF Set, Taken, TakenInPart, GivenUp, ProfileTypes, CallType
    <2>3. QED
      BY <2>1, <2>2
  <1>7. ProfileTypes'
    BY <1>1, <1>4, <1>5, <1>6 DEF ProfileTypes
  <1>8. ASSUME ~harmed' PROVE AloneInv' /\ PartsInv'
    <2>1. /\ \/ Taken(part, call[c].target) /\ Goes(c, AfterTaken(part))
             \/ applied' = applied /\ Goes(c, AfterRefused(part))
          /\ ~harmed
      BY <1>8 DEF Set
    <2>2. AloneInv /\ PartsInv
      BY <2>1 DEF ProfileInv
    <2>3. \A q \in Parts :
            applied[q] = IF q \in Switched(part) THEN call[c].target ELSE current
      BY <1>1, <2>2 DEF PartsInv
    <2>4. CASE Taken(part, call[c].target) /\ Goes(c, AfterTaken(part))
      <3>1. \A q \in Parts :
              applied'[q] = IF q \in Switched(AfterTaken(part)) THEN call[c].target ELSE current
        BY <1>1, <2>3, <2>4 DEF Taken, ProfileTypes, Parts, AfterTaken, Switched
      <3>2. /\ call'[c].at = AfterTaken(part) /\ call'[c].at # "idle" /\ call'[c] # Unasked
            /\ call'[c].target = call[c].target /\ call'[c].before = call[c].before
            /\ \A d \in Callers \ {c} : call'[d] = call[d]
        BY <1>1, <1>2, <2>4, GoesOn
      <3>3. QED
        BY <1>1, <1>7, <2>2, <3>1, <3>2, SwitchKeeps
    <2>5. CASE applied' = applied /\ Goes(c, AfterRefused(part)) /\ part = "ground"
      <3>1. Goes(c, "idle") /\ \A q \in Parts : applied'[q] = current'
        BY <1>1, <2>3, <2>5 DEF AfterRefused, Switched
      <3>2. QED
        BY <1>1, <2>2, <3>1, GoesHome, EndKeeps
    <2>6. CASE applied' = applied /\ Goes(c, AfterRefused(part)) /\ part # "ground"
      <3>1. /\ AfterRefused(part) \in Stages \ {"idle"}
            /\ Switched(AfterRefused(part)) = Switched(part)
        BY <2>6 DEF Parts, AfterRefused, Switched, Stages
      <3>2. /\ call'[c].at = AfterRefused(part) /\ call'[c].at # "idle" /\ call'[c] # Unasked
            /\ call'[c].target = call[c].target /\ call'[c].before = call[c].before
            /\ \A d \in Callers \ {c} : call'[d] = call[d]
        BY <1>1, <2>6, <3>1, GoesOn
      <3>3. QED
        BY <1>1, <1>7, <2>2, <2>3, <2>6, <3>1, <3>2, SwitchKeeps
    <2>7. QED
      BY <2>1, <2>4, <2>5, <2>6
  <1>9. ~harmed' => late' = {}
    BY <1>6 DEF ProfileInv, Set, Taken
  <1>10. QED
    BY <1>7, <1>8, <1>9 DEF ProfileInv

(* A step back: done, or harm.                                             *)
LEMMA UndoKeeps ==
  ASSUME Urban \in Profiles, ProfileInv, NEW c \in Callers, NEW part \in {"local", "ground"}, Undo(c, part)
  PROVE  ProfileInv'
  <1>1. /\ part \in Parts
        /\ call[c].at = (IF part = "local" THEN "undo local" ELSE "undo ground")
    <2>1. UndoStep["local"] = "undo local" /\ UndoStep["ground"] = "undo ground"
      BY DEF UndoStep
    <2>2. QED
      BY <2>1 DEF Undo, Parts
  <1>2. /\ ProfileTypes /\ call[c] \in CallType /\ current' = current /\ call[c] # Unasked /\ Goes(c, AfterUndone(part))
    <2>1. ProfileTypes /\ current' = current /\ Goes(c, AfterUndone(part))
      BY DEF ProfileInv, Undo
    <2>2. call[c].at # "idle"
      BY <1>1
    <2>3. QED
      BY <2>1, <2>2 DEF ProfileTypes, Unasked
  <1>3. call' \in [Callers -> CallType]
    <2>1. CASE part = "local"
      BY <1>2, <2>1, GoesOn DEF Stages, AfterUndone
    <2>2. CASE part # "local"
      BY <1>2, <2>2, GoesHome DEF AfterUndone
    <2>3. QED
      BY <2>1, <2>2
  <1>4. applied' \in [Parts -> Profiles \cup {Mixed}]
    BY <1>2 DEF Undo, Taken, TakenInPart, GivenUp, ProfileTypes, CallType
  <1>5. harmed' \in BOOLEAN /\ late' \subseteq Parts \X Profiles
    <2>1. harmed' \in BOOLEAN
      BY <1>2, Zenon DEF Undo, ProfileTypes
    <2>2. late' \subseteq Parts \X Profiles
      <3>1. <<part, call[c].before>> \in Parts \X Profiles
        BY <1>1, <1>2 DEF CallType
      <3>2. late' = late \/ late' = {<<part, call[c].before>>}
        BY DEF Undo, Taken, TakenInPart, GivenUp
      <3>3. QED
        BY <1>2, <3>1, <3>2 DEF ProfileTypes
    <2>3. QED
      BY <2>1, <2>2
  <1>6. ProfileTypes'
    BY <1>2, <1>3, <1>4, <1>5 DEF ProfileTypes
  <1>7. ASSUME ~harmed' PROVE AloneInv' /\ PartsInv'
    <2>1. Taken(part, call[c].before) /\ ~harmed
      BY <1>7 DEF Undo
    <2>2. AloneInv /\ PartsInv /\ call[c].before = current
      BY <1>2, <2>1 DEF ProfileInv, PartsInv
    <2>3. \A q \in Parts :
            applied[q] = IF q \in Switched(call[c].at) THEN call[c].target ELSE current
      BY <1>2, <2>2 DEF PartsInv
    <2>4. \A q \in Parts : applied'[q] = IF q = part THEN current ELSE applied[q]
      BY <1>2, <2>1, <2>2 DEF Taken, ProfileTypes
    <2>5. CASE part = "local"
      <3>1. \A q \in Parts :
              applied'[q] = IF q \in Switched("undo ground") THEN call[c].target ELSE current
        BY <1>1, <2>3, <2>4, <2>5 DEF Switched, Parts
      <3>2. /\ call'[c].at = "undo ground" /\ call'[c] # Unasked
            /\ call'[c].target = call[c].target /\ call'[c].before = call[c].before
            /\ \A d \in Callers \ {c} : call'[d] = call[d]
        BY <1>2, <2>5, GoesOn DEF Stages, AfterUndone
      <3>3. QED
        BY <1>2, <1>6, <2>2, <3>1, <3>2, SwitchKeeps
    <2>6. CASE part = "ground"
      <3>1. \A q \in Parts : applied'[q] = current'
        BY <1>1, <1>2, <2>3, <2>4, <2>6 DEF Switched, Parts
      <3>2. QED
        BY <1>2, <2>2, <2>6, <3>1, GoesHome, EndKeeps DEF AfterUndone
    <2>7. QED
      BY <2>5, <2>6
  <1>8. ~harmed' => late' = {}
    BY <1>5 DEF ProfileInv, Undo, Taken
  <1>9. QED
    BY <1>6, <1>7, <1>8 DEF ProfileInv

(* The end of a call: the profile reported becomes its target.             *)
LEMMA FinishKeeps ==
  ASSUME Urban \in Profiles, ProfileInv, NEW c \in Callers, Finish(c)
  PROVE  ProfileInv'
  <1>1. /\ ProfileTypes /\ call[c] \in CallType /\ call[c] # Unasked /\ Goes(c, "idle")
        /\ call[c].at = "clear" /\ current' = call[c].target
        /\ applied' = applied /\ late' = late /\ harmed' = harmed
    BY DEF ProfileInv, ProfileTypes, Finish, Unasked
  <1>2. ProfileTypes'
    BY <1>1, GoesHome DEF ProfileTypes, CallType
  <1>3. ASSUME ~harmed' PROVE AloneInv' /\ PartsInv'
    <2>1. AloneInv /\ PartsInv
      BY <1>1, <1>3 DEF ProfileInv
    <2>2. \A q \in Parts : applied'[q] = current'
      BY <1>1, <2>1 DEF PartsInv, Switched
    <2>3. QED
      BY <1>1, <2>1, <2>2, GoesHome, EndKeeps
  <1>4. QED
    BY <1>1, <1>2, <1>3 DEF ProfileInv

(* A request served late changes nothing while there is no harm.           *)
LEMMA LateKeeps ==
  ASSUME ProfileInv, ServedLate
  PROVE  ProfileInv'
  <1>1. late # {} /\ late' \subseteq late /\ current' = current /\ call' = call /\ harmed' = harmed
    BY DEF ServedLate
  <1>2. applied' \in [Parts -> Profiles \cup {Mixed}]
    BY DEF ProfileInv, ProfileTypes, ServedLate
  <1>3. QED
    BY <1>1, <1>2 DEF ProfileInv, ProfileTypes

LEMMA ProfileStep ==
  ASSUME Urban \in Profiles, ProfileInv, [ProfileNext]_profile
  PROVE  ProfileInv'
  <1>1. CASE ServedLate
    BY <1>1, LateKeeps
  <1>2. ASSUME NEW c \in Callers, NEW p \in Profiles, BeginSwitch(c, p) PROVE ProfileInv'
    BY <1>2, BeginKeeps
  <1>3. ASSUME NEW c \in Callers, NEW part \in Parts, Set(c, part) PROVE ProfileInv'
    BY <1>3, SetKeeps
  <1>4. ASSUME NEW c \in Callers, NEW part \in DOMAIN UndoStep, Undo(c, part) PROVE ProfileInv'
    <2>1. DOMAIN UndoStep = {"local", "ground"}
      BY DEF UndoStep
    <2>2. QED
      BY <1>4, <2>1, UndoKeeps
  <1>5. ASSUME NEW c \in Callers, Finish(c) PROVE ProfileInv'
    BY <1>5, FinishKeeps
  <1>6. CASE UNCHANGED profile
    BY <1>6 DEF profile, ProfileInv, ProfileTypes, AloneInv, PartsInv
  <1>7. QED
    BY <1>1, <1>2, <1>3, <1>4, <1>5, <1>6 DEF ProfileNext

(* Between two calls of _apply_navigation_profile the filter and both      *)
(* costmaps have the values of the profile reported, for any callers and   *)
(* profiles, unless there was harm.                                        *)
THEOREM ProfileSafety ==
  ASSUME Urban \in Profiles
  PROVE  ProfileSpec => []ProfileIsWhole
  <1>1. ProfileInit => ProfileInv
    BY ProfileStart
  <1>2. ProfileInv /\ [ProfileNext]_profile => ProfileInv'
    BY ProfileStep
  <1>3. ProfileInv => ProfileIsWhole
    BY DEF ProfileInv, PartsInv, ProfileIsWhole
  <1>4. QED
    BY <1>1, <1>2, <1>3, PTL DEF ProfileSpec
=============================================================================
