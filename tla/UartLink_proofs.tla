-------------------------- MODULE UartLink_proofs --------------------------
(***************************************************************************)
(* Proofs about UartLink, for any speed limits, deadbands, brakes and      *)
(* messages, and about CommandChain, for any depth of its topic.           *)
(*                                                                         *)
(* The inductive invariant follows the setters: after the first k of them  *)
(* the first k fields of the shared state are those of the command being   *)
(* applied; a frame that was taken keeps what was true when it was taken;  *)
(* and once stop() waits for no thread the state stays safe.  The chain    *)
(* adds that the newest message in the topic says the last word.           *)
(***************************************************************************)
EXTENDS CommandChain, TLAPS

(* Which fields of the state are those of the target.                      *)
SettersInv ==
    /\ step # 1 => state.drive = target.drive
    /\ step \notin {1, 2} => state.estop = target.estop
    /\ step \notin {1, 2, 3} => state.speed = target.speed
    /\ step = 0 => state.brake = Clamp(target.brake, 0, 100)

(* A command that is applied as an emergency stop is a complete one.       *)
TargetInv == target.estop => ~target.drive /\ target.brake >= EstopBrake

(* What a frame f carries when it was taken before ("old"), while ("part") *)
(* or after ("all") the target was written.                                *)
Carries(f, holds) ==
    /\ holds # "old" /\ Moves(f) => Moves(target)
    /\ holds = "all" /\ target.estop =>
          f.estop /\ ~f.drive /\ f.brake >= Clamp(EstopBrake, 0, 100)

FramesInv == Carries(tx.frame, tx.holds) /\ Carries(wire, sent)

(* While stop() sends its frames the thread has ended and nobody writes.   *)
StopInv ==
    /\ stopping # "no" => target = SafeCommand /\ state = SafeCommand /\ step = 0
    /\ stopping \in {"snapshot", "closed"} => tx.pc = "ended"
    /\ safeOk => stopping \in {"snapshot", "closed"} /\ wire = Frame(SafeCommand)

IInv == TypeOK /\ SettersInv /\ TargetInv /\ FramesInv /\ StopInv

----------------------------------------------------------------------------
(* Clamping stays within its limits and keeps what is within them.         *)
LEMMA ClampRange ==
  ASSUME NEW v \in Int, NEW low \in Int, NEW high \in Int, low <= high
  PROVE  /\ Clamp(v, low, high) \in low..high
         /\ v \in low..high => Clamp(v, low, high) = v
  BY DEF Clamp

(* Clamping keeps the order of its arguments.                              *)
LEMMA ClampOrder ==
  ASSUME NEW v \in Int, NEW w \in Int, v <= w
  PROVE  Clamp(v, 0, 100) <= Clamp(w, 0, 100)
  BY DEF Clamp

(* The safe command is a command.                                          *)
LEMMA SafeType == SafeCommand \in Command
  BY LinkAssumption DEF SafeCommand, Command, Speeds, Steers

(* The speed shaping stays within the limits.                              *)
LEMMA SpeedRange ==
  ASSUME NEW linear \in Int
  PROVE  SpeedOf(linear) \in Speeds
  BY LinkAssumption DEF SpeedOf, Speeds, Clamp

(* A message becomes a command within the limits.                          *)
LEMMA ReceiveType ==
  ASSUME NEW linear \in Linears, NEW steer \in Steers, NEW brakePct \in Brakes
  PROVE  CommandFromCmdVel(linear, steer, brakePct) \in Command
  <1>1. SpeedOf(linear) \in Speeds /\ 0 \in Speeds
    BY SpeedRange, LinkAssumption DEF Speeds
  <1>2. Clamp(brakePct, 0, 100) \in 0..100
    <2>1. brakePct \in 0..255
      BY LinkAssumption
    <2> QED BY <2>1 DEF Clamp
  <1> QED
    BY <1>1, <1>2, LinkAssumption DEF CommandFromCmdVel, Command, Steers

(* The command a tick applies: its fields, and that an emergency stop is   *)
(* complete.                                                               *)
LEMMA EffectiveType ==
  ASSUME cmd \in Command, fresh \in BOOLEAN
  PROVE  /\ Effective \in [drive : BOOLEAN, estop : BOOLEAN, speed : Speeds,
                           steer : Steers, brake : Int]
         /\ Effective.estop => ~Effective.drive /\ Effective.brake >= EstopBrake
  <1> DEFINE chosen == IF fresh THEN cmd ELSE SafeCommand
  <1>1. chosen \in Command
    BY SafeType
  <1>2. 0 \in Speeds
    BY LinkAssumption DEF Speeds
  <1>3. Effective = IF chosen.estop
                    THEN [drive |-> FALSE, estop |-> TRUE, speed |-> 0, steer |-> "centre",
                          brake |-> IF chosen.brake > EstopBrake THEN chosen.brake
                                    ELSE EstopBrake]
                    ELSE chosen
    BY DEF Effective
  <1> HIDE DEF chosen
  <1>4. CASE chosen.estop
    <2>1. (IF chosen.brake > EstopBrake THEN chosen.brake ELSE EstopBrake) \in Int
      BY <1>1, LinkAssumption DEF Command
    <2>2. (IF chosen.brake > EstopBrake THEN chosen.brake ELSE EstopBrake) >= EstopBrake
      BY <1>1, LinkAssumption DEF Command
    <2> QED BY <1>2, <1>3, <1>4, <2>1, <2>2 DEF Steers
  <1>5. CASE ~chosen.estop
    BY <1>1, <1>3, <1>5 DEF Command
  <1> QED BY <1>4, <1>5

(* The limit of the wire is a number; nothing else is used of it.          *)
LEMMA WireNat == WireLimit \in Nat
  BY DEF WireLimit

(* The magnitude that is sent fits, and is zero for a zero speed.          *)
LEMMA Magnitude ==
  ASSUME NEW v \in Int, WireLimit \in Nat
  PROVE  /\ Clamp(Abs(v), 0, WireLimit) \in 0..WireLimit
         /\ v = 0 => Clamp(Abs(v), 0, WireLimit) = 0
  <1>1. PICK w \in Int : w = Abs(v) /\ (v = 0 => w = 0)
    BY DEF Abs
  <1>2. Clamp(w, 0, WireLimit) \in 0..WireLimit /\ (w = 0 => Clamp(w, 0, WireLimit) = 0)
    BY DEF Clamp
  <1> QED BY <1>1, <1>2

(* A frame has the fields of the state it was taken from, and moves the    *)
(* vehicle only if the state does.                                         *)
LEMMA FrameOf ==
  ASSUME NEW s \in Command
  PROVE  /\ Frame(s) \in Frames
         /\ Frame(s).drive = s.drive /\ Frame(s).estop = s.estop
         /\ Frame(s).brake = s.brake
         /\ Moves(Frame(s)) => Moves(s)
  <1> DEFINE p == Clamp(Abs(s.speed), 0, WireLimit)
             b == Clamp(s.brake, 0, 100)
             r == s.speed < 0
  <1>1. /\ s.speed \in Int /\ s.brake \in 0..100 /\ s.steer \in Steers
        /\ s.drive \in BOOLEAN /\ s.estop \in BOOLEAN
    BY LinkAssumption DEF Command, Speeds
  <1>2. p \in 0..WireLimit /\ (s.speed = 0 => p = 0)
    BY <1>1, WireNat, Magnitude
  <1>3. b = s.brake /\ b \in 0..100
    BY <1>1 DEF Clamp
  <1>4. r \in BOOLEAN
    BY <1>1
  <1>5. Frame(s) = [drive |-> s.drive, estop |-> s.estop, reverse |-> r,
                    speed |-> p, steer |-> s.steer, brake |-> b]
    BY DEF Frame
  <1> HIDE DEF p, b, r
  <1>6. Frame(s) \in Frames
    BY <1>1, <1>2, <1>3, <1>4, <1>5 DEF Frames
  <1>7. /\ Frame(s).drive = s.drive /\ Frame(s).estop = s.estop
        /\ Frame(s).brake = s.brake /\ Frame(s).speed = p
    BY <1>3, <1>5
  <1>8. Moves(Frame(s)) => Moves(s)
    BY <1>2, <1>7, Zenon DEF Moves
  <1> QED BY <1>6, <1>7, <1>8

----------------------------------------------------------------------------
(* What one setter does: the field of its turn takes the target's value.   *)
LEMMA ApplyEffect ==
  ASSUME TypeOK, Apply
  PROVE  /\ state' \in Command /\ step' \in 0..5
         /\ step = 1 => step' = 2 /\ state' = [state EXCEPT !.drive = target.drive]
         /\ step = 2 => step' = 3 /\ state' = [state EXCEPT !.estop = target.estop]
         /\ step = 3 => step' = 4 /\ state' = [state EXCEPT !.speed = target.speed]
         /\ step = 4 => step' = 5 /\ state' = [state EXCEPT !.steer = target.steer]
         /\ step = 5 => step' = 0 /\ state' = [state EXCEPT !.brake =
                                                 Clamp(target.brake, 0, 100)]
  <1>1. /\ state \in Command /\ target.drive \in BOOLEAN /\ target.estop \in BOOLEAN
        /\ target.speed \in Speeds /\ target.steer \in Steers /\ target.brake \in Int
    BY DEF TypeOK
  <1>2. step \in 1..5 /\ step' = (step + 1) % 6
    BY DEF TypeOK, Apply
  <1>3. state' = [state EXCEPT ![Setters[step]] = Stored(Setters[step], target[Setters[step]])]
    BY DEF Apply
  <1>4. CASE step = 1
    <2>1. Setters[step] = "drive" /\ Stored("drive", target.drive) = target.drive
      BY <1>4 DEF Setters, Stored
    <2>2. state' = [state EXCEPT !.drive = target.drive]
      BY <1>3, <2>1
    <2> QED BY <1>1, <1>2, <1>4, <2>2 DEF Command
  <1>5. CASE step = 2
    <2>1. Setters[step] = "estop" /\ Stored("estop", target.estop) = target.estop
      BY <1>5 DEF Setters, Stored
    <2>2. state' = [state EXCEPT !.estop = target.estop]
      BY <1>3, <2>1
    <2> QED BY <1>1, <1>2, <1>5, <2>2 DEF Command
  <1>6. CASE step = 3
    <2>1. Clamp(target.speed, -MaxReverse, MaxSpeed) = target.speed
      BY <1>1, LinkAssumption DEF Clamp, Speeds
    <2>2. Setters[step] = "speed" /\ Stored("speed", target.speed) = target.speed
      BY <1>6, <2>1 DEF Setters, Stored
    <2>3. state' = [state EXCEPT !.speed = target.speed]
      BY <1>3, <2>2
    <2> QED BY <1>1, <1>2, <1>6, <2>3 DEF Command
  <1>7. CASE step = 4
    <2>1. Setters[step] = "steer" /\ Stored("steer", target.steer) = target.steer
      BY <1>7 DEF Setters, Stored
    <2>2. state' = [state EXCEPT !.steer = target.steer]
      BY <1>3, <2>1
    <2> QED BY <1>1, <1>2, <1>7, <2>2 DEF Command
  <1>8. CASE step = 5
    <2>1. /\ Setters[step] = "brake"
          /\ Stored("brake", target.brake) = Clamp(target.brake, 0, 100)
      BY <1>8 DEF Setters, Stored
    <2>2. state' = [state EXCEPT !.brake = Clamp(target.brake, 0, 100)]
      BY <1>3, <2>1
    <2>3. Clamp(target.brake, 0, 100) \in 0..100
      BY <1>1 DEF Clamp
    <2> QED BY <1>1, <1>2, <1>8, <2>2, <2>3 DEF Command
  <1> QED BY <1>2, <1>4, <1>5, <1>6, <1>7, <1>8

(* A mixture of two commands moves the vehicle only if the newer one does. *)
LEMMA TornLemma ==
  ASSUME TypeOK, SettersInv
  PROVE  TornStateNeverMoves
  <1> SUFFICES ASSUME Committed, Moves(state)
               PROVE  Moves(target)
    BY DEF TornStateNeverMoves
  <1>1. target.drive
    BY Zenon DEF Committed, Moves, SettersInv
  <1>2. step \notin {1, 2, 3}
    BY <1>1, Zenon DEF Committed
  <1>3. step \notin {1, 2}
    BY <1>2
  <1> QED BY <1>1, <1>2, <1>3, Zenon DEF Moves, SettersInv

(* A frame taken now carries what it should.                               *)
LEMMA FrameCarries ==
  ASSUME IInv
  PROVE  Carries(Frame(state), Share)
  <1>1. /\ state \in Command /\ TornStateNeverMoves /\ SettersInv /\ TargetInv
        /\ target.brake \in Int
    BY TornLemma DEF IInv, TypeOK
  <1>2. /\ Frame(state).drive = state.drive /\ Frame(state).estop = state.estop
        /\ Frame(state).brake = state.brake
        /\ Moves(Frame(state)) => Moves(state)
    BY <1>1, FrameOf
  <1>3. ASSUME Share # "old", Moves(Frame(state))
        PROVE  Moves(target)
    BY <1>1, <1>2, <1>3 DEF Share, Committed, TornStateNeverMoves
  <1>4. ASSUME Share = "all", target.estop
        PROVE  /\ Frame(state).estop /\ ~Frame(state).drive
               /\ Frame(state).brake >= Clamp(EstopBrake, 0, 100)
    <2>1. step = 0
      BY <1>4 DEF Share
    <2>2. state.estop /\ ~state.drive
      <3>1. state.drive = target.drive /\ state.estop = target.estop
        BY <1>1, <2>1 DEF SettersInv
      <3>2. target.estop /\ ~target.drive
        BY <1>1, <1>4, Zenon DEF TargetInv
      <3> QED BY <3>1, <3>2, Zenon
    <2>3. state.brake >= Clamp(EstopBrake, 0, 100)
      <3>1. target.brake >= EstopBrake /\ state.brake = Clamp(target.brake, 0, 100)
        BY <1>1, <1>4, <2>1 DEF SettersInv, TargetInv
      <3>2. Clamp(EstopBrake, 0, 100) <= Clamp(target.brake, 0, 100)
        BY <1>1, <3>1, ClampOrder, LinkAssumption
      <3>3. Clamp(EstopBrake, 0, 100) \in Int /\ Clamp(target.brake, 0, 100) \in Int
        BY <1>1, LinkAssumption DEF Clamp
      <3> QED BY <3>1, <3>2, <3>3
    <2> QED BY <1>2, <2>2, <2>3
  <1> QED BY <1>3, <1>4 DEF Carries

----------------------------------------------------------------------------
(* The initial states satisfy the invariant.                               *)
LEMMA InitIInv == Init => IInv
  <1> SUFFICES ASSUME Init PROVE IInv
    OBVIOUS
  <1>1. /\ SafeCommand \in Command /\ Frame(SafeCommand) \in Frames
    BY SafeType, FrameOf
  <1>2. TypeOK
    <2>1. target \in [drive : BOOLEAN, estop : BOOLEAN, speed : Speeds,
                      steer : Steers, brake : Int]
      BY <1>1 DEF Init, Command
    <2>2. tx \in [pc : {"idle", "write", "ended"}, frame : Frames,
                  holds : {"old", "part", "all"}]
      BY <1>1 DEF Init, Resting
    <2>3. cmd \in Command /\ fresh \in BOOLEAN /\ state \in Command /\ safeOk \in BOOLEAN
      BY <1>1, Zenon DEF Init
    <2>4. step \in 0..5 /\ left \in 0..3
      BY DEF Init
    <2>5. /\ stopping \in {"no", "event", "join", "snapshot", "write", "closed"}
          /\ sent \in {"old", "part", "all"} /\ wire \in Frames
      BY <1>1 DEF Init
    <2> QED BY <2>1, <2>2, <2>3, <2>4, <2>5, Zenon DEF TypeOK
  <1>3. SettersInv /\ TargetInv
    BY DEF Init, SettersInv, TargetInv, SafeCommand, Clamp
  <1>4. FramesInv
    BY DEF Init, Resting, FramesInv, Carries
  <1>5. StopInv
    BY DEF Init, StopInv
  <1> QED BY <1>2, <1>3, <1>4, <1>5 DEF IInv

(* Types. *)
LEMMA TypeStep ==
  ASSUME IInv, Next
  PROVE  TypeOK'
  <1>1. TypeOK /\ state \in Command
    BY DEF IInv, TypeOK
  <1>2. SafeCommand \in Command /\ Frame(SafeCommand) \in Frames /\ Frame(state) \in Frames
    BY <1>1, SafeType, FrameOf
  <1>3. SafeCommand \in [drive : BOOLEAN, estop : BOOLEAN, speed : Speeds,
                         steer : Steers, brake : Int]
    BY <1>2 DEF Command
  <1>4. Share \in {"old", "part", "all"}
    BY DEF Share
  <1>5. ASSUME NEW linear \in Linears, NEW steer \in Steers, NEW brakePct \in Brakes,
               Receive(linear, steer, brakePct)
        PROVE  TypeOK'
    BY <1>1, <1>5, ReceiveType DEF TypeOK, Receive
  <1>6. CASE CmdAges
    BY <1>1, <1>6 DEF TypeOK, CmdAges
  <1>7. CASE Tick
    BY <1>1, <1>7, EffectiveType DEF TypeOK, Tick
  <1>8. CASE Apply
    BY <1>1, <1>8, ApplyEffect DEF TypeOK, Apply
  <1>9. CASE TxSteps \/ TxWrite
    BY <1>1, <1>2, <1>4, <1>9
       DEF TypeOK, TxSteps, TxSnapshot, TxWrite, TxFails, TxEnds, Resting, node
  <1>10. CASE Stop
    BY <1>1, <1>2, <1>3, <1>10 DEF TypeOK, Stop
  <1>11. CASE StopEvent \/ StopJoined \/ StopCloses
    BY <1>1, <1>2, <1>11 DEF TypeOK, StopEvent, StopJoined, StopCloses, node
  <1>12. CASE SafeFrame
    <2>1. left' \in 0..3
      BY <1>1, <1>12 DEF TypeOK, SafeFrame
    <2>2. wire' \in Frames
      BY <1>1, <1>2, <1>12 DEF TypeOK, SafeFrame
    <2>3. sent' \in {"old", "part", "all"}
      BY <1>1, <1>4, <1>12 DEF TypeOK, SafeFrame
    <2>4. safeOk' \in BOOLEAN
      BY <1>1, <1>12, Zenon DEF TypeOK, SafeFrame
    <2>5. UNCHANGED <<cmd, fresh, target, step, state, tx, stopping>>
      BY <1>12 DEF SafeFrame, node
    <2> QED BY <1>1, <2>1, <2>2, <2>3, <2>4, <2>5 DEF TypeOK
  <1> QED BY <1>5, <1>6, <1>7, <1>8, <1>9, <1>10, <1>11, <1>12
          DEF Next, NodeSteps, StopSteps

(* The setters, and the completeness of an emergency stop.                 *)
LEMMA SettersStep ==
  ASSUME IInv, Next
  PROVE  SettersInv' /\ TargetInv'
  <1>1. TypeOK /\ SettersInv /\ TargetInv /\ StopInv
    BY DEF IInv
  <1>2. CASE UNCHANGED <<target, step, state>>
    BY <1>1, <1>2 DEF SettersInv, TargetInv
  <1>3. CASE Tick
    <2>1. target' = Effective /\ step' = 1
      BY <1>3 DEF Tick
    <2>2. Effective.estop => ~Effective.drive /\ Effective.brake >= EstopBrake
      BY <1>1, EffectiveType DEF TypeOK
    <2>3. TargetInv'
      BY <2>1, <2>2, Zenon DEF TargetInv
    <2> QED BY <2>1, <2>3 DEF SettersInv
  <1>4. CASE Apply
    <2>1. target' = target /\ TargetInv'
      BY <1>1, <1>4 DEF Apply, TargetInv
    <2>2. state \in Command /\ step \in 1..5
      BY <1>1, <1>4 DEF TypeOK, Apply
    <2>3. SettersInv'
      BY <1>1, <1>4, <2>1, <2>2, ApplyEffect DEF SettersInv, Command
    <2> QED BY <2>1, <2>3
  <1>5. CASE Stop
    <2>1. target' = SafeCommand /\ state' = SafeCommand
      BY <1>5 DEF Stop
    <2> QED BY <2>1 DEF SettersInv, TargetInv, SafeCommand, Clamp
  <1>6. CASE StopJoined
    <2>1. state' = state /\ target' = target /\ step' = step
      BY <1>1, <1>6 DEF StopJoined, StopInv, node
    <2> QED BY <1>1, <2>1 DEF SettersInv, TargetInv
  <1>7. ASSUME NEW linear \in Linears, NEW steer \in Steers, NEW brakePct \in Brakes,
               Receive(linear, steer, brakePct)
        PROVE  UNCHANGED <<target, step, state>>
    BY <1>7 DEF Receive
  <1>8. CASE CmdAges \/ TxSteps \/ TxWrite \/ StopEvent \/ SafeFrame \/ StopCloses
    BY <1>2, <1>8 DEF CmdAges, TxSteps, TxSnapshot, TxWrite, TxFails, TxEnds,
                      StopEvent, SafeFrame, StopCloses, node
  <1> QED BY <1>2, <1>3, <1>4, <1>5, <1>6, <1>7, <1>8 DEF Next, NodeSteps, StopSteps

(* What the frames carry.                                                  *)
LEMMA FramesStep ==
  ASSUME IInv, Next
  PROVE  FramesInv'
  <1>1. TypeOK /\ FramesInv /\ Carries(Frame(state), Share)
    BY FrameCarries DEF IInv
  <1>2. CASE UNCHANGED <<target, tx, wire, sent>>
    BY <1>1, <1>2 DEF FramesInv, Carries, Moves
  <1>3. CASE sent' = "old" /\ tx' = [tx EXCEPT !.holds = "old"]
    <2>1. tx'.holds = "old"
      BY <1>1, <1>3 DEF TypeOK
    <2> QED BY <1>3, <2>1 DEF FramesInv, Carries
  <1>4. CASE TxSnapshot
    <2>1. /\ tx'.frame = Frame(state) /\ tx'.holds = Share
          /\ UNCHANGED <<target, wire, sent>>
      BY <1>4 DEF TxSnapshot, node
    <2> QED BY <1>1, <2>1 DEF FramesInv, Carries, Moves
  <1>5. CASE TxWrite
    <2>1. /\ wire' = tx.frame /\ sent' = tx.holds /\ target' = target
          /\ tx'.holds = "old"
      BY <1>5 DEF TxWrite, Resting, node
    <2> QED BY <1>1, <2>1 DEF FramesInv, Carries, Moves
  <1>6. CASE TxFails \/ TxEnds
    <2>1. /\ UNCHANGED <<target, wire, sent>>
          /\ tx'.holds = "old" \/ (tx'.frame = tx.frame /\ tx'.holds = tx.holds)
      BY <1>1, <1>6 DEF TxFails, TxEnds, Resting, node, TypeOK
    <2> QED BY <1>1, <2>1 DEF FramesInv, Carries, Moves
  <1>7. CASE SafeFrame
    <2>1. /\ UNCHANGED <<target, tx>>
          /\ \/ wire' = Frame(state) /\ sent' = Share
             \/ UNCHANGED <<wire, sent>>
      BY <1>7 DEF SafeFrame, node
    <2> QED BY <1>1, <2>1 DEF FramesInv, Carries, Moves
  <1>8. ASSUME NEW linear \in Linears, NEW steer \in Steers, NEW brakePct \in Brakes,
               Receive(linear, steer, brakePct)
        PROVE  UNCHANGED <<target, tx, wire, sent>>
    BY <1>8 DEF Receive
  <1>9. CASE CmdAges \/ Apply \/ StopEvent \/ StopJoined \/ StopCloses
    BY <1>2, <1>9 DEF CmdAges, Apply, StopEvent, StopJoined, StopCloses, node
  <1>10. CASE Tick \/ Stop
    BY <1>3, <1>10 DEF Tick, Stop
  <1> QED BY <1>2, <1>4, <1>5, <1>6, <1>7, <1>8, <1>9, <1>10
          DEF Next, NodeSteps, TxSteps, StopSteps

(* Shutdown.                                                               *)
LEMMA StopStep ==
  ASSUME IInv, Next
  PROVE  StopInv'
  <1>1. TypeOK /\ StopInv
    BY DEF IInv
  <1>2. CASE UNCHANGED <<target, step, state, tx, wire, stopping, safeOk>>
    BY <1>1, <1>2 DEF StopInv
  <1>3. CASE stopping = "no" /\ UNCHANGED <<stopping, safeOk>>
    BY <1>1, <1>3 DEF StopInv
  <1>4. ASSUME NEW linear \in Linears, NEW steer \in Steers, NEW brakePct \in Brakes,
               Receive(linear, steer, brakePct)
        PROVE  StopInv'
    BY <1>3, <1>4 DEF Receive
  <1>5. CASE CmdAges \/ Tick \/ Apply
    BY <1>2, <1>3, <1>5 DEF CmdAges, Tick, Apply
  <1>6. CASE TxSteps \/ TxWrite
    <2>1. /\ UNCHANGED <<target, step, state, stopping, safeOk>>
          /\ tx.pc = "ended" => FALSE
      BY <1>6 DEF TxSteps, TxSnapshot, TxWrite, TxFails, TxEnds, node
    <2> QED BY <1>1, <2>1 DEF StopInv
  <1>7. CASE Stop
    BY <1>1, <1>7 DEF StopInv, Stop
  <1>8. CASE StopEvent \/ StopJoined
    BY <1>1, <1>8 DEF StopInv, StopEvent, StopJoined, node
  <1>9. CASE SafeFrame \/ StopCloses
    BY <1>1, <1>9 DEF StopInv, SafeFrame, StopCloses, node
  <1> QED BY <1>4, <1>5, <1>6, <1>7, <1>8, <1>9 DEF Next, NodeSteps, StopSteps

----------------------------------------------------------------------------
(* Every step keeps the invariant.                                         *)
LEMMA InvStep ==
  ASSUME IInv, [Next]_vars
  PROVE  IInv'
  <1>1. CASE Next
    BY <1>1, TypeStep, SettersStep, FramesStep, StopStep DEF IInv
  <1>2. CASE UNCHANGED vars
    BY <1>2 DEF vars, node, IInv, TypeOK, SettersInv, TargetInv, FramesInv,
                Carries, Moves, StopInv
  <1> QED BY <1>1, <1>2

(* Every behaviour keeps the invariant.                                    *)
THEOREM Invariance == Spec => []IInv
  BY InitIInv, InvStep, PTL DEF Spec

(* The variables keep their types: among them that the shared state and    *)
(* the frames stay within the speed and brake limits, whatever is received *)
(* and whatever emergency brake is configured.                             *)
THEOREM TypeSafety == Spec => []TypeOK
  BY Invariance, PTL DEF IInv

(* While apply_command runs, a mixture of two commands never moves the     *)
(* vehicle against a stop that has begun to take hold.                     *)
THEOREM TornSafety == Spec => []TornStateNeverMoves
  <1>1. IInv => TornStateNeverMoves
    BY TornLemma DEF IInv
  <1> QED BY <1>1, Invariance, PTL

(* The same of the frames that reach the wire.                             *)
THEOREM StopHeard == Spec => []StopIsHeard
  <1>1. IInv => StopIsHeard
    BY DEF IInv, FramesInv, Carries, StopIsHeard
  <1> QED BY <1>1, Invariance, PTL

(* A frame taken after a whole tick carries the whole emergency stop.      *)
THEOREM WholeTick == Spec => []WholeTickIsSent
  <1>1. IInv => WholeTickIsSent
    BY Zenon DEF IInv, FramesInv, Carries, WholeTickIsSent
  <1> QED BY <1>1, Invariance, PTL

(* After a shutdown that got any safe frame through the last frame is one. *)
THEOREM StopSafe == Spec => []StopEndsSafe
  <1>1. IInv => StopEndsSafe
    BY DEF IInv, StopInv, StopEndsSafe
  <1> QED BY <1>1, Invariance, PTL

----------------------------------------------------------------------------
(* CommandChain, for any messages, any AUTO motions and any depth of the   *)
(* topic.  To the invariant of the link it adds which message speaks for   *)
(* nav_command_server's last word: the newest one of the topic or, when    *)
(* the topic is empty, the command that was heard last.                    *)

(* The motions a frame or a command of this speed may show for a word.     *)
Agrees(speed, w) ==
    /\ speed > 0 => w \in {"manual", "autoForward"}
    /\ speed < 0 => w \in {"manual", "autoReverse"}

CalmInv == mode = "calm" => word = "still" /\ late = "nothing"

QueueInv ==
    /\ queue \in Seq(Twists) /\ Len(queue) <= Depth
    /\ queue # <<>> => queue[Len(queue)].word = word

HeardInv == queue = <<>> => Agrees(cmd.speed, word)

(* A frame taken since the target took hold goes where the target goes.    *)
Directed(f, holds) == holds # "old" /\ Moves(f) => (f.reverse <=> target.speed < 0)

DirectionInv == Directed(tx.frame, tx.holds) /\ Directed(wire, sent)

ChainInv == IInv /\ Gate!TypeOK /\ CalmInv /\ QueueInv /\ HeardInv /\ DirectionInv

(* The speed shaping never turns the direction round.                      *)
LEMMA SpeedSign ==
  ASSUME NEW linear \in Int
  PROVE  /\ SpeedOf(linear) > 0 => linear > 0
         /\ SpeedOf(linear) < 0 => linear < 0
  BY LinkAssumption DEF SpeedOf, Clamp

(* A message becomes a command that agrees with its word.                  *)
LEMMA HeardAgrees ==
  ASSUME NEW t \in Twists
  PROVE  Agrees(CommandFromCmdVel(t.linear, t.steer, t.brake).speed, t.word)
  <1> DEFINE c == CommandFromCmdVel(t.linear, t.steer, t.brake)
  <1>1. /\ t.linear \in Int
        /\ t.word \in {"manual", "still", "autoForward", "autoReverse"}
        /\ t.word = "still" => t.linear = 0
        /\ t.word = "autoForward" => t.linear > 0
        /\ t.word = "autoReverse" => t.linear < 0
    <2>1. t \in Twist /\ Linears \subseteq Int /\ Brakes \subseteq Int
      BY LinkAssumption, ChainAssumption
    <2>2. t.linear \in Int /\ t.word \in AutoMotions \cup {"manual"} \cup {"still"}
      BY <2>1 DEF Twist, Gate!Motions, Gate!Still
    <2>3. t.word = "still" => t.linear = 0
      BY ChainAssumption DEF Gate!Still
    <2> QED BY <2>2, <2>3, ChainAssumption
  <1>2. c.speed = 0 \/ c.speed = SpeedOf(t.linear)
    BY DEF CommandFromCmdVel
  <1>3. SpeedOf(t.linear) \in Int
    BY <1>1, SpeedRange, LinkAssumption DEF Speeds
  <1> HIDE DEF c
  <1>4. /\ c.speed > 0 => t.linear > 0
        /\ c.speed < 0 => t.linear < 0
    BY <1>1, <1>2, <1>3, SpeedSign
  <1>5. Agrees(c.speed, t.word)
    BY <1>1, <1>4 DEF Agrees
  <1> QED BY <1>5 DEF c

(* A message of the topic is one the link may receive.                     *)
LEMMA HeadIsMessage ==
  ASSUME QueueInv, queue # <<>>
  PROVE  /\ Head(queue) \in Twists
         /\ Head(queue).linear \in Linears /\ Head(queue).steer \in Steers
         /\ Head(queue).brake \in Brakes
  <1>1. Head(queue) \in Twists
    BY DEF QueueInv
  <1> QED BY <1>1, ChainAssumption DEF Twist

(* To the link a step of the chain is one of its own, or nothing.          *)
LEMMA LinkView ==
  ASSUME QueueInv, [ChainNext]_cvars
  PROVE  [Next]_vars
  <1>1. CASE Hear
    BY <1>1, HeadIsMessage DEF Hear, Next
  <1>2. CASE LinkStep
    BY <1>2 DEF LinkStep, Next
  <1>3. CASE Decision \/ Publication \/ UNCHANGED cvars
    BY <1>3 DEF Decision, Publication, cvars
  <1> QED BY <1>1, <1>2, <1>3 DEF ChainNext

----------------------------------------------------------------------------
(* The gate: types, and that a calm node has nothing in flight.            *)
LEMMA GateStep ==
  ASSUME Gate!TypeOK, CalmInv, [ChainNext]_cvars
  PROVE  Gate!TypeOK' /\ CalmInv'
  <1>1. CASE Gate!Decisions
    BY <1>1 DEF Gate!Decisions, Gate!Switch, Gate!Bar, Gate!Decide, Gate!Command, Gate!Calm,
                Gate!TypeOK, Gate!Motions, Gate!Nothing, Gate!Still, CalmInv
  <1>2. CASE Gate!Move \/ Gate!Halt
    BY <1>2 DEF Gate!Move, Gate!Halt, Gate!TypeOK, Gate!Motions, Gate!Nothing, Gate!Still,
                CalmInv
  <1>3. CASE UNCHANGED gate
    BY <1>3 DEF gate, Gate!TypeOK, CalmInv
  <1> QED BY <1>1, <1>2, <1>3 DEF ChainNext, Decision, Publication, Hear, LinkStep, cvars

(* The topic: its newest message says the last word.                       *)
LEMMA QueueStep ==
  ASSUME QueueInv, [ChainNext]_cvars
  PROVE  QueueInv'
  <1>1. CASE Publication
    <2>1. PICK t \in Twists : t.word = word' /\ queue' = Keep(t)
      BY <1>1 DEF Publication
    <2> DEFINE kept == IF Len(queue) = Depth THEN Tail(queue) ELSE queue
    <2>2. kept \in Seq(Twists) /\ Len(kept) < Depth
      BY ChainAssumption DEF QueueInv
    <2>3. queue' = Append(kept, t)
      BY <2>1 DEF Keep
    <2> HIDE DEF kept
    <2>4. /\ queue' \in Seq(Twists) /\ Len(queue') = Len(kept) + 1
          /\ queue'[Len(queue')] = t
      BY <2>2, <2>3
    <2> QED BY <2>1, <2>2, <2>4, ChainAssumption DEF QueueInv
  <1>2. CASE Hear
    <2>1. queue # <<>> /\ queue' = Tail(queue) /\ word' = word
      BY <1>2 DEF Hear, gate
    <2>2. queue' \in Seq(Twists) /\ Len(queue') = Len(queue) - 1
      BY <2>1 DEF QueueInv
    <2>3. queue' # <<>> => queue'[Len(queue')] = queue[Len(queue)]
      BY <2>1, <2>2 DEF QueueInv
    <2> QED BY <2>1, <2>2, <2>3, ChainAssumption DEF QueueInv
  <1>3. CASE Decision
    <2>1. UNCHANGED <<queue, word>>
      BY <1>3 DEF Decision, Gate!Decisions, Gate!Switch, Gate!Bar, Gate!Decide, Gate!Command,
                  Gate!Calm
    <2> QED BY <2>1 DEF QueueInv
  <1>4. CASE LinkStep \/ UNCHANGED cvars
    BY <1>4 DEF LinkStep, cvars, gate, QueueInv
  <1> QED BY <1>1, <1>2, <1>3, <1>4 DEF ChainNext

(* What was heard last is the last word, once the topic is empty.          *)
LEMMA HeardStep ==
  ASSUME QueueInv, HeardInv, [ChainNext]_cvars
  PROVE  HeardInv'
  <1>1. CASE Publication
    <2>1. PICK t \in Twists : queue' = Keep(t)
      BY <1>1 DEF Publication
    <2>2. queue' # <<>>
      BY <2>1 DEF Keep, QueueInv
    <2> QED BY <2>2 DEF HeardInv
  <1>2. CASE Hear
    <2>1. /\ queue # <<>> /\ queue' = Tail(queue) /\ word' = word
          /\ cmd' = CommandFromCmdVel(Head(queue).linear, Head(queue).steer, Head(queue).brake)
      BY <1>2 DEF Hear, Receive, gate
    <2>2. Agrees(cmd'.speed, Head(queue).word)
      BY <2>1, HeadIsMessage, HeardAgrees
    <2>3. queue' = <<>> => Head(queue).word = word'
      BY <2>1 DEF QueueInv
    <2> QED BY <2>2, <2>3 DEF HeardInv
  <1>3. CASE Decision
    <2>1. UNCHANGED <<queue, word, cmd>>
      BY <1>3 DEF Decision, Gate!Decisions, Gate!Switch, Gate!Bar, Gate!Decide, Gate!Command,
                  Gate!Calm, vars, node
    <2> QED BY <2>1 DEF HeardInv, Agrees
  <1>4. CASE LinkStep \/ UNCHANGED cvars
    <2>1. UNCHANGED <<queue, word, cmd>>
      BY <1>4 DEF LinkStep, CmdAges, NodeSteps, Tick, Apply, TxSteps, TxSnapshot, TxFails,
                  TxEnds, TxWrite, Stop, StopSteps, StopEvent, StopJoined, SafeFrame,
                  StopCloses, cvars, vars, node, gate
    <2> QED BY <2>1 DEF HeardInv, Agrees
  <1> QED BY <1>1, <1>2, <1>3, <1>4 DEF ChainNext

----------------------------------------------------------------------------
(* A frame taken now goes where the target goes.                           *)
LEMMA FrameDirected ==
  ASSUME IInv
  PROVE  Directed(Frame(state), Share)
  <1> SUFFICES ASSUME Share # "old", Moves(Frame(state))
               PROVE  Frame(state).reverse <=> target.speed < 0
    BY DEF Directed
  <1>1. state \in Command /\ SettersInv /\ TornStateNeverMoves
    BY TornLemma DEF IInv, TypeOK
  <1>2. Moves(state)
    BY <1>1, FrameOf
  <1>3. step # 1 /\ (target.drive => step \notin {2, 3})
    BY DEF Share, Committed
  <1>4. target.drive
    BY <1>2, <1>3, Zenon DEF Moves, SettersInv, IInv
  <1>5. state.speed = target.speed
    BY <1>1, <1>3, <1>4 DEF SettersInv
  <1>6. Frame(state).reverse <=> state.speed < 0
    BY DEF Frame
  <1> QED BY <1>5, <1>6

LEMMA DirectionStep ==
  ASSUME IInv, DirectionInv, [Next]_vars
  PROVE  DirectionInv'
  <1>1. Directed(Frame(state), Share) /\ TypeOK
    BY FrameDirected DEF IInv
  <1>2. CASE UNCHANGED <<target, tx, wire, sent>>
    BY <1>2 DEF DirectionInv, Directed, Moves
  <1>3. CASE sent' = "old" /\ tx' = [tx EXCEPT !.holds = "old"]
    <2>1. tx'.holds = "old"
      BY <1>1, <1>3 DEF TypeOK
    <2> QED BY <1>3, <2>1 DEF DirectionInv, Directed
  <1>4. CASE TxSnapshot
    <2>1. /\ tx'.frame = Frame(state) /\ tx'.holds = Share
          /\ UNCHANGED <<target, wire, sent>>
      BY <1>4 DEF TxSnapshot, node
    <2> QED BY <1>1, <2>1 DEF DirectionInv, Directed, Moves
  <1>5. CASE TxWrite
    <2>1. /\ wire' = tx.frame /\ sent' = tx.holds /\ target' = target
          /\ tx'.holds = "old"
      BY <1>5 DEF TxWrite, Resting, node
    <2> QED BY <2>1 DEF DirectionInv, Directed, Moves
  <1>6. CASE TxFails \/ TxEnds
    <2>1. /\ UNCHANGED <<target, wire, sent>>
          /\ tx'.holds = "old" \/ (tx'.frame = tx.frame /\ tx'.holds = tx.holds)
      BY <1>1, <1>6 DEF TxFails, TxEnds, Resting, node, TypeOK
    <2> QED BY <2>1 DEF DirectionInv, Directed, Moves
  <1>7. CASE SafeFrame
    <2>1. /\ UNCHANGED <<target, tx>>
          /\ \/ wire' = Frame(state) /\ sent' = Share
             \/ UNCHANGED <<wire, sent>>
      BY <1>7 DEF SafeFrame, node
    <2> QED BY <1>1, <2>1 DEF DirectionInv, Directed, Moves
  <1>8. ASSUME NEW linear \in Linears, NEW steer \in Steers, NEW brakePct \in Brakes,
               Receive(linear, steer, brakePct)
        PROVE  UNCHANGED <<target, tx, wire, sent>>
    BY <1>8 DEF Receive
  <1>9. CASE CmdAges \/ Apply \/ StopEvent \/ StopJoined \/ StopCloses \/ UNCHANGED vars
    BY <1>2, <1>9 DEF CmdAges, Apply, StopEvent, StopJoined, StopCloses, node, vars
  <1>10. CASE Tick \/ Stop
    BY <1>3, <1>10 DEF Tick, Stop
  <1> QED BY <1>2, <1>4, <1>5, <1>6, <1>7, <1>8, <1>9, <1>10
          DEF Next, NodeSteps, TxSteps, StopSteps

----------------------------------------------------------------------------
(* Every behaviour of the chain keeps the invariant.                       *)
THEOREM ChainInvariance == ChainSpec => []ChainInv
  <1>1. ChainInit => ChainInv
    <2> SUFFICES ASSUME ChainInit PROVE ChainInv
      OBVIOUS
    <2>1. IInv
      BY InitIInv DEF ChainInit
    <2>2. Gate!TypeOK /\ CalmInv
      BY DEF ChainInit, Gate!Init, Gate!TypeOK, Gate!Motions, Gate!Nothing, Gate!Still, CalmInv
    <2>3. QueueInv
      BY ChainAssumption DEF ChainInit, QueueInv
    <2>4. HeardInv /\ DirectionInv
      BY DEF ChainInit, Init, Resting, SafeCommand, HeardInv, Agrees, DirectionInv, Directed
    <2> QED BY <2>1, <2>2, <2>3, <2>4 DEF ChainInv
  <1>2. ChainInv /\ [ChainNext]_cvars => ChainInv'
    <2> SUFFICES ASSUME ChainInv, [ChainNext]_cvars PROVE ChainInv'
      OBVIOUS
    <2>1. [Next]_vars
      BY LinkView DEF ChainInv
    <2>2. IInv' /\ DirectionInv'
      BY <2>1, InvStep, DirectionStep DEF ChainInv
    <2> QED BY <2>2, GateStep, QueueStep, HeardStep DEF ChainInv
  <1> QED BY <1>1, <1>2, PTL DEF ChainSpec

(* Whatever the topic delivers, controller_server is a UartLink: what is   *)
(* proved of the link for any messages holds in the chain.                 *)
THEOREM ChainHasLink == ChainSpec => Spec
  <1>1. ChainInit => Init
    BY DEF ChainInit
  <1>2. ChainInv /\ [ChainNext]_cvars => [Next]_vars
    BY LinkView DEF ChainInv
  <1> QED BY <1>1, <1>2, ChainInvariance, PTL DEF ChainSpec, Spec

(* The vehicle does what nav_command_server said last: a frame that        *)
(* contains the last message moves it only if that message was a motion,   *)
(* and an AUTO motion only in its direction.                               *)
THEOREM LastWord == ChainSpec => []LastWordHolds
  <1>1. ChainInv => LastWordHolds
    <2> SUFFICES ASSUME ChainInv, queue = <<>>, target = Effective, sent # "old", Moves(wire)
                 PROVE  /\ mode # "calm"
                        /\ word \in {"manual", IF wire.reverse THEN "autoReverse"
                                                ELSE "autoForward"}
      BY DEF LastWordHolds
    <2>1. Moves(target) /\ target.speed \in Int /\ (wire.reverse <=> target.speed < 0)
      BY LinkAssumption DEF ChainInv, IInv, TypeOK, Speeds, FramesInv, Carries, DirectionInv, Directed
    <2>2. target = cmd
      BY <2>1 DEF Moves, Effective, SafeCommand
    <2>3. Agrees(target.speed, word)
      BY <2>2 DEF ChainInv, HeardInv
    <2>4. word \in {"manual", IF wire.reverse THEN "autoReverse" ELSE "autoForward"}
      BY <2>1, <2>3 DEF Moves, Agrees
    <2> QED BY <2>4 DEF ChainInv, CalmInv
  <1> QED BY <1>1, ChainInvariance, PTL
=============================================================================
