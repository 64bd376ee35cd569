-------------------------- MODULE CmdGate_proofs --------------------------
(***************************************************************************)
(* Proofs about CmdGate, for any sets of threads and any parameters: its   *)
(* invariants, that it implements DriveAuthority, and that with UartLink   *)
(* behind it (CommandPath) it is a CommandChain.                           *)
(*                                                                         *)
(* The invariants are not inductive as they stand.  What is missing is     *)
(* what the single default group gives: a callback that copied its flags   *)
(* (pc "backup", "auto") keeps the zone flags from changing until it has   *)
(* published, and nothing that moves the vehicle is in flight once the     *)
(* watchdog has marked its stop as sent.                                   *)
(***************************************************************************)
EXTENDS CommandPath, TLAPS

(* The stop flag copied for the backup decision is still the current one.  *)
CopiedStopIsCurrent == sub.pc = "backup" => sub.flag = collisionStop

(* The history variables mean what they say, and after an AUTO message     *)
(* under manual no other one is in flight.                                 *)
HistoryInv ==
    /\ ~manual => staleAuto = 0 /\ takenBy = "none"
    /\ takenBy = "teleop" => staleAuto = 0 /\ sub.pc \notin {"auto", "backup"}
    /\ staleAuto <= 1
    /\ staleAuto = 1 => sub.pc \notin {"auto", "backup"}

(* Once the mark is set in manual mode nothing that moves is in flight.    *)
WatchdogInv ==
    /\ sub.pc = "wmark" => out.vel = "zero"
    /\ manual /\ stopSent => /\ out.vel = "zero"
                             /\ sub.pc \notin {"auto", "backup", "pub"}

IInv == TypeOK /\ AutoRespectsZones /\ CopiedStopIsCurrent
        /\ HistoryInv /\ WatchdogInv /\ LoneHold

----------------------------------------------------------------------------
(* A call record built by the handlers is a call record.                   *)
LEMMA CallType ==
  ASSUME NEW pcs, "idle" \in pcs
  PROVE  /\ NoCall \in Calls(pcs)
         /\ \A pc \in pcs, v \in Vel, f \in BOOLEAN, n \in 0..BrakeCount :
               Call(pc, v, f, n) \in Calls(pcs)
         /\ \A c \in Calls(pcs), pc \in pcs : [c EXCEPT !.pc = pc] \in Calls(pcs)
         /\ \A c \in Calls(pcs) : c.n > 1 => [c EXCEPT !.n = c.n - 1] \in Calls(pcs)
         /\ \A c \in Calls(pcs) : c.vel \in Vel /\ c.flag \in BOOLEAN
  BY GateAssumption DEF Calls, NoCall, Call, Vel

(* The initial states are well typed.                                      *)
LEMMA InitType == Init => TypeOK
  <1> SUFFICES ASSUME Init PROVE TypeOK
    OBVIOUS
  <1>1. sub \in Calls(SubPc) /\ svc \in Calls(SvcPc)
    BY CallType DEF Init, SubPc, SvcPc
  <1>2. out \in Msg
    BY DEF Init, ManualStop, Msg, Vel
  <1>3. seqLeft \in [Seqs -> 0..BrakeCount]
    BY GateAssumption DEF Init
  <1>4. /\ hpc \in [Holds -> {"idle", "check", "pub", "exit"}]
        /\ hcancel \in [Holds -> BOOLEAN]
        /\ reg \in Holds \cup {NoHold}
    BY DEF Init
  <1>5. /\ manual \in BOOLEAN /\ navigating \in BOOLEAN /\ goal \in BOOLEAN
        /\ collisionStop \in BOOLEAN /\ criticalSlow \in BOOLEAN
        /\ backup \in BOOLEAN /\ stopSent \in BOOLEAN
    BY DEF Init
  <1>6. /\ manualCmd \in {"none", "fresh", "stale"}
        /\ staleAuto \in 0..2
        /\ takenBy \in {"none", "service", "teleop"}
    BY DEF Init
  <1> QED
    BY <1>1, <1>2, <1>3, <1>4, <1>5, <1>6 DEF TypeOK

(* Every step keeps the default group's call record well typed.            *)
LEMMA SubType == TypeOK /\ [Next]_vars => sub' \in Calls(SubPc)
  <1> SUFFICES ASSUME TypeOK, [Next]_vars PROVE sub' \in Calls(SubPc)
    OBVIOUS
  <1>0. /\ sub \in Calls(SubPc)
        /\ collisionStop \in BOOLEAN /\ navigating \in BOOLEAN
    BY DEF TypeOK
  <1>a. /\ NoCall \in Calls(SubPc)
        /\ \A pc \in SubPc, v \in Vel, f \in BOOLEAN, n \in 0..BrakeCount :
              Call(pc, v, f, n) \in Calls(SubPc)
        /\ \A pc \in SubPc : [sub EXCEPT !.pc = pc] \in Calls(SubPc)
        /\ sub.n > 1 => [sub EXCEPT !.n = sub.n - 1] \in Calls(SubPc)
        /\ sub.vel \in Vel /\ sub.flag \in BOOLEAN
    BY <1>0, CallType DEF SubPc
  <1>b. /\ "idle" \in SubPc /\ "backup" \in SubPc /\ "stop" \in SubPc
        /\ "auto" \in SubPc /\ "colbackup" \in SubPc /\ "seq" \in SubPc
        /\ "mode" \in SubPc /\ "mstop" \in SubPc /\ "cmd" \in SubPc
        /\ "pub" \in SubPc /\ "wstop" \in SubPc /\ "wmark" \in SubPc
        /\ "detach" \in SubPc
    BY DEF SubPc
  <1>c. /\ "zero" \in Vel /\ TeleopVel \subseteq Vel /\ FALSE \in BOOLEAN
        /\ 0 \in 0..BrakeCount /\ BrakeCount \in 0..BrakeCount
    BY GateAssumption DEF Vel, TeleopVel
  <1>d. /\ Call("stop", "zero", FALSE, 0) \in Calls(SubPc)
        /\ Call("auto", "zero", FALSE, 0) \in Calls(SubPc)
        /\ Call("seq", "zero", FALSE, BrakeCount) \in Calls(SubPc)
    BY GateAssumption DEF Call, Calls, SubPc, Vel
  <1>1. CASE SafeSteps
    <2>1. CASE SafeReadBackup
      BY <2>1, <1>0, <1>a, <1>b, <1>c DEF SafeReadBackup
    <2>2. CASE SafeBackup
      <3>1. sub' \in {NoCall, Call("stop", "zero", FALSE, 0), Call("auto", "zero", FALSE, 0)}
        BY <2>2, Zenon DEF SafeBackup, SafeOutcome
      <3> QED BY <3>1, <1>a, <1>d
    <2>3. CASE SafePublish
      BY <2>3, <1>a DEF SafePublish
    <2>4. ASSUME NEW v \in Vel, SafeRead(v) PROVE sub' \in Calls(SubPc)
      BY <2>4, <1>a, <1>b, <1>c DEF SafeRead, SafeOutcome
    <2> QED BY <1>1, <2>1, <2>2, <2>3, <2>4 DEF SafeSteps
  <1>2. CASE CollisionSteps
    <2>1. CASE CollisionBackup
      <3>1. sub' \in {NoCall, Call("seq", "zero", FALSE, BrakeCount)}
        BY <2>1, Zenon DEF CollisionBackup
      <3> QED BY <3>1, <1>a, <1>d
    <2>2. CASE SubSequence
      BY <2>2, <1>a DEF SubSequence
    <2>3. ASSUME NEW kind \in CollisionKind, CollisionState(kind)
          PROVE  sub' \in Calls(SubPc)
      BY <2>3, <1>0, <1>a, <1>b, <1>c DEF CollisionState
    <2> QED BY <1>2, <2>1, <2>2, <2>3 DEF CollisionSteps
  <1>3. CASE TeleopSteps
    <2>1. CASE TeleopMode \/ TeleopDetach \/ TeleopStop
      BY <2>1, <1>a, <1>b DEF TeleopMode, TeleopDetach, TeleopStop
    <2>2. CASE TeleopCmd \/ TeleopPublish
      BY <2>2, <1>a, <1>b DEF TeleopCmd, TeleopPublish
    <2>3. ASSUME NEW v \in TeleopVel, TeleopStart(v) PROVE sub' \in Calls(SubPc)
      BY <2>3, <1>a, <1>b, <1>c DEF TeleopStart
    <2> QED BY <1>3, <2>1, <2>2, <2>3 DEF TeleopSteps, TeleopRest
  <1>4. CASE WatchdogSteps
    BY <1>4, <1>a, <1>b, <1>c DEF WatchdogSteps, WatchdogRead, WatchdogStop, WatchdogMark
  <1>5. CASE UNCHANGED sub
    BY <1>0, <1>5
  <1>6. CmdAges \/ ServiceSteps \/ GoalSteps \/ UNCHANGED vars
        \/ (\E t \in Seqs : SequencePublish(t)) \/ (\E h \in Holds : HoldSteps(h))
        => UNCHANGED sub
    BY DEF CmdAges, ServiceSteps, ServiceRest, SvcDetach, SvcManualStop, SvcCancelStop,
       SvcBrakeCancel, SvcBrakeShort, SvcSequence, SvcBrakeHold, SvcManualOn,
       SvcManualOff, SvcCancel, SvcBrake, GoalSteps, GoalAccepted, GoalResumed,
       GoalDropped, GoalFailed, GoalNotSent, BackupEnded, SequencePublish,
       HoldSteps, HoldCheck, HoldPublish, HoldExit, vars
  <1> QED
    BY <1>1, <1>2, <1>3, <1>4, <1>5, <1>6 DEF Next

(* Every step keeps the service group's call record well typed.            *)
LEMMA SvcType == TypeOK /\ [Next]_vars => svc' \in Calls(SvcPc)
  <1> SUFFICES ASSUME TypeOK, [Next]_vars PROVE svc' \in Calls(SvcPc)
    OBVIOUS
  <1>0. svc \in Calls(SvcPc)
    BY DEF TypeOK
  <1>a. /\ NoCall \in Calls(SvcPc)
        /\ \A pc \in SvcPc, v \in Vel, f \in BOOLEAN, n \in 0..BrakeCount :
              Call(pc, v, f, n) \in Calls(SvcPc)
        /\ \A pc \in SvcPc : [svc EXCEPT !.pc = pc] \in Calls(SvcPc)
        /\ svc.n > 1 => [svc EXCEPT !.n = svc.n - 1] \in Calls(SvcPc)
    BY <1>0, CallType DEF SvcPc
  <1>b. /\ "detach" \in SvcPc /\ "mstop" \in SvcPc /\ "cstop" \in SvcPc
        /\ "cancel" \in SvcPc /\ "brake" \in SvcPc /\ "seq" \in SvcPc
    BY DEF SvcPc
  <1>c. /\ "zero" \in Vel /\ FALSE \in BOOLEAN
        /\ 0 \in 0..BrakeCount /\ BrakeCount \in 0..BrakeCount
    BY GateAssumption DEF Vel
  <1>d. /\ Call("detach", "zero", FALSE, 0) \in Calls(SvcPc)
        /\ Call("mstop", "zero", FALSE, 0) \in Calls(SvcPc)
        /\ Call("cstop", "zero", FALSE, 0) \in Calls(SvcPc)
    BY GateAssumption DEF Call, Calls, SvcPc, Vel
  <1>1. CASE ServiceSteps
    <2>1. CASE SvcDetach \/ SvcManualStop \/ SvcCancelStop \/ SvcBrakeCancel
      BY <2>1, <1>a, <1>b DEF SvcDetach, SvcManualStop, SvcCancelStop, SvcBrakeCancel
    <2>2. CASE SvcBrakeShort \/ SvcSequence \/ \E h \in Holds : SvcBrakeHold(h)
      BY <2>2, <1>a, <1>b, <1>c DEF SvcBrakeShort, SvcSequence, SvcBrakeHold
    <2>3. CASE SvcManualOn \/ SvcManualOff \/ SvcCancel
      <3>1. svc' \in {NoCall, Call("detach", "zero", FALSE, 0),
                    Call("mstop", "zero", FALSE, 0), Call("cstop", "zero", FALSE, 0)}
        BY <2>3, Zenon DEF SvcManualOn, SvcManualOff, SvcCancel
      <3> QED BY <3>1, <1>a, <1>d
    <2>4. ASSUME NEW sustained \in BOOLEAN, SvcBrake(sustained)
          PROVE  svc' \in Calls(SvcPc)
      BY <2>4, <1>a, <1>b, <1>c DEF SvcBrake
    <2> QED BY <1>1, <2>1, <2>2, <2>3, <2>4 DEF ServiceSteps, ServiceRest
  <1>2. CASE UNCHANGED svc
    BY <1>0, <1>2
  <1>3. SafeSteps \/ CollisionSteps \/ TeleopSteps \/ WatchdogSteps \/ CmdAges
        \/ GoalSteps \/ UNCHANGED vars
        \/ (\E t \in Seqs : SequencePublish(t)) \/ (\E h \in Holds : HoldSteps(h))
        => UNCHANGED svc
    BY DEF SafeSteps, SafeReadBackup, SafeBackup, SafePublish, SafeRead,
       CollisionSteps, CollisionBackup, SubSequence, CollisionState, TeleopSteps,
       TeleopRest, TeleopStart, TeleopMode, TeleopDetach, TeleopStop, TeleopCmd,
       TeleopPublish, WatchdogSteps, WatchdogRead, WatchdogStop, WatchdogMark,
       CmdAges, GoalSteps, GoalAccepted, GoalResumed, GoalDropped, GoalFailed,
       GoalNotSent, BackupEnded, SequencePublish, HoldSteps, HoldCheck,
       HoldPublish, HoldExit, vars
  <1> QED
    BY <1>1, <1>2, <1>3 DEF Next

(* Every step publishes a well-typed message or none.                      *)
LEMMA OutType == TypeOK /\ [Next]_vars => out' \in Msg
  <1> SUFFICES ASSUME TypeOK, [Next]_vars PROVE out' \in Msg
    OBVIOUS
  <1>1. out \in Msg /\ sub.vel \in Vel
    BY DEF TypeOK, Calls
  <1>2. /\ StopMsg \in Msg /\ ManualStop \in Msg
        /\ [src |-> "auto", vel |-> sub.vel] \in Msg
        /\ [src |-> "manual", vel |-> sub.vel] \in Msg
    BY <1>1 DEF StopMsg, ManualStop, Msg, Vel
  <1>3. CASE SafePublish \/ SubSequence \/ TeleopStop \/ TeleopPublish
             \/ WatchdogStop \/ SvcManualStop \/ SvcCancelStop \/ SvcSequence
    BY <1>2, <1>3 DEF SafePublish, SubSequence, TeleopStop, TeleopPublish,
       WatchdogStop, SvcManualStop, SvcCancelStop, SvcSequence, Publish
  <1>4. CASE \/ \E t \in Seqs : SequencePublish(t)
             \/ \E h \in Holds : HoldPublish(h)
    BY <1>2, <1>4 DEF SequencePublish, HoldPublish, Publish
  <1>5. CASE UNCHANGED out
    BY <1>1, <1>5
  <1> QED
    BY <1>3, <1>4, <1>5 DEF Next, SafeSteps, SafeReadBackup, SafeBackup, SafeRead,
       CollisionSteps, CollisionBackup, CollisionState, TeleopSteps, TeleopRest,
       TeleopStart, TeleopMode, TeleopDetach, TeleopCmd, WatchdogSteps,
       WatchdogRead, WatchdogMark, CmdAges, ServiceSteps, ServiceRest, SvcDetach,
       SvcBrakeCancel, SvcBrakeShort, SvcBrakeHold, SvcManualOn, SvcManualOff,
       SvcCancel, SvcBrake, GoalSteps, GoalAccepted, GoalResumed, GoalDropped,
       GoalFailed, GoalNotSent, BackupEnded, HoldSteps, HoldCheck, HoldExit, vars

(* Every step keeps the flags of the goal layer Boolean.                   *)
LEMMA FlagType == TypeOK /\ [Next]_vars => manual' \in BOOLEAN /\ navigating' \in BOOLEAN /\ goal' \in BOOLEAN
  <1> SUFFICES ASSUME TypeOK, [Next]_vars PROVE manual' \in BOOLEAN /\ navigating' \in BOOLEAN /\ goal' \in BOOLEAN
    OBVIOUS
  <1> USE DEF TypeOK, flags, ManualOn, Detach
  <1>1. CASE SafeSteps
    BY <1>1 DEF SafeSteps, SafeReadBackup, SafeBackup, SafePublish, SafeRead
  <1>2. CASE CollisionSteps
    BY <1>2 DEF CollisionSteps, CollisionBackup, SubSequence, CollisionState
  <1>3. CASE TeleopSteps
    BY <1>3 DEF TeleopSteps, TeleopRest, TeleopStart, TeleopMode, TeleopDetach,
       TeleopStop, TeleopCmd, TeleopPublish
  <1>4. CASE WatchdogSteps \/ CmdAges
    BY <1>4 DEF WatchdogSteps, WatchdogRead, WatchdogStop, WatchdogMark, CmdAges
  <1>5. CASE ServiceRest
    BY <1>5 DEF ServiceRest, SvcDetach, SvcManualStop, SvcCancelStop,
       SvcBrakeCancel, SvcBrakeShort, SvcSequence, SvcBrakeHold
  <1>6. CASE SvcManualOn \/ SvcManualOff \/ SvcCancel
             \/ \E sustained \in BOOLEAN : SvcBrake(sustained)
    BY <1>6 DEF SvcManualOn, SvcManualOff, SvcCancel, SvcBrake
  <1>7. CASE GoalSteps
    BY <1>7 DEF GoalSteps, GoalAccepted, GoalResumed, GoalDropped, GoalFailed,
       GoalNotSent, BackupEnded
  <1>8. CASE \E t \in Seqs : SequencePublish(t)
    BY <1>8 DEF SequencePublish
  <1>9. CASE \E h \in Holds : HoldSteps(h)
    BY <1>9 DEF HoldSteps, HoldCheck, HoldPublish, HoldExit
  <1>10. CASE UNCHANGED vars
    BY <1>10 DEF vars
  <1> QED
    BY <1>1, <1>2, <1>3, <1>4, <1>5, <1>6, <1>7, <1>8, <1>9, <1>10
       DEF Next, ServiceSteps

(* Every step keeps the zone flags Boolean.                                *)
LEMMA ZoneType == TypeOK /\ [Next]_vars => collisionStop' \in BOOLEAN /\ criticalSlow' \in BOOLEAN /\ backup' \in BOOLEAN
  <1> SUFFICES ASSUME TypeOK, [Next]_vars PROVE collisionStop' \in BOOLEAN /\ criticalSlow' \in BOOLEAN /\ backup' \in BOOLEAN
    OBVIOUS
  <1> USE DEF TypeOK, zones
  <1>1. CASE SafeSteps
    BY <1>1 DEF SafeSteps, SafeReadBackup, SafeBackup, SafePublish, SafeRead
  <1>2. CASE CollisionSteps
    BY <1>2 DEF CollisionSteps, CollisionBackup, SubSequence, CollisionState
  <1>3. CASE TeleopSteps
    BY <1>3 DEF TeleopSteps, TeleopRest, TeleopStart, TeleopMode, TeleopDetach,
       TeleopStop, TeleopCmd, TeleopPublish
  <1>4. CASE WatchdogSteps \/ CmdAges
    BY <1>4 DEF WatchdogSteps, WatchdogRead, WatchdogStop, WatchdogMark, CmdAges
  <1>5. CASE ServiceRest
    BY <1>5 DEF ServiceRest, SvcDetach, SvcManualStop, SvcCancelStop,
       SvcBrakeCancel, SvcBrakeShort, SvcSequence, SvcBrakeHold
  <1>6. CASE SvcManualOn \/ SvcManualOff \/ SvcCancel
             \/ \E sustained \in BOOLEAN : SvcBrake(sustained)
    BY <1>6 DEF SvcManualOn, SvcManualOff, SvcCancel, SvcBrake
  <1>7. CASE GoalSteps
    BY <1>7 DEF GoalSteps, GoalAccepted, GoalResumed, GoalDropped, GoalFailed,
       GoalNotSent, BackupEnded
  <1>8. CASE \E t \in Seqs : SequencePublish(t)
    BY <1>8 DEF SequencePublish
  <1>9. CASE \E h \in Holds : HoldSteps(h)
    BY <1>9 DEF HoldSteps, HoldCheck, HoldPublish, HoldExit
  <1>10. CASE UNCHANGED vars
    BY <1>10 DEF vars
  <1> QED
    BY <1>1, <1>2, <1>3, <1>4, <1>5, <1>6, <1>7, <1>8, <1>9, <1>10
       DEF Next, ServiceSteps

(* Every step keeps the age of the manual command one of three values.     *)
LEMMA CmdAgeType == TypeOK /\ [Next]_vars => manualCmd' \in {"none", "fresh", "stale"}
  <1> SUFFICES ASSUME TypeOK, [Next]_vars PROVE manualCmd' \in {"none", "fresh", "stale"}
    OBVIOUS
  <1> USE DEF TypeOK, watchdog, ManualOn
  <1>1. CASE SafeSteps
    BY <1>1 DEF SafeSteps, SafeReadBackup, SafeBackup, SafePublish, SafeRead
  <1>2. CASE CollisionSteps
    BY <1>2 DEF CollisionSteps, CollisionBackup, SubSequence, CollisionState
  <1>3. CASE TeleopSteps
    BY <1>3 DEF TeleopSteps, TeleopRest, TeleopStart, TeleopMode, TeleopDetach,
       TeleopStop, TeleopCmd, TeleopPublish
  <1>4. CASE WatchdogSteps \/ CmdAges
    BY <1>4 DEF WatchdogSteps, WatchdogRead, WatchdogStop, WatchdogMark, CmdAges
  <1>5. CASE ServiceRest
    BY <1>5 DEF ServiceRest, SvcDetach, SvcManualStop, SvcCancelStop,
       SvcBrakeCancel, SvcBrakeShort, SvcSequence, SvcBrakeHold
  <1>6. CASE SvcManualOn \/ SvcManualOff \/ SvcCancel
             \/ \E sustained \in BOOLEAN : SvcBrake(sustained)
    BY <1>6 DEF SvcManualOn, SvcManualOff, SvcCancel, SvcBrake
  <1>7. CASE GoalSteps
    BY <1>7 DEF GoalSteps, GoalAccepted, GoalResumed, GoalDropped, GoalFailed,
       GoalNotSent, BackupEnded
  <1>8. CASE \E t \in Seqs : SequencePublish(t)
    BY <1>8 DEF SequencePublish
  <1>9. CASE \E h \in Holds : HoldSteps(h)
    BY <1>9 DEF HoldSteps, HoldCheck, HoldPublish, HoldExit
  <1>10. CASE UNCHANGED vars
    BY <1>10 DEF vars
  <1> QED
    BY <1>1, <1>2, <1>3, <1>4, <1>5, <1>6, <1>7, <1>8, <1>9, <1>10
       DEF Next, ServiceSteps

(* Every step keeps the watchdog mark Boolean.                             *)
LEMMA StopSentType == TypeOK /\ [Next]_vars => stopSent' \in BOOLEAN
  <1> SUFFICES ASSUME TypeOK, [Next]_vars PROVE stopSent' \in BOOLEAN
    OBVIOUS
  <1> USE DEF TypeOK, watchdog, ManualOn
  <1>1. CASE SafeSteps
    BY <1>1 DEF SafeSteps, SafeReadBackup, SafeBackup, SafePublish, SafeRead
  <1>2. CASE CollisionSteps
    BY <1>2 DEF CollisionSteps, CollisionBackup, SubSequence, CollisionState
  <1>3. CASE TeleopSteps
    BY <1>3 DEF TeleopSteps, TeleopRest, TeleopStart, TeleopMode, TeleopDetach,
       TeleopStop, TeleopCmd, TeleopPublish
  <1>4. CASE WatchdogSteps \/ CmdAges
    BY <1>4 DEF WatchdogSteps, WatchdogRead, WatchdogStop, WatchdogMark, CmdAges
  <1>5. CASE ServiceRest
    BY <1>5 DEF ServiceRest, SvcDetach, SvcManualStop, SvcCancelStop,
       SvcBrakeCancel, SvcBrakeShort, SvcSequence, SvcBrakeHold
  <1>6. CASE SvcManualOn \/ SvcManualOff \/ SvcCancel
             \/ \E sustained \in BOOLEAN : SvcBrake(sustained)
    BY <1>6 DEF SvcManualOn, SvcManualOff, SvcCancel, SvcBrake
  <1>7. CASE GoalSteps
    BY <1>7 DEF GoalSteps, GoalAccepted, GoalResumed, GoalDropped, GoalFailed,
       GoalNotSent, BackupEnded
  <1>8. CASE \E t \in Seqs : SequencePublish(t)
    BY <1>8 DEF SequencePublish
  <1>9. CASE \E h \in Holds : HoldSteps(h)
    BY <1>9 DEF HoldSteps, HoldCheck, HoldPublish, HoldExit
  <1>10. CASE UNCHANGED vars
    BY <1>10 DEF vars
  <1> QED
    BY <1>1, <1>2, <1>3, <1>4, <1>5, <1>6, <1>7, <1>8, <1>9, <1>10
       DEF Next, ServiceSteps

(* A publication and a takeover keep the count of stale AUTO messages      *)
(* within 0..2.                                                            *)
LEMMA PublishStale ==
  ASSUME NEW m, staleAuto \in 0..2, Publish(m)
  PROVE  staleAuto' \in 0..2
  BY DEF Publish

(* The same for the first section of set_manual_mode(True).                *)
LEMMA ManualOnStale ==
  ASSUME NEW who, staleAuto \in 0..2, ManualOn(who)
  PROVE  staleAuto' \in 0..2
  BY DEF ManualOn

(* Every step keeps the count of stale AUTO messages within 0..2.          *)
LEMMA StaleType == TypeOK /\ [Next]_vars => staleAuto' \in 0..2
  <1> SUFFICES ASSUME TypeOK, [Next]_vars PROVE staleAuto' \in 0..2
    OBVIOUS
  <1> USE PublishStale, ManualOnStale DEF TypeOK, history
  <1>1. CASE SafeSteps
    BY <1>1 DEF SafeSteps, SafeReadBackup, SafeBackup, SafePublish, SafeRead
  <1>2. CASE CollisionSteps
    BY <1>2 DEF CollisionSteps, CollisionBackup, SubSequence, CollisionState
  <1>3. CASE TeleopSteps
    BY <1>3 DEF TeleopSteps, TeleopRest, TeleopStart, TeleopMode, TeleopDetach,
       TeleopStop, TeleopCmd, TeleopPublish
  <1>4. CASE WatchdogSteps \/ CmdAges
    BY <1>4 DEF WatchdogSteps, WatchdogRead, WatchdogStop, WatchdogMark, CmdAges
  <1>5. CASE ServiceRest
    BY <1>5 DEF ServiceRest, SvcDetach, SvcManualStop, SvcCancelStop,
       SvcBrakeCancel, SvcBrakeShort, SvcSequence, SvcBrakeHold
  <1>6. CASE SvcManualOn \/ SvcManualOff \/ SvcCancel
             \/ \E sustained \in BOOLEAN : SvcBrake(sustained)
    <2>1. CASE SvcManualOn
      BY <2>1 DEF SvcManualOn
    <2>2. CASE SvcManualOff
      BY <2>2 DEF SvcManualOff
    <2>3. CASE SvcCancel \/ \E sustained \in BOOLEAN : SvcBrake(sustained)
      BY <2>3 DEF SvcCancel, SvcBrake
    <2> QED BY <1>6, <2>1, <2>2, <2>3
  <1>7. CASE GoalSteps
    BY <1>7 DEF GoalSteps, GoalAccepted, GoalResumed, GoalDropped, GoalFailed,
       GoalNotSent, BackupEnded
  <1>8. CASE \E t \in Seqs : SequencePublish(t)
    BY <1>8 DEF SequencePublish
  <1>9. CASE \E h \in Holds : HoldSteps(h)
    BY <1>9 DEF HoldSteps, HoldCheck, HoldPublish, HoldExit
  <1>10. CASE UNCHANGED vars
    BY <1>10 DEF vars
  <1> QED
    BY <1>1, <1>2, <1>3, <1>4, <1>5, <1>6, <1>7, <1>8, <1>9, <1>10
       DEF Next, ServiceSteps

(* Every step keeps the origin of manual mode one of three values.         *)
LEMMA TakenByType == TypeOK /\ [Next]_vars => takenBy' \in {"none", "service", "teleop"}
  <1> SUFFICES ASSUME TypeOK, [Next]_vars PROVE takenBy' \in {"none", "service", "teleop"}
    OBVIOUS
  <1> USE DEF TypeOK, history, ManualOn, Publish
  <1>1. CASE SafeSteps
    BY <1>1 DEF SafeSteps, SafeReadBackup, SafeBackup, SafePublish, SafeRead
  <1>2. CASE CollisionSteps
    BY <1>2 DEF CollisionSteps, CollisionBackup, SubSequence, CollisionState
  <1>3. CASE TeleopSteps
    BY <1>3 DEF TeleopSteps, TeleopRest, TeleopStart, TeleopMode, TeleopDetach,
       TeleopStop, TeleopCmd, TeleopPublish
  <1>4. CASE WatchdogSteps \/ CmdAges
    BY <1>4 DEF WatchdogSteps, WatchdogRead, WatchdogStop, WatchdogMark, CmdAges
  <1>5. CASE ServiceRest
    BY <1>5 DEF ServiceRest, SvcDetach, SvcManualStop, SvcCancelStop,
       SvcBrakeCancel, SvcBrakeShort, SvcSequence, SvcBrakeHold
  <1>6. CASE SvcManualOn \/ SvcManualOff \/ SvcCancel
             \/ \E sustained \in BOOLEAN : SvcBrake(sustained)
    BY <1>6 DEF SvcManualOn, SvcManualOff, SvcCancel, SvcBrake
  <1>7. CASE GoalSteps
    BY <1>7 DEF GoalSteps, GoalAccepted, GoalResumed, GoalDropped, GoalFailed,
       GoalNotSent, BackupEnded
  <1>8. CASE \E t \in Seqs : SequencePublish(t)
    BY <1>8 DEF SequencePublish
  <1>9. CASE \E h \in Holds : HoldSteps(h)
    BY <1>9 DEF HoldSteps, HoldCheck, HoldPublish, HoldExit
  <1>10. CASE UNCHANGED vars
    BY <1>10 DEF vars
  <1> QED
    BY <1>1, <1>2, <1>3, <1>4, <1>5, <1>6, <1>7, <1>8, <1>9, <1>10
       DEF Next, ServiceSteps

(* Every step keeps what the sequence threads have left within BrakeCount. *)
LEMMA SequenceType == TypeOK /\ [Next]_vars => seqLeft' \in [Seqs -> 0..BrakeCount]
  <1> SUFFICES ASSUME TypeOK, [Next]_vars PROVE seqLeft' \in [Seqs -> 0..BrakeCount]
    OBVIOUS
  <1> USE GateAssumption DEF TypeOK
  <1>1. CASE SafeSteps
    BY <1>1 DEF SafeSteps, SafeReadBackup, SafeBackup, SafePublish, SafeRead
  <1>2. CASE CollisionSteps
    BY <1>2 DEF CollisionSteps, CollisionBackup, SubSequence, CollisionState
  <1>3. CASE TeleopSteps
    BY <1>3 DEF TeleopSteps, TeleopRest, TeleopStart, TeleopMode, TeleopDetach,
       TeleopStop, TeleopCmd, TeleopPublish
  <1>4. CASE WatchdogSteps \/ CmdAges
    BY <1>4 DEF WatchdogSteps, WatchdogRead, WatchdogStop, WatchdogMark, CmdAges
  <1>5. CASE ServiceRest
    BY <1>5, BrakeCount - 1 \in 0..BrakeCount
       DEF ServiceRest, SvcDetach, SvcManualStop, SvcCancelStop,
       SvcBrakeCancel, SvcBrakeShort, SvcSequence, SvcBrakeHold
  <1>6. CASE SvcManualOn \/ SvcManualOff \/ SvcCancel
             \/ \E sustained \in BOOLEAN : SvcBrake(sustained)
    BY <1>6 DEF SvcManualOn, SvcManualOff, SvcCancel, SvcBrake
  <1>7. CASE GoalSteps
    BY <1>7, BrakeCount \in 0..BrakeCount
       DEF GoalSteps, GoalAccepted, GoalResumed, GoalDropped, GoalFailed,
       GoalNotSent, BackupEnded
  <1>8. CASE \E t \in Seqs : SequencePublish(t)
    BY <1>8 DEF SequencePublish
  <1>9. CASE \E h \in Holds : HoldSteps(h)
    BY <1>9 DEF HoldSteps, HoldCheck, HoldPublish, HoldExit
  <1>10. CASE UNCHANGED vars
    BY <1>10 DEF vars
  <1> QED
    BY <1>1, <1>2, <1>3, <1>4, <1>5, <1>6, <1>7, <1>8, <1>9, <1>10
       DEF Next, ServiceSteps

(* Every step keeps the registration of the brake hold well typed.         *)
LEMMA RegType == TypeOK /\ [Next]_vars => (reg \in Holds \cup {NoHold})'
  <1> SUFFICES ASSUME TypeOK, [Next]_vars PROVE (reg \in Holds \cup {NoHold})'
    OBVIOUS
  <1> USE DEF TypeOK, holds, CancelHold, ManualOn
  <1>1. CASE SafeSteps
    BY <1>1 DEF SafeSteps, SafeReadBackup, SafeBackup, SafePublish, SafeRead
  <1>2. CASE CollisionSteps
    BY <1>2 DEF CollisionSteps, CollisionBackup, SubSequence, CollisionState
  <1>3. CASE TeleopSteps
    BY <1>3 DEF TeleopSteps, TeleopRest, TeleopStart, TeleopMode, TeleopDetach,
       TeleopStop, TeleopCmd, TeleopPublish
  <1>4. CASE WatchdogSteps \/ CmdAges
    BY <1>4 DEF WatchdogSteps, WatchdogRead, WatchdogStop, WatchdogMark, CmdAges
  <1>5. CASE ServiceRest
    BY <1>5 DEF ServiceRest, SvcDetach, SvcManualStop, SvcCancelStop,
       SvcBrakeCancel, SvcBrakeShort, SvcSequence, SvcBrakeHold
  <1>6. CASE SvcManualOn \/ SvcManualOff \/ SvcCancel
             \/ \E sustained \in BOOLEAN : SvcBrake(sustained)
    BY <1>6 DEF SvcManualOn, SvcManualOff, SvcCancel, SvcBrake
  <1>7. CASE GoalSteps
    BY <1>7 DEF GoalSteps, GoalAccepted, GoalResumed, GoalDropped, GoalFailed,
       GoalNotSent, BackupEnded
  <1>8. CASE \E t \in Seqs : SequencePublish(t)
    BY <1>8 DEF SequencePublish
  <1>9. CASE \E h \in Holds : HoldSteps(h)
    BY <1>9 DEF HoldSteps, HoldCheck, HoldPublish, HoldExit
  <1>10. CASE UNCHANGED vars
    BY <1>10 DEF vars
  <1> QED
    BY <1>1, <1>2, <1>3, <1>4, <1>5, <1>6, <1>7, <1>8, <1>9, <1>10
       DEF Next, ServiceSteps

(* Every step keeps the hold threads' places well typed.                   *)
LEMMA HoldPcType == TypeOK /\ [Next]_vars => (hpc \in [Holds -> {"idle", "check", "pub", "exit"}])'
  <1> SUFFICES ASSUME TypeOK, [Next]_vars PROVE (hpc \in [Holds -> {"idle", "check", "pub", "exit"}])'
    OBVIOUS
  <1> USE DEF TypeOK, holds, CancelHold, ManualOn
  <1>1. CASE SafeSteps
    BY <1>1 DEF SafeSteps, SafeReadBackup, SafeBackup, SafePublish, SafeRead
  <1>2. CASE CollisionSteps
    BY <1>2 DEF CollisionSteps, CollisionBackup, SubSequence, CollisionState
  <1>3. CASE TeleopSteps
    BY <1>3 DEF TeleopSteps, TeleopRest, TeleopStart, TeleopMode, TeleopDetach,
       TeleopStop, TeleopCmd, TeleopPublish
  <1>4. CASE WatchdogSteps \/ CmdAges
    BY <1>4 DEF WatchdogSteps, WatchdogRead, WatchdogStop, WatchdogMark, CmdAges
  <1>5. CASE ServiceRest
    BY <1>5 DEF ServiceRest, SvcDetach, SvcManualStop, SvcCancelStop,
       SvcBrakeCancel, SvcBrakeShort, SvcSequence, SvcBrakeHold
  <1>6. CASE SvcManualOn \/ SvcManualOff \/ SvcCancel
             \/ \E sustained \in BOOLEAN : SvcBrake(sustained)
    BY <1>6 DEF SvcManualOn, SvcManualOff, SvcCancel, SvcBrake
  <1>7. CASE GoalSteps
    BY <1>7 DEF GoalSteps, GoalAccepted, GoalResumed, GoalDropped, GoalFailed,
       GoalNotSent, BackupEnded
  <1>8. CASE \E t \in Seqs : SequencePublish(t)
    BY <1>8 DEF SequencePublish
  <1>9. CASE \E h \in Holds : HoldSteps(h)
    BY <1>9 DEF HoldSteps, HoldCheck, HoldPublish, HoldExit
  <1>10. CASE UNCHANGED vars
    BY <1>10 DEF vars
  <1> QED
    BY <1>1, <1>2, <1>3, <1>4, <1>5, <1>6, <1>7, <1>8, <1>9, <1>10
       DEF Next, ServiceSteps

(* Every step keeps the hold threads' cancel events well typed.            *)
LEMMA HoldCancelType == TypeOK /\ [Next]_vars => (hcancel \in [Holds -> BOOLEAN])'
  <1> SUFFICES ASSUME TypeOK, [Next]_vars PROVE (hcancel \in [Holds -> BOOLEAN])'
    OBVIOUS
  <1> USE DEF TypeOK, holds, CancelHold, ManualOn
  <1>1. CASE SafeSteps
    BY <1>1 DEF SafeSteps, SafeReadBackup, SafeBackup, SafePublish, SafeRead
  <1>2. CASE CollisionSteps
    BY <1>2 DEF CollisionSteps, CollisionBackup, SubSequence, CollisionState
  <1>3. CASE TeleopSteps
    BY <1>3 DEF TeleopSteps, TeleopRest, TeleopStart, TeleopMode, TeleopDetach,
       TeleopStop, TeleopCmd, TeleopPublish
  <1>4. CASE WatchdogSteps \/ CmdAges
    BY <1>4 DEF WatchdogSteps, WatchdogRead, WatchdogStop, WatchdogMark, CmdAges
  <1>5. CASE ServiceRest
    BY <1>5 DEF ServiceRest, SvcDetach, SvcManualStop, SvcCancelStop,
       SvcBrakeCancel, SvcBrakeShort, SvcSequence, SvcBrakeHold
  <1>6. CASE SvcManualOn \/ SvcManualOff \/ SvcCancel
             \/ \E sustained \in BOOLEAN : SvcBrake(sustained)
    BY <1>6 DEF SvcManualOn, SvcManualOff, SvcCancel, SvcBrake
  <1>7. CASE GoalSteps
    BY <1>7 DEF GoalSteps, GoalAccepted, GoalResumed, GoalDropped, GoalFailed,
       GoalNotSent, BackupEnded
  <1>8. CASE \E t \in Seqs : SequencePublish(t)
    BY <1>8 DEF SequencePublish
  <1>9. CASE \E h \in Holds : HoldSteps(h)
    BY <1>9 DEF HoldSteps, HoldCheck, HoldPublish, HoldExit
  <1>10. CASE UNCHANGED vars
    BY <1>10 DEF vars
  <1> QED
    BY <1>1, <1>2, <1>3, <1>4, <1>5, <1>6, <1>7, <1>8, <1>9, <1>10
       DEF Next, ServiceSteps

(* Every step keeps every variable in its type.                            *)
LEMMA TypeStep == TypeOK /\ [Next]_vars => TypeOK'
  BY SubType, SvcType, OutType, FlagType, ZoneType, CmdAgeType, StopSentType,
     StaleType, TakenByType, SequenceType, RegType, HoldPcType, HoldCancelType
     DEF TypeOK

----------------------------------------------------------------------------
(* Every step keeps an uncancelled hold the registered one.                *)
LEMMA LoneHoldStep == TypeOK /\ LoneHold /\ [Next]_vars => LoneHold'
  <1> SUFFICES ASSUME TypeOK /\ LoneHold, [Next]_vars PROVE LoneHold'
    OBVIOUS
  <1> USE GateAssumption DEF TypeOK, LoneHold, holds, CancelHold, ManualOn
  <1>1. CASE SafeSteps
    BY <1>1 DEF SafeSteps, SafeReadBackup, SafeBackup, SafePublish, SafeRead
  <1>2. CASE CollisionSteps
    BY <1>2 DEF CollisionSteps, CollisionBackup, SubSequence, CollisionState
  <1>3. CASE TeleopSteps
    BY <1>3 DEF TeleopSteps, TeleopRest, TeleopStart, TeleopMode, TeleopDetach,
       TeleopStop, TeleopCmd, TeleopPublish
  <1>4. CASE WatchdogSteps \/ CmdAges
    BY <1>4 DEF WatchdogSteps, WatchdogRead, WatchdogStop, WatchdogMark, CmdAges
  <1>5. CASE ServiceRest
    BY <1>5 DEF ServiceRest, SvcDetach, SvcManualStop, SvcCancelStop,
       SvcBrakeCancel, SvcBrakeShort, SvcSequence, SvcBrakeHold
  <1>6. CASE SvcManualOn \/ SvcManualOff \/ SvcCancel
             \/ \E sustained \in BOOLEAN : SvcBrake(sustained)
    BY <1>6 DEF SvcManualOn, SvcManualOff, SvcCancel, SvcBrake
  <1>7. CASE GoalSteps
    BY <1>7 DEF GoalSteps, GoalAccepted, GoalResumed, GoalDropped, GoalFailed,
       GoalNotSent, BackupEnded
  <1>8. CASE \E t \in Seqs : SequencePublish(t)
    BY <1>8 DEF SequencePublish
  <1>9. CASE \E h \in Holds : HoldSteps(h)
    BY <1>9 DEF HoldSteps, HoldCheck, HoldPublish, HoldExit
  <1>10. CASE UNCHANGED vars
    BY <1>10 DEF vars
  <1> QED
    BY <1>1, <1>2, <1>3, <1>4, <1>5, <1>6, <1>7, <1>8, <1>9, <1>10
       DEF Next, ServiceSteps

(* Every step keeps the copied STOP flag current.                          *)
LEMMA CopiedStopStep == TypeOK /\ CopiedStopIsCurrent /\ [Next]_vars => CopiedStopIsCurrent'
  <1> SUFFICES ASSUME TypeOK /\ CopiedStopIsCurrent, [Next]_vars PROVE CopiedStopIsCurrent'
    OBVIOUS
  <1> USE DEF TypeOK, CopiedStopIsCurrent, zones, Calls, Call, NoCall, SafeOutcome
  <1>1. CASE SafeSteps
    BY <1>1 DEF SafeSteps, SafeReadBackup, SafeBackup, SafePublish, SafeRead
  <1>2. CASE CollisionSteps
    BY <1>2 DEF CollisionSteps, CollisionBackup, SubSequence, CollisionState
  <1>3. CASE TeleopSteps
    BY <1>3 DEF TeleopSteps, TeleopRest, TeleopStart, TeleopMode, TeleopDetach,
       TeleopStop, TeleopCmd, TeleopPublish
  <1>4. CASE WatchdogSteps \/ CmdAges
    BY <1>4 DEF WatchdogSteps, WatchdogRead, WatchdogStop, WatchdogMark, CmdAges
  <1>5. CASE ServiceRest
    BY <1>5 DEF ServiceRest, SvcDetach, SvcManualStop, SvcCancelStop,
       SvcBrakeCancel, SvcBrakeShort, SvcSequence, SvcBrakeHold
  <1>6. CASE SvcManualOn \/ SvcManualOff \/ SvcCancel
             \/ \E sustained \in BOOLEAN : SvcBrake(sustained)
    BY <1>6 DEF SvcManualOn, SvcManualOff, SvcCancel, SvcBrake
  <1>7. CASE GoalSteps
    BY <1>7 DEF GoalSteps, GoalAccepted, GoalResumed, GoalDropped, GoalFailed,
       GoalNotSent, BackupEnded
  <1>8. CASE \E t \in Seqs : SequencePublish(t)
    BY <1>8 DEF SequencePublish
  <1>9. CASE \E h \in Holds : HoldSteps(h)
    BY <1>9 DEF HoldSteps, HoldCheck, HoldPublish, HoldExit
  <1>10. CASE UNCHANGED vars
    BY <1>10 DEF vars
  <1> QED
    BY <1>1, <1>2, <1>3, <1>4, <1>5, <1>6, <1>7, <1>8, <1>9, <1>10
       DEF Next, ServiceSteps

(* Every step keeps the AUTO message in flight within the zones.           *)
LEMMA ZonesStep == TypeOK /\ AutoRespectsZones /\ CopiedStopIsCurrent /\ [Next]_vars => AutoRespectsZones'
  <1> SUFFICES ASSUME TypeOK /\ AutoRespectsZones /\ CopiedStopIsCurrent, [Next]_vars PROVE AutoRespectsZones'
    OBVIOUS
  <1> USE DEF TypeOK, CopiedStopIsCurrent, AutoRespectsZones, zones, Calls, Call, NoCall
  <1>1. CASE SafeSteps
    <2>1. CASE SafeReadBackup \/ SafePublish
      BY <2>1 DEF SafeReadBackup, SafePublish
    <2>2. CASE SafeBackup
      BY <2>2 DEF SafeBackup, SafeOutcome
    <2>3. ASSUME NEW v \in Vel, SafeRead(v) PROVE AutoRespectsZones'
      <3>1. ~(backup /\ v = "fwd") /\ sub' = SafeOutcome(v, collisionStop, criticalSlow)
            /\ UNCHANGED <<collisionStop, criticalSlow, backup>>
        BY <2>3 DEF SafeRead, SafeDropped
      <3>2. CASE collisionStop \/ (criticalSlow /\ v = "fwd")
        BY <3>1, <3>2 DEF SafeOutcome
      <3>3. CASE ~(collisionStop \/ (criticalSlow /\ v = "fwd"))
        BY <3>1, <3>3 DEF SafeOutcome
      <3> QED BY <3>2, <3>3
    <2> QED BY <1>1, <2>1, <2>2, <2>3 DEF SafeSteps
  <1>2. CASE CollisionSteps
    BY <1>2 DEF CollisionSteps, CollisionBackup, SubSequence, CollisionState
  <1>3. CASE TeleopSteps
    BY <1>3 DEF TeleopSteps, TeleopRest, TeleopStart, TeleopMode, TeleopDetach,
       TeleopStop, TeleopCmd, TeleopPublish
  <1>4. CASE WatchdogSteps \/ CmdAges
    BY <1>4 DEF WatchdogSteps, WatchdogRead, WatchdogStop, WatchdogMark, CmdAges
  <1>5. CASE ServiceRest
    BY <1>5 DEF ServiceRest, SvcDetach, SvcManualStop, SvcCancelStop,
       SvcBrakeCancel, SvcBrakeShort, SvcSequence, SvcBrakeHold
  <1>6. CASE SvcManualOn \/ SvcManualOff \/ SvcCancel
             \/ \E sustained \in BOOLEAN : SvcBrake(sustained)
    BY <1>6 DEF SvcManualOn, SvcManualOff, SvcCancel, SvcBrake
  <1>7. CASE GoalSteps
    BY <1>7 DEF GoalSteps, GoalAccepted, GoalResumed, GoalDropped, GoalFailed,
       GoalNotSent, BackupEnded
  <1>8. CASE \E t \in Seqs : SequencePublish(t)
    BY <1>8 DEF SequencePublish
  <1>9. CASE \E h \in Holds : HoldSteps(h)
    BY <1>9 DEF HoldSteps, HoldCheck, HoldPublish, HoldExit
  <1>10. CASE UNCHANGED vars
    BY <1>10 DEF vars
  <1> QED
    BY <1>1, <1>2, <1>3, <1>4, <1>5, <1>6, <1>7, <1>8, <1>9, <1>10
       DEF Next, ServiceSteps

(* Every step keeps the history variables honest.                          *)
LEMMA HistoryStep == TypeOK /\ HistoryInv /\ [Next]_vars => HistoryInv'
  <1> SUFFICES ASSUME TypeOK /\ HistoryInv, [Next]_vars PROVE HistoryInv'
    OBVIOUS
  <1> USE DEF TypeOK, HistoryInv, flags, history, Publish, ManualOn, Detach,
          StopMsg, ManualStop, Calls, Call, NoCall, SafeOutcome, SafeDropped
  <1>1. CASE SafeSteps
    BY <1>1 DEF SafeSteps, SafeReadBackup, SafeBackup, SafePublish, SafeRead
  <1>2. CASE CollisionSteps
    BY <1>2 DEF CollisionSteps, CollisionBackup, SubSequence, CollisionState
  <1>3. CASE TeleopSteps
    BY <1>3 DEF TeleopSteps, TeleopRest, TeleopStart, TeleopMode, TeleopDetach,
       TeleopStop, TeleopCmd, TeleopPublish
  <1>4. CASE WatchdogSteps \/ CmdAges
    BY <1>4 DEF WatchdogSteps, WatchdogRead, WatchdogStop, WatchdogMark, CmdAges
  <1>5. CASE ServiceRest
    BY <1>5 DEF ServiceRest, SvcDetach, SvcManualStop, SvcCancelStop,
       SvcBrakeCancel, SvcBrakeShort, SvcSequence, SvcBrakeHold
  <1>6. CASE SvcManualOn \/ SvcManualOff \/ SvcCancel
             \/ \E sustained \in BOOLEAN : SvcBrake(sustained)
    BY <1>6 DEF SvcManualOn, SvcManualOff, SvcCancel, SvcBrake
  <1>7. CASE GoalSteps
    BY <1>7 DEF GoalSteps, GoalAccepted, GoalResumed, GoalDropped, GoalFailed,
       GoalNotSent, BackupEnded
  <1>8. CASE \E t \in Seqs : SequencePublish(t)
    BY <1>8 DEF SequencePublish
  <1>9. CASE \E h \in Holds : HoldSteps(h)
    BY <1>9 DEF HoldSteps, HoldCheck, HoldPublish, HoldExit
  <1>10. CASE UNCHANGED vars
    BY <1>10 DEF vars
  <1> QED
    BY <1>1, <1>2, <1>3, <1>4, <1>5, <1>6, <1>7, <1>8, <1>9, <1>10
       DEF Next, ServiceSteps

(* Every step keeps the vehicle still once the watchdog has marked its stop. *)
LEMMA WatchdogStep == TypeOK /\ WatchdogInv /\ [Next]_vars => WatchdogInv'
  <1> SUFFICES ASSUME TypeOK /\ WatchdogInv, [Next]_vars PROVE WatchdogInv'
    OBVIOUS
  <1> USE DEF TypeOK, WatchdogInv, flags, watchdog, Publish, ManualOn, Detach,
          StopMsg, ManualStop, Calls, Call, NoCall, SafeOutcome, SafeDropped
  <1>1. CASE SafeSteps
    BY <1>1 DEF SafeSteps, SafeReadBackup, SafeBackup, SafePublish, SafeRead
  <1>2. CASE CollisionSteps
    BY <1>2 DEF CollisionSteps, CollisionBackup, SubSequence, CollisionState
  <1>3. CASE TeleopSteps
    BY <1>3 DEF TeleopSteps, TeleopRest, TeleopStart, TeleopMode, TeleopDetach,
       TeleopStop, TeleopCmd, TeleopPublish
  <1>4. CASE WatchdogSteps \/ CmdAges
    BY <1>4 DEF WatchdogSteps, WatchdogRead, WatchdogStop, WatchdogMark, CmdAges
  <1>5. CASE ServiceRest
    BY <1>5 DEF ServiceRest, SvcDetach, SvcManualStop, SvcCancelStop,
       SvcBrakeCancel, SvcBrakeShort, SvcSequence, SvcBrakeHold
  <1>6. CASE SvcManualOn \/ SvcManualOff \/ SvcCancel
             \/ \E sustained \in BOOLEAN : SvcBrake(sustained)
    BY <1>6 DEF SvcManualOn, SvcManualOff, SvcCancel, SvcBrake
  <1>7. CASE GoalSteps
    <2>1. UNCHANGED <<manual, stopSent, sub, out>>
      BY <1>7 DEF GoalSteps, GoalAccepted, GoalResumed, GoalDropped, GoalFailed,
         GoalNotSent, BackupEnded
    <2> QED BY <2>1
  <1>8. CASE \E t \in Seqs : SequencePublish(t)
    BY <1>8 DEF SequencePublish
  <1>9. CASE \E h \in Holds : HoldSteps(h)
    BY <1>9 DEF HoldSteps, HoldCheck, HoldPublish, HoldExit
  <1>10. CASE UNCHANGED vars
    BY <1>10 DEF vars
  <1> QED
    BY <1>1, <1>2, <1>3, <1>4, <1>5, <1>6, <1>7, <1>8, <1>9, <1>10
       DEF Next, ServiceSteps

(* The inductive invariant holds at the start and survives every step.     *)
LEMMA InitIInv == Init => IInv
  BY InitType, GateAssumption DEF Init, IInv, AutoRespectsZones, CopiedStopIsCurrent,
     HistoryInv, WatchdogInv, LoneHold, NoCall, ManualStop

(* Every step of the arbiter preserves each part of IInv.                  *)
LEMMA NextIInv == IInv /\ [Next]_vars => IInv'
  BY TypeStep, LoneHoldStep, CopiedStopStep, ZonesStep, HistoryStep, WatchdogStep
     DEF IInv

(* IInv is an invariant of the arbiter.                                    *)
THEOREM Invariance == Spec => []IInv
  BY InitIInv, NextIInv, PTL DEF Spec

(* Every variable keeps its type.                                          *)
THEOREM TypeSafety == Spec => []TypeOK
  <1>1. IInv => TypeOK
    BY DEF IInv
  <1> QED BY <1>1, Invariance, PTL

(* No AUTO message follows a STOP, and no forward one a critical slow zone *)
(* or a backup, however the other threads interleave.                      *)
THEOREM ZoneSafety == Spec => []AutoRespectsZones
  <1>1. IInv => AutoRespectsZones
    BY DEF IInv
  <1> QED BY <1>1, Invariance, PTL

(* At most one AUTO message is published under manual mode, and none when  *)
(* a teleop message took it.                                               *)
THEOREM TakeoverSafety == Spec => []TakeoverIsBounded
  <1>1. IInv => TakeoverIsBounded
    BY DEF IInv, HistoryInv, TakeoverIsBounded
  <1> QED BY <1>1, Invariance, PTL

(* When the watchdog has marked its stop as sent, the vehicle was told to  *)
(* stand still last.                                                       *)
THEOREM WatchdogSafety == Spec => []WatchdogMarkIsHonest
  <1>1. IInv => WatchdogMarkIsHonest
    BY DEF IInv, WatchdogInv, WatchdogMarkIsHonest
  <1> QED BY <1>1, Invariance, PTL

(* Every brake hold that is not cancelled is the registered one.           *)
THEOREM HoldSafety == Spec => []LoneHold
  <1>1. IInv => LoneHold
    BY DEF IInv
  <1> QED BY <1>1, Invariance, PTL

----------------------------------------------------------------------------
(* The refinement: a publication is a motion that was decided, or a stop;  *)
(* every other step decides, or leaves what DriveAuthority speaks of alone.*)

MessageStep  == Authority!Move \/ Authority!Halt
DecisionStep == [Authority!Decisions]_(Authority!authority)

(* What the four parts of the picture depend on.                           *)
LEMMA PictureDepends ==
  /\ UNCHANGED <<manual, stopSent, navigating>> => Mode' = Mode
  /\ UNCHANGED zones => Barred' = Barred
  /\ UNCHANGED sub => Late' = Late
  /\ sub.pc \notin {"auto", "pub"} => Late = "nothing"
  /\ sub'.pc \notin {"auto", "pub"} => Late' = "nothing"
  /\ UNCHANGED out => Word' = Word
  /\ out'.vel = "zero" => Word' = "still"
  BY DEF Mode, Barred, Late, Word, Motion, zones

(* The published stops stop. *)
LEMMA StopsAreStill == \A m : Publish(m) /\ m.vel = "zero" => Word' = "still"
  BY DEF Publish, Word

(* Nobody is told to be silent here: a step of Switch, or none.            *)
LEMMA SwitchStep ==
  ASSUME UNCHANGED <<Barred, Late, Word>>, manual' /\ stopSent' => manual /\ stopSent
  PROVE  DecisionStep
  <1>1. Mode' \in {"auto", "idle", "manual"} \/ Mode' = Mode
    BY DEF Mode
  <1>2. CASE Mode' = Mode
    BY <1>2 DEF DecisionStep, Authority!authority
  <1>3. CASE Mode' \in {"auto", "idle", "manual"}
    BY <1>3 DEF DecisionStep, Authority!Decisions, Authority!Switch
  <1> QED BY <1>1, <1>2, <1>3

(* A stop of any callback or thread is a step of Halt.                     *)
LEMMA HaltStep ==
  ASSUME UNCHANGED <<Mode, Barred, Late>>, Word' = "still"
  PROVE  MessageStep
  BY DEF MessageStep, Authority!Halt, Authority!Still

(* A motion in flight is not one the zones forbid.                         *)
LEMMA LateIsAllowed == AutoRespectsZones => Late \notin Barred
  BY DEF AutoRespectsZones, Late, Barred, AutoMotions, Motion

(* When no motion is in flight the zones may change in any way.            *)
LEMMA BarStep ==
  ASSUME UNCHANGED <<Mode, Late, Word>>, Late \notin Barred'
  PROVE  DecisionStep
  <1>1. Barred' \in SUBSET ({"autoForward", "autoReverse"} \ {Late})
    BY DEF Barred, AutoMotions
  <1> QED
    BY <1>1 DEF DecisionStep, Authority!Decisions, Authority!Bar,
                AutoMotions

(* Every publication is a message of what was decided, or a stop.          *)
LEMMA PublicationStep == IInv /\ Publications => MessageStep
  <1> SUFFICES ASSUME IInv, Publications PROVE MessageStep
    OBVIOUS
  <1>0. sub \in Calls(SubPc)
    BY DEF IInv, TypeOK
  <1>1. CASE SafePublish
    <2>1. /\ UNCHANGED <<manual, stopSent, navigating, zones>>
          /\ sub' = NoCall /\ Late' = "nothing"
      BY <1>1 DEF SafePublish, flags, watchdog, NoCall, Late
    <2>2. CASE Late = "nothing"
      <3>1. Word' = "still"
        BY <1>1, <2>2 DEF SafePublish, Publish, Late, Motion, StopMsg, Word
      <3> QED BY <2>1, <2>2, <3>1, PictureDepends, HaltStep
    <2>3. CASE Late # "nothing"
      <3>1. sub.pc = "auto" /\ sub.vel # "zero" /\ Late = Motion("auto", sub.vel)
        BY <1>1, <2>3 DEF SafePublish, Late
      <3>2. out' = [src |-> "auto", vel |-> sub.vel]
        BY <1>1, <3>1 DEF SafePublish, Publish
      <3>3. Word' = Late
        BY <3>1, <3>2 DEF Word
      <3> QED
        BY <2>1, <2>3, <3>3, PictureDepends
           DEF MessageStep, Authority!Move, Authority!Nothing
    <2> QED BY <2>2, <2>3
  <1>2. CASE TeleopPublish
    <2>1. /\ sub.pc = "pub" /\ Late' = "nothing"
          /\ UNCHANGED <<manual, stopSent, navigating, zones>>
          /\ out' = [src |-> "manual", vel |-> sub.vel]
      BY <1>2 DEF TeleopPublish, Publish, flags, watchdog, NoCall, Late
    <2>2. CASE sub.vel = "zero"
      <3>1. Late = "nothing" /\ Word' = "still"
        BY <2>1, <2>2 DEF Late, Word
      <3> QED BY <2>1, <3>1, PictureDepends, HaltStep
    <2>3. CASE sub.vel # "zero"
      <3>1. Late = "manual" /\ Word' = "manual"
        BY <2>1, <2>3 DEF Late, Word, Motion
      <3> QED
        BY <2>1, <3>1, PictureDepends
           DEF MessageStep, Authority!Move, Authority!Nothing
    <2> QED BY <2>2, <2>3
  <1>3. CASE SubSequence \/ TeleopStop \/ WatchdogStop
    <2>1. /\ sub.pc \notin {"auto", "pub"} /\ sub'.pc \notin {"auto", "pub"}
          /\ UNCHANGED <<manual, stopSent, navigating, zones>>
      BY <1>0, <1>3 DEF SubSequence, TeleopStop, WatchdogStop, flags, watchdog, NoCall, Calls
    <2>2. Word' = "still"
      BY <1>3, StopsAreStill DEF SubSequence, TeleopStop, WatchdogStop, StopMsg, ManualStop
    <2> QED BY <2>1, <2>2, PictureDepends, HaltStep
  <1>4. CASE \/ SvcManualStop \/ SvcCancelStop \/ SvcSequence
             \/ \E t \in Seqs : SequencePublish(t)
             \/ \E h \in Holds : HoldPublish(h)
    <2>1. UNCHANGED <<manual, stopSent, navigating, zones, sub>>
      BY <1>4 DEF SvcManualStop, SvcCancelStop, SvcSequence, SequencePublish, HoldPublish,
                  flags, watchdog
    <2>2. Word' = "still"
      BY <1>4, StopsAreStill DEF SvcManualStop, SvcCancelStop, SvcSequence, SequencePublish,
                                 HoldPublish, StopMsg, ManualStop
    <2> QED BY <2>1, <2>2, PictureDepends, HaltStep
  <1> QED BY <1>1, <1>2, <1>3, <1>4 DEF Publications

(* The callback of the safe velocity.                                      *)
LEMMA SafeStep ==
  ASSUME IInv, SafeSteps, ~Publications
  PROVE  DecisionStep
  <1>0. TypeOK /\ AutoRespectsZones /\ sub \in Calls(SubPc) /\ sub.vel \in Vel
    BY DEF IInv, TypeOK, Calls
  <1>1. CASE SafeReadBackup
    <2>1. sub.pc = "idle" /\ sub'.pc = "backup"
          /\ UNCHANGED <<manual, stopSent, navigating, zones, out>>
      BY <1>1 DEF SafeReadBackup, Call, flags, watchdog
    <2> QED BY <2>1, PictureDepends, SwitchStep
  <1>2. CASE SafeBackup
    <2>1. /\ sub.pc = "backup" /\ Late = "nothing"
          /\ UNCHANGED <<manual, stopSent, navigating, out>>
      BY <1>2, PictureDepends DEF SafeBackup, flags, watchdog
    <2>2. Late' = "nothing"
      BY <1>2 DEF SafeBackup, SafeOutcome, Late, Call, NoCall
    <2>3. "nothing" \notin Barred'
      BY DEF Barred, AutoMotions
    <2> QED BY <2>1, <2>2, <2>3, PictureDepends, BarStep
  <1>3. ASSUME NEW v \in Vel, SafeRead(v) PROVE DecisionStep
    <2>1. /\ sub.pc = "idle" /\ Late = "nothing"
          /\ UNCHANGED <<manual, stopSent, navigating, zones, out>>
          /\ sub' = SafeOutcome(v, collisionStop, criticalSlow)
      BY <1>3, PictureDepends DEF SafeRead, flags, watchdog
    <2>2. CASE Late' = "nothing"
      BY <2>1, <2>2, PictureDepends, SwitchStep
    <2>3. CASE Late' # "nothing"
      <3>1. v # "zero" /\ sub' = Call("auto", v, FALSE, 0)
            /\ ~(collisionStop \/ (criticalSlow /\ v = "fwd"))
        BY <2>1, <2>3 DEF SafeOutcome, Late, Call
      <3>2. Late' = Motion("auto", v) /\ v \in {"fwd", "rev"}
        BY <3>1 DEF Late, Call, Vel
      <3>3. ~manual /\ (navigating \/ ForwardWithoutGoal) /\ ~(backup /\ v = "fwd")
        BY <1>3 DEF SafeRead, SafeDropped
      <3>4. Late' \in {"autoForward", "autoReverse"} \ Barred
        BY <3>1, <3>2, <3>3 DEF Motion, Barred
      <3>5. Mode = "auto"
        BY <3>3 DEF Mode
      <3> QED
        BY <2>1, <3>4, <3>5, PictureDepends
           DEF DecisionStep, Authority!Decisions, Authority!Decide,
               AutoMotions, Authority!Nothing
    <2> QED BY <2>2, <2>3
  <1> QED BY <1>1, <1>2, <1>3 DEF SafeSteps, Publications

(* The collision monitor, and the end of a backup.                         *)
LEMMA CollisionStep ==
  ASSUME IInv, CollisionSteps \/ BackupEnded, ~Publications
  PROVE  DecisionStep
  <1>0. "nothing" \notin Barred'
    BY DEF Barred, AutoMotions
  <1>1. CASE CollisionBackup
    <2>1. /\ sub.pc = "colbackup" /\ sub'.pc \in {"idle", "seq"}
          /\ UNCHANGED <<manual, stopSent, navigating, out>>
      BY <1>1 DEF CollisionBackup, flags, watchdog, Call, NoCall
    <2> QED BY <1>0, <2>1, PictureDepends, BarStep
  <1>2. ASSUME NEW kind \in CollisionKind, CollisionState(kind) PROVE DecisionStep
    <2>1. /\ sub.pc = "idle" /\ sub'.pc \in {"idle", "colbackup", "seq"}
          /\ UNCHANGED <<manual, stopSent, navigating, out>>
      BY <1>2 DEF CollisionState, flags, watchdog, Call, NoCall
    <2> QED BY <1>0, <2>1, PictureDepends, BarStep
  <1>3. CASE BackupEnded
    <2>1. /\ UNCHANGED <<manual, stopSent, navigating, sub, out, collisionStop, criticalSlow>>
          /\ backup' = FALSE
      BY <1>3 DEF BackupEnded, flags, watchdog
    <2>2. Late \notin Barred
      BY LateIsAllowed DEF IInv
    <2>3. Late \notin Barred'
      BY <2>1, <2>2 DEF Barred
    <2> QED BY <2>1, <2>3, PictureDepends, BarStep
  <1> QED BY <1>1, <1>2, <1>3 DEF CollisionSteps, Publications

(* The operator's messages.                                                *)
LEMMA TeleopStep ==
  ASSUME IInv, TeleopSteps, ~Publications
  PROVE  DecisionStep
  <1>0. sub \in Calls(SubPc) /\ WatchdogInv
    BY DEF IInv, TypeOK
  <1>1. ASSUME NEW v \in TeleopVel, TeleopStart(v) PROVE DecisionStep
    <2>1. /\ sub.pc = "idle" /\ sub'.pc \in {"cmd", "mode"}
          /\ UNCHANGED <<manual, stopSent, navigating, zones, out>>
      BY <1>1 DEF TeleopStart, Call, flags, watchdog
    <2> QED BY <2>1, PictureDepends, SwitchStep
  <1>2. CASE TeleopMode
    <2>1. /\ sub.pc = "mode" /\ sub'.pc \in {"detach", "mstop"}
          /\ stopSent' = FALSE /\ UNCHANGED <<zones, out>>
      BY <1>0, <1>2 DEF TeleopMode, ManualOn, Calls
    <2> QED BY <2>1, PictureDepends, SwitchStep
  <1>3. CASE TeleopDetach
    <2>1. /\ sub.pc = "detach" /\ sub'.pc = "mstop"
          /\ UNCHANGED <<manual, stopSent, zones, out>>
      BY <1>0, <1>3 DEF TeleopDetach, Detach, watchdog, Calls
    <2> QED BY <2>1, PictureDepends, SwitchStep
  <1>4. CASE TeleopCmd
    <2>1. sub.pc = "cmd" /\ Late = "nothing" /\ UNCHANGED <<manual, navigating, zones, out>>
      BY <1>4, PictureDepends DEF TeleopCmd, flags
    <2>2. CASE sub' = NoCall /\ UNCHANGED watchdog
      <3>1. sub'.pc = "idle" /\ UNCHANGED stopSent
        BY <2>2 DEF NoCall, watchdog
      <3> QED BY <2>1, <3>1, PictureDepends, SwitchStep
    <2>3. CASE manual /\ sub' = [sub EXCEPT !.pc = "pub"] /\ stopSent' = FALSE
      <3>1. sub' = [sub EXCEPT !.pc = "pub"] /\ stopSent' = FALSE
        BY <2>3
      <3>2. sub'.pc = "pub"
        BY <1>0, <3>1 DEF Calls
      <3>3. Late' \in {"manual", "nothing"}
        BY <3>2 DEF Late, Motion
      <3>4. Mode \in {"manual", "calm"} /\ Mode' = "manual"
        BY <2>1, <2>3, <3>1 DEF Mode
      <3> QED
        BY <2>1, <3>3, <3>4, PictureDepends
           DEF DecisionStep, Authority!Decisions, Authority!Command,
               Authority!Nothing
    <2> QED BY <1>4, <2>2, <2>3 DEF TeleopCmd
  <1> QED BY <1>1, <1>2, <1>3, <1>4 DEF TeleopSteps, TeleopRest, Publications

(* The manual watchdog: its mark is the beginning of the silence.          *)
LEMMA WatchdogSilence ==
  ASSUME IInv, WatchdogSteps, ~Publications
  PROVE  DecisionStep
  <1>0. sub \in Calls(SubPc) /\ WatchdogInv
    BY DEF IInv, TypeOK
  <1>1. CASE WatchdogRead
    <2>1. /\ sub.pc = "idle" /\ sub'.pc = "wstop"
          /\ UNCHANGED <<manual, stopSent, zones, out>>
      BY <1>1 DEF WatchdogRead, Call, flags, watchdog
    <2> QED BY <2>1, PictureDepends, SwitchStep
  <1>2. CASE WatchdogMark
    <2>1. /\ sub.pc = "wmark" /\ sub'.pc = "idle" /\ stopSent' = TRUE
          /\ UNCHANGED <<manual, navigating, zones, out>>
      BY <1>2 DEF WatchdogMark, flags, NoCall
    <2>2. CASE manual /\ ~stopSent
      <3>1. Mode = "manual" /\ Mode' = "calm"
        BY <2>1, <2>2 DEF Mode
      <3>2. Word = "still"
        BY <1>0, <2>1 DEF WatchdogInv, Word
      <3> QED
        BY <2>1, <3>1, <3>2, PictureDepends
           DEF DecisionStep, Authority!Decisions, Authority!Calm,
               Authority!Nothing, Authority!Still
    <2>3. CASE ~(manual /\ ~stopSent)
      BY <2>1, <2>3, PictureDepends, SwitchStep
    <2> QED BY <2>2, <2>3
  <1> QED BY <1>1, <1>2 DEF WatchdogSteps, Publications

(* The services, the goals and the threads: they take or leave the         *)
(* authority.                                                              *)
LEMMA OthersStep ==
  ASSUME IInv,
         \/ CmdAges \/ ServiceSteps \/ GoalSteps
         \/ \E t \in Seqs : SequencePublish(t)
         \/ \E h \in Holds : HoldSteps(h),
         ~Publications
  PROVE  DecisionStep
  <1>1. CASE BackupEnded
    BY <1>1, CollisionStep
  <1>2. CASE \/ SvcDetach \/ SvcBrakeCancel \/ SvcBrakeShort \/ SvcManualOn \/ SvcManualOff
             \/ SvcCancel \/ (\E h \in Holds : SvcBrakeHold(h))
             \/ \E sustained \in BOOLEAN : SvcBrake(sustained)
    <2>1. CASE SvcManualOn \/ SvcManualOff
      <3>1. UNCHANGED <<zones, sub, out>> /\ stopSent' = FALSE
        BY <2>1 DEF SvcManualOn, SvcManualOff, ManualOn
      <3> QED BY <3>1, PictureDepends, SwitchStep
    <2>2. CASE SvcDetach \/ SvcCancel \/ SvcBrakeCancel
      <3>1. UNCHANGED <<zones, sub, out, manual, stopSent>>
        BY <2>2 DEF SvcDetach, SvcCancel, SvcBrakeCancel, Detach, watchdog
      <3> QED BY <3>1, PictureDepends, SwitchStep
    <2>3. CASE \/ SvcBrakeShort \/ (\E h \in Holds : SvcBrakeHold(h))
               \/ \E sustained \in BOOLEAN : SvcBrake(sustained)
      <3>1. UNCHANGED <<zones, sub, out, manual, stopSent>>
        BY <2>3 DEF SvcBrakeShort, SvcBrakeHold, SvcBrake, flags, watchdog
      <3> QED BY <3>1, PictureDepends, SwitchStep
    <2> QED BY <1>2, <2>1, <2>2, <2>3
  <1>3. CASE \/ CmdAges \/ GoalAccepted \/ GoalResumed \/ GoalDropped \/ GoalNotSent
             \/ (\E t \in Seqs : GoalFailed(t))
             \/ \E h \in Holds : HoldCheck(h) \/ HoldExit(h)
    <2>1. UNCHANGED <<zones, sub, out, manual, stopSent>>
      BY <1>3 DEF CmdAges, GoalAccepted, GoalResumed, GoalDropped, GoalNotSent, GoalFailed,
                  HoldCheck, HoldExit, flags, watchdog
    <2> QED BY <2>1, PictureDepends, SwitchStep
  <1> QED BY <1>1, <1>2, <1>3
        DEF ServiceSteps, ServiceRest, GoalSteps, HoldSteps, Publications

(* Every other section decides, or leaves the authority alone.             *)
LEMMA QuietStep == IInv /\ [Next]_vars /\ ~Publications => DecisionStep
  <1> SUFFICES ASSUME IInv, [Next]_vars, ~Publications PROVE DecisionStep
    OBVIOUS
  <1>1. CASE Next
    BY <1>1, SafeStep, CollisionStep, TeleopStep, WatchdogSilence, OthersStep DEF Next
  <1>2. CASE UNCHANGED vars
    <2>1. UNCHANGED <<manual, stopSent, navigating, zones, sub, out>>
      BY <1>2 DEF vars, flags, watchdog
    <2> QED BY <2>1, PictureDepends, SwitchStep
  <1> QED BY <1>1, <1>2

LEMMA AuthorityInit == Init => Authority!Init
  <1> SUFFICES ASSUME Init PROVE Authority!Init
    OBVIOUS
  <1>1. Mode \in {"auto", "idle"} /\ Late = "nothing" /\ Word = "still"
    BY DEF Init, Mode, Late, Word, NoCall, ManualStop
  <1>2. Barred = {}
    BY DEF Init, Barred
  <1> QED BY <1>1, <1>2 DEF Authority!Init, Authority!Nothing, Authority!Still

(* Whatever the callbacks, services and threads do, the vehicle is moved   *)
(* as DriveAuthority promises: by motions that were decided while their    *)
(* source was in charge and the zones allowed them, each once, and after   *)
(* the watchdog's mark by none before the operator's next command.         *)
THEOREM DrivesSafety == Spec => DrivesAsPromised
  <1>1. IInv /\ [Next]_vars => [Authority!Next]_(Authority!authority)
    BY PublicationStep, QuietStep DEF MessageStep, DecisionStep, Authority!Next
  <1> QED
    BY <1>1, AuthorityInit, Invariance, PTL DEF Spec, DrivesAsPromised, Authority!Spec

----------------------------------------------------------------------------
(* The whole path: CommandPath is a CommandChain.                          *)

(* A step of the path is one of nav_command_server, or leaves it alone.    *)
LEMMA PathKeeps == IInv /\ [PathNext]_pvars => IInv'
  <1>1. [PathNext]_pvars => [Next]_vars
    BY DEF PathNext, pvars, GateStep, ControllerStep
  <1> QED BY <1>1, NextIInv

LEMMA PathInvariance == PathSpec => []IInv
  <1>1. PathInit => IInv
    BY InitIInv DEF PathInit
  <1> QED BY <1>1, PathKeeps, PTL DEF PathSpec

(* What nav_command_server does is a publication or a decision of the      *)
(* chain; a message it publishes has the word it decided.                  *)
LEMMA GateIsChain == IInv /\ GateStep => [Chain!ChainNext]_(Chain!cvars)
  <1> SUFFICES ASSUME IInv, GateStep PROVE [Chain!ChainNext]_(Chain!cvars)
    OBVIOUS
  <1>0. Next /\ UNCHANGED Chain!vars
    BY DEF GateStep, link, Chain!vars, Chain!node
  <1>1. CASE Publications
    <2>1. \E t \in Twists : t.word = Word' /\ queue' = Chain!Keep(t)
      BY <1>1 DEF GateStep
    <2>2. Chain!Gate!Move \/ Chain!Gate!Halt
      BY <1>1, PublicationStep
         DEF MessageStep, Authority!Move, Authority!Halt, Authority!Nothing, Authority!Still,
             Chain!Gate!Move, Chain!Gate!Halt, Chain!Gate!Nothing, Chain!Gate!Still
    <2> QED BY <1>0, <2>1, <2>2 DEF Chain!ChainNext, Chain!Publication
  <1>2. CASE ~Publications
    <2>1. UNCHANGED queue
      BY <1>2 DEF GateStep
    <2>2. DecisionStep
      BY <1>0, <1>2, QuietStep
    <2>3. CASE Authority!Decisions
      <3>1. Chain!Gate!Decisions
        BY <2>3 DEF Authority!Decisions, Authority!Switch, Authority!Bar, Authority!Decide,
                    Authority!Command, Authority!Calm, Authority!Nothing, Authority!Still,
                    Chain!Gate!Decisions, Chain!Gate!Switch, Chain!Gate!Bar, Chain!Gate!Decide,
                    Chain!Gate!Command, Chain!Gate!Calm, Chain!Gate!Nothing, Chain!Gate!Still
      <3> QED BY <1>0, <2>1, <3>1 DEF Chain!ChainNext, Chain!Decision
    <2>4. CASE UNCHANGED Authority!authority
      BY <1>0, <2>1, <2>4 DEF Authority!authority, Chain!cvars, Chain!gate
    <2> QED BY <2>2, <2>3, <2>4 DEF DecisionStep
  <1> QED BY <1>1, <1>2

(* Every behaviour of the two nodes and the topic is one of the chain.     *)
THEOREM PathRefinesChain == PathSpec => PathIsChain
  <1>1. PathInit => Chain!ChainInit
    <2> SUFFICES ASSUME PathInit PROVE Chain!ChainInit
      OBVIOUS
    <2>1. Authority!Init
      BY AuthorityInit DEF PathInit
    <2>2. Chain!Gate!Init
      BY <2>1 DEF Authority!Init, Authority!Nothing, Authority!Still,
                  Chain!Gate!Init, Chain!Gate!Nothing, Chain!Gate!Still
    <2> QED BY <2>2 DEF PathInit, Chain!ChainInit
  <1>2. IInv /\ [PathNext]_pvars => [Chain!ChainNext]_(Chain!cvars)
    <2> SUFFICES ASSUME IInv, [PathNext]_pvars PROVE [Chain!ChainNext]_(Chain!cvars)
      OBVIOUS
    <2>1. CASE GateStep
      BY <2>1, GateIsChain
    <2>2. CASE ControllerStep
      BY <2>2 DEF ControllerStep, Chain!ChainNext
    <2>3. CASE UNCHANGED pvars
      <3>1. UNCHANGED <<Mode, Barred, Late, Word>>
        BY <2>3, PictureDepends DEF pvars, vars, flags, watchdog
      <3> QED
        BY <2>3, <3>1 DEF pvars, link, Chain!cvars, Chain!vars, Chain!node, Chain!gate
    <2> QED BY <2>1, <2>2, <2>3 DEF PathNext
  <1> QED
    BY <1>1, <1>2, PathInvariance, PTL DEF PathSpec, PathIsChain, Chain!ChainSpec

(* From the flags of nav_command_server to the frame on the wire: once the *)
(* messages are heard and a frame contains the last of them, the vehicle   *)
(* moves only if that message was a motion, an AUTO motion only in its     *)
(* direction, and not after the manual watchdog took its stop for sent.    *)
THEOREM PathLastWord ==
  ASSUME Chain!ChainAssumption, Chain!LinkAssumption
  PROVE  PathSpec => []Chain!LastWordHolds
  <1>1. Chain!ChainSpec => []Chain!LastWordHolds
    BY Chain!LastWord
  <1> QED BY <1>1, PathRefinesChain, PTL DEF PathIsChain
=============================================================================
