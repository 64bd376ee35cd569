-------------------------- MODULE NavGoals_proofs --------------------------
(***************************************************************************)
(* Proofs about NavGoals, for any number of goals and workers and whatever *)
(* waits may time out.                                                     *)
(*                                                                         *)
(* HandleWillEnd is not inductive: the goal that becomes current when Nav2 *)
(* accepts it must be one that nobody has cancelled and whose result       *)
(* callback has not run.  SendInv says why: a goal a handler waits for was *)
(* sent by that handler alone and its callback is not registered yet, and  *)
(* only a goal with a registered callback is ever cancelled.               *)
(***************************************************************************)
EXTENDS NavGoals, FiniteSetTheorems, TLAPS

Labels == {"idle", "begin", "detach", "cancelwait", "clear", "send", "wait", "config", "fail",
           "brakedetach", "brakewait", "manualdetach", "manual", "check", "backup", "recheck",
           "restore", "end", "armed", "main", "final", "done"}

TypeInv ==
    /\ st \in [Goals -> {"unsent", "sent", "rejected", "running"} \cup Ended]
    /\ cancelReq \in [Goals -> BOOLEAN]
    /\ handle \in Goals \cup {None}
    /\ toCancel \subseteq Goals
    /\ pc \in [Actors -> Labels]
    /\ at \in [Actors -> Goals \cup {None}]

SendInv ==
    /\ \A g \in Goals : st[g] = "unsent" => pc[g] = "idle"
    /\ \A g \in Goals : pc[g] = "idle" => ~cancelReq[g] /\ g \notin toCancel
    /\ \A a \in Actors : pc[a] = "wait" =>
          at[a] \in Goals /\ st[at[a]] # "unsent" /\ pc[at[a]] = "idle"
    /\ \A a, b \in Actors : pc[a] = "wait" /\ pc[b] = "wait" /\ at[a] = at[b] => a = b
    /\ handle # None => pc[handle] # "idle"

SoundInv == TypeInv /\ SendInv

\* Without the backup manoeuvre no result is ever ignored.
HandleInv ==
    /\ ~BackupEnabled => ignore = 0 /\ pc[Bk] = "idle"
    /\ ~BackupEnabled => HandleWillEnd

\* While the mode is "collision_backup" the recovery thread has a step to
\* take that leaves it.
BackupInv ==
    /\ pc[Bk] # "idle" => backup
    /\ mode = "collision_backup" =>
          pc[Bk] \in {"cancelwait", "backup", "recheck", "send", "wait", "fail"}
-----------------------------------------------------------------------------
(* The actors that are not goals differ from each other and from goals.    *)
LEMMA Distinct ==
  /\ Svc \notin Goals /\ Tel \notin Goals /\ Bk \notin Goals /\ None \notin Goals
  /\ Svc # Tel /\ Svc # Bk /\ Tel # Bk
  <1>1. \A a, b, c : Cardinality({a, b, c}) # 4
    <2>1. SUFFICES ASSUME NEW a, NEW b, NEW c
                   PROVE  Cardinality({a, b, c}) # 4
      OBVIOUS
    <2>2. IsFiniteSet({a}) /\ Cardinality({a}) = 1
      BY FS_Singleton
    <2>3. IsFiniteSet({a} \cup {b}) /\ Cardinality({a} \cup {b}) \in {1, 2}
      BY <2>2, FS_AddElement
    <2>4. Cardinality(({a} \cup {b}) \cup {c}) \in {1, 2, 3}
      BY <2>3, FS_AddElement
    <2>5. ({a} \cup {b}) \cup {c} = {a, b, c}
      OBVIOUS
    <2>6. QED
      BY <2>4, <2>5
  <1>2. Svc = Tel => {None, Svc, Tel, Bk} = {None, Svc, Bk}
    OBVIOUS
  <1>3. Svc = Bk => {None, Svc, Tel, Bk} = {None, Svc, Tel}
    OBVIOUS
  <1>4. Tel = Bk => {None, Svc, Tel, Bk} = {None, Svc, Tel}
    OBVIOUS
  <1>5. Svc # Tel /\ Svc # Bk /\ Tel # Bk
    <2>1. Cardinality({None, Svc, Tel, Bk}) = 4
      BY NavAssumption
    <2>2. Svc # Tel
      BY <2>1, <1>1, <1>2
    <2>3. Svc # Bk
      BY <2>1, <1>1, <1>3
    <2>4. Tel # Bk
      BY <2>1, <1>1, <1>4
    <2>5. QED
      BY <2>2, <2>3, <2>4
  <1>6. QED
    BY <1>5, NavAssumption

(* At the start no goal has been sent.                                     *)
LEMMA InitSound ==
  ASSUME Init
  PROVE  SoundInv /\ HandleInv /\ BackupInv
  <1>1. TypeInv
    <2>1. st \in [Goals -> {"unsent", "sent", "rejected", "running"} \cup Ended]
      BY DEF Init
    <2>2. cancelReq \in [Goals -> BOOLEAN] /\ handle \in Goals \cup {None} /\ toCancel \subseteq Goals
      BY DEF Init
    <2>3. pc \in [Actors -> Labels] /\ at \in [Actors -> Goals \cup {None}]
      BY DEF Init, Labels
    <2>4. QED
      BY <2>1, <2>2, <2>3 DEF TypeInv
  <1>2. SendInv
    BY DEF Init, SendInv, Actors
  <1>3. HandleInv /\ BackupInv
    BY DEF Init, HandleInv, BackupInv, HandleWillEnd, Actors
  <1>4. QED
    BY <1>1, <1>2, <1>3 DEF SoundInv

(* What every section does that sends no goal and gets no answer: an actor *)
(* moves on, drops the current goal or keeps it, and the only goal it may  *)
(* cancel or hand to a thread is the current one.                          *)
Moves(a, label, x) ==
    /\ label \in Labels \ {"wait"} /\ x \in Goals \cup {None}
    /\ a \in Goals => pc[a] # "idle" /\ label # "idle"
    /\ \/ pc' = pc /\ at' = at
       \/ pc' = [pc EXCEPT ![a] = label] /\ (at' = at \/ at' = [at EXCEPT ![a] = x])
    /\ st' = st
    /\ \/ handle' = handle /\ cancelReq' = cancelReq /\ toCancel' = toCancel
       \/ /\ handle' = None
          /\ toCancel' \subseteq toCancel \cup ({handle} \ {None})
          /\ cancelReq' = cancelReq \/ cancelReq' = [cancelReq EXCEPT ![handle] = TRUE]

LEMMA MovesOn ==
  ASSUME SoundInv, NEW a \in Actors, NEW label, NEW x, Moves(a, label, x)
  PROVE  SoundInv'
  <1> USE DEF Moves
  <1>1. pc' \in [Actors -> Labels] /\ at' \in [Actors -> Goals \cup {None}]
    BY DEF SoundInv, TypeInv
  <1>2. cancelReq' \in [Goals -> BOOLEAN]
    BY DEF SoundInv, TypeInv
  <1>3. handle' \in Goals \cup {None} /\ toCancel' \subseteq Goals
    BY DEF SoundInv, TypeInv
  <1>4. TypeInv'
    BY <1>1, <1>2, <1>3 DEF SoundInv, TypeInv
  <1>5. \A b \in Actors : pc'[b] = "wait" => pc[b] = "wait" /\ at'[b] = at[b]
    BY DEF SoundInv, TypeInv
  <1>6. \A g \in Goals : pc'[g] = "idle" <=> pc[g] = "idle"
    BY DEF SoundInv, TypeInv, Actors
  <1>7. \A b \in Actors : pc'[b] = "wait" =>
            at'[b] \in Goals /\ st'[at'[b]] # "unsent" /\ pc'[at'[b]] = "idle"
    BY <1>5, <1>6 DEF SoundInv, SendInv
  <1>8. \A b, c \in Actors : pc'[b] = "wait" /\ pc'[c] = "wait" /\ at'[b] = at'[c] => b = c
    BY <1>5 DEF SoundInv, SendInv
  <1>9. handle' # None => pc'[handle'] # "idle"
    BY <1>6 DEF SoundInv, SendInv, TypeInv
  <1>10. \A g \in Goals : pc[g] = "idle" => g # handle \/ handle = None
    BY DEF SoundInv, SendInv
  <1>11. \A g \in Goals : pc'[g] = "idle" => ~cancelReq'[g] /\ g \notin toCancel'
    <2>1. SUFFICES ASSUME NEW g \in Goals, pc[g] = "idle"
                   PROVE  ~cancelReq'[g] /\ g \notin toCancel'
      BY <1>6
    <2>2. ~cancelReq[g] /\ g \notin toCancel /\ (g # handle \/ handle = None)
      BY <2>1, <1>10 DEF SoundInv, SendInv
    <2>3. cancelReq'[g] = cancelReq[g]
      BY <2>2, Distinct DEF SoundInv, TypeInv
    <2>4. g \notin toCancel'
      BY <2>2
    <2>5. QED
      BY <2>2, <2>3, <2>4
  <1>12. \A g \in Goals : st'[g] = "unsent" => pc'[g] = "idle"
    BY <1>6 DEF SoundInv, SendInv
  <1>13. QED
    BY <1>4, <1>7, <1>8, <1>9, <1>11, <1>12 DEF SoundInv, SendInv

(* A goal is sent: it was in nobody's hands.                               *)
LEMMA Sent ==
  ASSUME SoundInv, NEW a \in Actors, NEW g \in Goals, pc[a] = "send", st[g] = "unsent",
         st' = [st EXCEPT ![g] = "sent"], at' = [at EXCEPT ![a] = g],
         pc' = [pc EXCEPT ![a] = "wait"],
         UNCHANGED <<cancelReq, handle, toCancel>>
  PROVE  SoundInv'
  <1>1. pc[g] = "idle" /\ a # g
    BY DEF SoundInv, SendInv
  <1>2. TypeInv'
    <2>1. pc' \in [Actors -> Labels]
      BY DEF SoundInv, TypeInv, Labels
    <2>2. QED
      BY <2>1 DEF SoundInv, TypeInv
  <1>3. \A b \in Actors : b # a => pc'[b] = pc[b] /\ at'[b] = at[b]
    BY DEF SoundInv, TypeInv
  <1>4. pc'[a] = "wait" /\ at'[a] = g
    BY DEF SoundInv, TypeInv
  <1>5. \A h \in Goals : /\ pc'[h] = "idle" <=> pc[h] = "idle"
                         /\ st'[h] # "unsent" <=> h = g \/ st[h] # "unsent"
    BY <1>3, <1>4 DEF SoundInv, TypeInv, Actors
  <1>6. \A b \in Actors : pc[b] = "wait" => at[b] # g
    BY DEF SoundInv, SendInv
  <1>7. \A b \in Actors : pc'[b] = "wait" =>
            at'[b] \in Goals /\ st'[at'[b]] # "unsent" /\ pc'[at'[b]] = "idle"
    BY <1>1, <1>3, <1>4, <1>5 DEF SoundInv, SendInv
  <1>8. \A b, c \in Actors : pc'[b] = "wait" /\ pc'[c] = "wait" /\ at'[b] = at'[c] => b = c
    BY <1>3, <1>4, <1>6 DEF SoundInv, SendInv
  <1>9. handle' # None => pc'[handle'] # "idle"
    BY <1>5 DEF SoundInv, SendInv, TypeInv
  <1>10. QED
    BY <1>2, <1>5, <1>7, <1>8, <1>9 DEF SoundInv, SendInv

(* A goal is accepted and becomes the current one.                         *)
LEMMA Taken ==
  ASSUME SoundInv, NEW a \in Actors, NEW next \in Labels \ {"wait"},
         a \in Goals => next # "idle", SendAccepted(a, next)
  PROVE  /\ SoundInv'
         /\ handle' \in Goals /\ handle' = at[a] /\ pc[handle'] = "idle" /\ pc'[handle'] = "armed"
         /\ ~cancelReq'[handle'] /\ handle' \notin toCancel'
  <1> DEFINE g == at[a]
  <1>1. /\ pc[a] = "wait" /\ g \in Goals /\ st[g] # "unsent" /\ pc[g] = "idle" /\ a # g
        /\ handle' = g /\ pc' = [pc EXCEPT ![a] = next, ![g] = "armed"]
        /\ at' = [at EXCEPT ![a] = None]
        /\ UNCHANGED <<st, cancelReq, toCancel>>
    BY DEF SoundInv, SendInv, SendAccepted, nav2, others
  <1>2. "armed" \in Labels /\ g \in Actors
    BY <1>1 DEF Labels, Actors
  <1>3. pc' \in [Actors -> Labels]
    BY <1>1, <1>2 DEF SoundInv, TypeInv
  <1>4. TypeInv'
    BY <1>1, <1>3 DEF SoundInv, TypeInv
  <1>5. /\ pc'[g] = "armed" /\ pc'[a] = next
        /\ \A b \in Actors : b # a /\ b # g => pc'[b] = pc[b]
        /\ \A b \in Actors : b # a => at'[b] = at[b]
    BY <1>1, <1>2 DEF SoundInv, TypeInv
  <1>6. \A b \in Actors : pc'[b] = "wait" => b # a /\ pc[b] = "wait" /\ at'[b] = at[b] /\ at[b] # g
    BY <1>1, <1>5 DEF SoundInv, SendInv
  <1>7. \A h \in Goals : pc'[h] = "idle" <=> pc[h] = "idle" /\ h # g
    BY <1>1, <1>5 DEF Actors
  <1>8. \A b \in Actors : pc'[b] = "wait" =>
            at'[b] \in Goals /\ st'[at'[b]] # "unsent" /\ pc'[at'[b]] = "idle"
    <2>1. SUFFICES ASSUME NEW b \in Actors, pc'[b] = "wait"
                   PROVE  at'[b] \in Goals /\ st'[at'[b]] # "unsent" /\ pc'[at'[b]] = "idle"
      OBVIOUS
    <2>2. pc[b] = "wait" /\ at'[b] = at[b] /\ at[b] # g
      BY <2>1, <1>6
    <2>3. at[b] \in Goals /\ st[at[b]] # "unsent" /\ pc[at[b]] = "idle"
      BY <2>2 DEF SoundInv, SendInv
    <2>4. pc'[at[b]] = "idle" /\ st' = st
      BY <2>2, <2>3, <1>1, <1>7
    <2>5. QED
      BY <2>2, <2>3, <2>4
  <1>9. \A b, c \in Actors : pc'[b] = "wait" /\ pc'[c] = "wait" /\ at'[b] = at'[c] => b = c
    BY <1>6 DEF SoundInv, SendInv
  <1>10. ~cancelReq[g] /\ g \notin toCancel
    BY <1>1 DEF SoundInv, SendInv
  <1>11. \A h \in Goals : st'[h] = "unsent" => pc'[h] = "idle"
    BY <1>1, <1>7 DEF SoundInv, SendInv
  <1>12. SendInv'
    BY <1>1, <1>5, <1>7, <1>8, <1>9, <1>11 DEF SoundInv, SendInv
  <1>13. QED
    BY <1>1, <1>4, <1>5, <1>10, <1>12 DEF SoundInv

(* Nav2 says something about a goal it has been sent.                      *)
LEMMA Reported ==
  ASSUME SoundInv, NEW g \in Goals, st[g] # "unsent",
         NEW s \in {"sent", "rejected", "running"} \cup Ended, s # "unsent",
         st' = [st EXCEPT ![g] = s], UNCHANGED <<cancelReq, handle, toCancel, pc, at>>
  PROVE  SoundInv'
  <1>1. TypeInv'
    BY DEF SoundInv, TypeInv
  <1>2. \A h \in Goals : st'[h] = "unsent" <=> st[h] = "unsent"
    BY DEF SoundInv, TypeInv
  <1>3. QED
    BY <1>1, <1>2 DEF SoundInv, SendInv

(* The thread of a cancelled goal calls Nav2.                              *)
LEMMA ThreadCancels ==
  ASSUME SoundInv, NEW g \in Goals, CancelThread(g)
  PROVE  SoundInv'
  <1>1. /\ g \in toCancel /\ toCancel' = toCancel \ {g}
        /\ cancelReq' = [cancelReq EXCEPT ![g] = TRUE]
        /\ UNCHANGED <<st, handle, pc, at>>
    BY DEF CancelThread, RequestCancel, node
  <1>2. pc[g] # "idle"
    BY <1>1 DEF SoundInv, SendInv
  <1>3. TypeInv'
    BY <1>1 DEF SoundInv, TypeInv
  <1>4. \A h \in Goals : pc'[h] = "idle" => ~cancelReq'[h] /\ h \notin toCancel'
    BY <1>1, <1>2 DEF SoundInv, SendInv, TypeInv
  <1>5. QED
    BY <1>1, <1>3, <1>4 DEF SoundInv, SendInv

-----------------------------------------------------------------------------
(* What an action of an actor is, as Moves, or one of the other lemmas.    *)
LEMMA ServiceMoves ==
  ASSUME SoundInv, ServiceSteps, ~Sends(Svc), ~SetGoalAccepted
  PROVE  \E label, x : Moves(Svc, label, x) /\ UNCHANGED ignore
  <1> USE Distinct DEF Moves, Goto, Return, Detach, GoIdle, ClearLoop, RequestCancel,
                       node, nav2, others, loop, handlers
  <1>0. /\ Svc \in Actors /\ handle \in Goals \cup {None} /\ at \in [Actors -> Goals \cup {None}]
        /\ None \in Goals \cup {None}
    BY DEF Actors, SoundInv, TypeInv
  <1>1. CASE SetGoalBegin
    <2>1. Moves(Svc, "detach", None) \/ Moves(Svc, "clear", None)
      BY <1>0, <1>1 DEF SetGoalBegin, Labels
    <2>2. QED
      BY <2>1, <1>1 DEF SetGoalBegin
  <1>2. CASE SetGoalDetach
    <2>1. Moves(Svc, "idle", None) \/ Moves(Svc, "cancelwait", handle)
      BY <1>0, <1>2 DEF SetGoalDetach, Labels
    <2>2. QED
      BY <2>1, <1>2 DEF SetGoalDetach
  <1>3. CASE SetGoalCancelled
    <2>1. Moves(Svc, "idle", None) \/ Moves(Svc, "clear", None)
      BY <1>0, <1>3 DEF SetGoalCancelled, Labels
    <2>2. QED
      BY <2>1, <1>3 DEF SetGoalCancelled
  <1>4. CASE SetGoalClear
    <2>1. Moves(Svc, "idle", None) \/ Moves(Svc, "send", None)
      BY <1>0, <1>4 DEF SetGoalClear, Labels
    <2>2. QED
      BY <2>1, <1>4 DEF SetGoalClear
  <1>5. CASE SetGoalConfig \/ SetGoalFailed \/ BrakeReturn
    <2>1. Moves(Svc, "idle", None) /\ UNCHANGED ignore
      BY <1>0, <1>5 DEF SetGoalConfig, SetGoalFailed, BrakeReturn, Labels
    <2>2. QED
      BY <2>1
  <1>6. CASE BrakeDetach
    <2>1. Moves(Svc, "idle", None) \/ Moves(Svc, "brakewait", handle)
      BY <1>0, <1>6 DEF BrakeDetach, Labels
    <2>2. QED
      BY <2>1, <1>6 DEF BrakeDetach
  <1>7. CASE ManualDetach(Svc)
    <2>1. Moves(Svc, "idle", None) /\ UNCHANGED ignore
      BY <1>0, <1>7 DEF ManualDetach, Labels
    <2>2. QED
      BY <2>1
  <1>8. CASE CancelGoal \/ ManualOff
    <2>1. Moves(Svc, "idle", None) /\ UNCHANGED ignore
      BY <1>0, <1>8 DEF CancelGoal, ManualOff, Labels
    <2>2. QED
      BY <2>1
  <1>9. CASE Brake
    <2>1. Moves(Svc, "brakedetach", None) /\ UNCHANGED ignore
      BY <1>0, <1>9 DEF Brake, Labels
    <2>2. QED
      BY <2>1
  <1>10. CASE ManualOn(Svc)
    <2>1. Moves(Svc, "idle", None) \/ Moves(Svc, "manualdetach", None)
      BY <1>0, <1>10 DEF ManualOn, Labels
    <2>2. QED
      BY <2>1, <1>10 DEF ManualOn
  <1>11. CASE \E isLoop \in BOOLEAN : SetGoal(isLoop)
    <2>1. Moves(Svc, "begin", None) /\ UNCHANGED ignore
      BY <1>0, <1>11 DEF SetGoal, Labels
    <2>2. QED
      BY <2>1
  <1>12. QED
    BY <1>1, <1>2, <1>3, <1>4, <1>5, <1>6, <1>7, <1>8, <1>9, <1>10, <1>11
       DEF ServiceSteps, ServiceRest

LEMMA TeleopMoves ==
  ASSUME SoundInv, TeleopSteps
  PROVE  \E label, x : Moves(Tel, label, x) /\ UNCHANGED ignore
  <1> USE Distinct DEF Moves, Goto, Return, Detach, GoIdle, ClearLoop,
                       node, nav2, others, loop, handlers
  <1>0. /\ Tel \in Actors /\ handle \in Goals \cup {None} /\ at \in [Actors -> Goals \cup {None}]
        /\ None \in Goals \cup {None}
    BY DEF Actors, SoundInv, TypeInv
  <1>1. CASE TeleopArrives
    <2>1. Moves(Tel, "manual", None) /\ UNCHANGED ignore
      BY <1>0, <1>1 DEF TeleopArrives, Labels
    <2>2. QED
      BY <2>1
  <1>2. CASE ManualOn(Tel)
    <2>1. Moves(Tel, "idle", None) \/ Moves(Tel, "manualdetach", None)
      BY <1>0, <1>2 DEF ManualOn, Labels
    <2>2. QED
      BY <2>1, <1>2 DEF ManualOn
  <1>3. CASE ManualDetach(Tel)
    <2>1. Moves(Tel, "idle", None) /\ UNCHANGED ignore
      BY <1>0, <1>3 DEF ManualDetach, Labels
    <2>2. QED
      BY <2>1
  <1>4. QED
    BY <1>1, <1>2, <1>3 DEF TeleopSteps

LEMMA BackupMoves ==
  ASSUME SoundInv, BackupStart \/ BackupRest, ~Sends(Bk), ~BackupAccepted
  PROVE  \E label, x : Moves(Bk, label, x)
  <1> USE Distinct DEF Moves, Goto, Return, DetachKeepingLoop, GoIdle, RequestCancel,
                       node, nav2, others, loop, handlers
  <1>0. /\ Bk \in Actors /\ handle \in Goals \cup {None} /\ at \in [Actors -> Goals \cup {None}]
        /\ None \in Goals \cup {None}
    BY DEF Actors, SoundInv, TypeInv
  <1>1. CASE BackupStart
    <2>1. Moves(Bk, "check", handle)
      BY <1>0, <1>1 DEF BackupStart, Labels
    <2>2. QED
      BY <2>1
  <1>2. CASE BackupCheck
    <2>1. Moves(Bk, "fail", None) \/ Moves(Bk, "cancelwait", None)
      BY <1>0, <1>2 DEF BackupCheck, Labels
    <2>2. QED
      BY <2>1
  <1>3. CASE BackupCancelled
    <2>1. Moves(Bk, "backup", None) \/ Moves(Bk, "fail", None)
      BY <1>0, <1>3 DEF BackupCancelled, Labels
    <2>2. QED
      BY <2>1
  <1>4. CASE BackupMoved
    <2>1. Moves(Bk, "recheck", None) \/ Moves(Bk, "fail", None)
      BY <1>0, <1>4 DEF BackupMoved, Labels
    <2>2. QED
      BY <2>1
  <1>5. CASE BackupRecheck
    <2>1. Moves(Bk, "send", None) \/ Moves(Bk, "fail", None)
      BY <1>0, <1>5 DEF BackupRecheck, Labels
    <2>2. QED
      BY <2>1
  <1>6. CASE BackupRestore \/ BackupFailed
    <2>1. Moves(Bk, "end", None)
      BY <1>0, <1>6 DEF BackupRestore, BackupFailed, Labels
    <2>2. QED
      BY <2>1
  <1>7. CASE BackupEnd
    <2>1. Moves(Bk, "idle", None)
      BY <1>0, <1>7 DEF BackupEnd, Labels
    <2>2. QED
      BY <2>1
  <1>8. QED
    BY <1>1, <1>2, <1>3, <1>4, <1>5, <1>6, <1>7 DEF BackupRest

\* The callback of a result moves on; the goal it was for is dropped before
\* the callback is over.
LEMMA ResultMoves ==
  ASSUME SoundInv, NEW g \in Goals, ResultSteps(g), ~Sends(g), ~RestartAccepted(g)
  PROVE  \E label, x : /\ Moves(g, label, x)
                       /\ ignore = 0 => ignore' = 0
                       /\ pc[g] \in {"armed", "main"} /\ ignore = 0 =>
                             handle' = None \/ label = "main"
  <1> USE Distinct DEF Moves, Goto, Return, GoIdle, ClearLoop,
                       node, nav2, others, loop, handlers
  <1>0. /\ g \in Actors /\ at \in [Actors -> Goals \cup {None}]
        /\ None \in Goals \cup {None}
    BY DEF Actors, SoundInv, TypeInv
  <1>1. CASE ResultArrives(g) /\ ignore > 0
    <2>1. Moves(g, "done", None)
      BY <1>0, <1>1 DEF ResultArrives, Labels
    <2>2. QED
      BY <2>1, <1>1
  <1>2. CASE ResultArrives(g) /\ ~(ignore > 0)
    <2>1. Moves(g, "main", None) /\ ignore' = ignore
      BY <1>0, <1>2 DEF ResultArrives, Labels
    <2>2. QED
      BY <2>1
  <1>3. CASE ResultMain(g)
    <2>1. Moves(g, "send", None) \/ Moves(g, "done", None)
      BY <1>0, <1>3 DEF ResultMain, Labels
    <2>2. QED
      BY <2>1, <1>3 DEF ResultMain
  <1>4. CASE RestartFinal(g)
    <2>1. Moves(g, "done", None) /\ ignore' = ignore /\ pc[g] \in {"final", "fail"}
      BY <1>0, <1>4 DEF RestartFinal, Labels
    <2>2. QED
      BY <2>1
  <1>5. QED
    BY <1>1, <1>2, <1>3, <1>4 DEF ResultSteps, ResultRest

LEMMA SendsMove ==
  ASSUME SoundInv, NEW a \in Actors, Sends(a)
  PROVE  /\ SoundInv' /\ UNCHANGED <<handle, cancelReq, toCancel, ignore>>
         /\ pc[a] \in {"send", "wait"} /\ \A b \in Actors : b # a => pc'[b] = pc[b]
  <1> USE DEF Goto, node, others
  <1>1. CASE Send(a)
    <2>1. CASE \E g \in Goals : /\ st[g] = "unsent" /\ st' = [st EXCEPT ![g] = "sent"]
                                /\ at' = [at EXCEPT ![a] = g] /\ Goto(a, "wait")
      <3>1. SoundInv'
        BY <1>1, <2>1, Sent DEF Send
      <3>2. QED
        BY <1>1, <2>1, <3>1 DEF Send, SoundInv, TypeInv
    <2>2. CASE Goto(a, "fail") /\ UNCHANGED <<st, at>>
      <3>1. Moves(a, "fail", None)
        BY <1>1, <2>2 DEF Send, Moves, Labels
      <3>2. QED
        BY <1>1, <2>2, <3>1, MovesOn DEF Send, SoundInv, TypeInv
    <2>3. QED
      BY <1>1, <2>1, <2>2 DEF Send
  <1>2. CASE SendFailed(a)
    <2>1. Moves(a, "fail", None)
      BY <1>2 DEF SendFailed, Moves, Labels, nav2
    <2>2. QED
      BY <1>2, <2>1, MovesOn DEF SendFailed, SoundInv, TypeInv, nav2
  <1>3. QED
    BY <1>1, <1>2 DEF Sends

LEMMA ReportMoves ==
  ASSUME SoundInv, NEW g \in Goals, Nav2Steps(g) \/ Deliveries(g)
  PROVE  SoundInv' /\ UNCHANGED <<handle, cancelReq, toCancel, ignore, pc>>
  <1> USE DEF node, handlers, others
  <1>1. CASE Deliveries(g)
    <2>1. UNCHANGED <<st, cancelReq, handle, toCancel, ignore, pc, at>>
      BY <1>1 DEF Deliveries, DeliverAnswer, DeliverCancelAck
    <2>2. QED
      BY <2>1 DEF SoundInv, TypeInv, SendInv
  <1>2. CASE Nav2Answers(g)
    <2>1. UNCHANGED <<cancelReq, handle, toCancel, ignore, pc, at>> /\ st[g] # "unsent"
      BY <1>2 DEF Nav2Answers
    <2>2. PICK s \in {"running", "rejected"} : st' = [st EXCEPT ![g] = s]
      BY <1>2 DEF Nav2Answers
    <2>3. QED
      BY <2>1, <2>2, Reported
  <1>3. CASE Nav2Ends(g)
    <2>1. UNCHANGED <<cancelReq, handle, toCancel, ignore, pc, at>> /\ st[g] # "unsent"
      BY <1>3 DEF Nav2Ends
    <2>2. PICK s \in Ended : st' = [st EXCEPT ![g] = s]
      BY <1>3 DEF Nav2Ends
    <2>3. s # "unsent"
      BY DEF Ended
    <2>4. QED
      BY <2>1, <2>2, <2>3, Reported
  <1>4. QED
    BY <1>1, <1>2, <1>3 DEF Nav2Steps

\* A move keeps HandleWillEnd unless it ends the callback of the current
\* goal and keeps the goal.
LEMMA HandleKept ==
  ASSUME SoundInv, HandleInv, ~BackupEnabled,
         NEW a \in Actors, a # Bk, NEW label, NEW x, Moves(a, label, x), ignore' = 0,
         a \in Goals /\ pc[a] \in {"armed", "main"} => handle' = None \/ label = "main"
  PROVE  HandleInv'
  <1>1. pc'[Bk] = "idle"
    BY DEF HandleInv, Moves, SoundInv, TypeInv, Actors
  <1>2. CASE handle' = None
    BY <1>1, <1>2 DEF HandleInv, HandleWillEnd
  <1>3. CASE handle' # None
    <2>1. UNCHANGED <<handle, cancelReq, toCancel>> /\ handle # None /\ handle \in Goals
      BY <1>3 DEF Moves, SoundInv, TypeInv
    <2>2. /\ pc[handle] \in {"armed", "main"}
          /\ ~cancelReq[handle] /\ handle \notin toCancel
      BY <2>1 DEF HandleInv, HandleWillEnd
    <2>3. CASE a = handle
      <3>1. label = "main"
        BY <1>3, <2>1, <2>2, <2>3
      <3>2. pc'[handle] \in {"armed", "main"}
        BY <2>1, <2>2, <2>3, <3>1 DEF Moves, SoundInv, TypeInv
      <3>3. QED
        BY <1>1, <2>1, <2>2, <3>2 DEF HandleInv, HandleWillEnd
    <2>4. CASE a # handle
      <3>1. pc'[handle] = pc[handle]
        BY <2>1, <2>4 DEF Moves, SoundInv, TypeInv, Actors
      <3>2. QED
        BY <1>1, <2>1, <2>2, <3>1 DEF HandleInv, HandleWillEnd
    <2>5. QED
      BY <2>3, <2>4
  <1>4. QED
    BY <1>2, <1>3

\* A goal just accepted is a sound current goal.
LEMMA HandleTaken ==
  ASSUME SoundInv, HandleInv, NEW a \in Actors, a # Bk, NEW next \in Labels \ {"wait"},
         a \in Goals => next # "idle", SendAccepted(a, next)
  PROVE  SoundInv' /\ HandleInv'
  <1>1. /\ SoundInv'
        /\ handle' \in Goals /\ handle' = at[a] /\ pc[handle'] = "idle" /\ pc'[handle'] = "armed"
        /\ ~cancelReq'[handle'] /\ handle' \notin toCancel'
    BY Taken
  <1>2. ~BackupEnabled => pc'[Bk] = "idle" /\ ignore' = 0
    <2>1. pc' = [pc EXCEPT ![a] = next, ![at[a]] = "armed"] /\ ignore' = ignore /\ at[a] # Bk
      BY <1>1, Distinct DEF SendAccepted
    <2>2. pc'[Bk] = pc[Bk]
      BY <2>1 DEF SoundInv, TypeInv, Actors
    <2>3. QED
      BY <2>1, <2>2 DEF HandleInv
  <1>3. QED
    BY <1>1, <1>2 DEF HandleInv, HandleWillEnd

(* Every step keeps both invariants.                                       *)
LEMMA StepSound ==
  ASSUME SoundInv, HandleInv, [Next]_vars
  PROVE  SoundInv' /\ HandleInv'
  <1>1. Svc \in Actors /\ Tel \in Actors /\ Bk \in Actors /\ Goals \subseteq Actors
    BY DEF Actors
  <1>2. ASSUME NEW a \in Actors, Sends(a)
        PROVE  SoundInv' /\ HandleInv'
    <2>1. /\ SoundInv' /\ UNCHANGED <<handle, cancelReq, toCancel, ignore>>
          /\ pc[a] \in {"send", "wait"} /\ \A b \in Actors : b # a => pc'[b] = pc[b]
      BY <1>2, SendsMove
    <2>2. ~BackupEnabled => pc'[Bk] = "idle" /\ ignore' = 0
      BY <1>1, <2>1 DEF HandleInv
    <2>3. ~BackupEnabled /\ handle # None => pc'[handle] = pc[handle]
      BY <1>1, <2>1 DEF HandleInv, HandleWillEnd, SoundInv, TypeInv
    <2>4. QED
      BY <2>1, <2>2, <2>3 DEF HandleInv, HandleWillEnd
  <1>3. CASE ServiceSteps
    <2>1. CASE SetGoalAccepted
      BY <1>1, <2>1, HandleTaken, Distinct DEF SetGoalAccepted, Labels
    <2>2. CASE ~Sends(Svc) /\ ~SetGoalAccepted
      <3>1. PICK label, x : Moves(Svc, label, x) /\ UNCHANGED ignore
        BY <1>3, <2>2, ServiceMoves
      <3>2. SoundInv'
        BY <1>1, <3>1, MovesOn
      <3>3. ~BackupEnabled => HandleInv'
        BY <1>1, <3>1, HandleKept, Distinct DEF HandleInv
      <3>4. QED
        BY <3>2, <3>3 DEF HandleInv
    <2>3. QED
      BY <1>1, <1>2, <2>1, <2>2
  <1>4. CASE TeleopSteps
    <2>1. PICK label, x : Moves(Tel, label, x) /\ UNCHANGED ignore
      BY <1>4, TeleopMoves
    <2>2. SoundInv'
      BY <1>1, <2>1, MovesOn
    <2>3. ~BackupEnabled => HandleInv'
      BY <1>1, <2>1, HandleKept, Distinct DEF HandleInv
    <2>4. QED
      BY <2>2, <2>3 DEF HandleInv
  <1>5. CASE BackupStart \/ BackupRest
    <2>1. BackupEnabled
      BY <1>5 DEF BackupStart, BackupRest, HandleInv, BackupCheck, BackupCancelled, BackupMoved,
                  BackupRecheck, BackupAccepted, SendAccepted, BackupRestore, BackupFailed,
                  BackupEnd, Sends, Send, SendFailed
    <2>2. CASE BackupAccepted
      BY <1>1, <2>1, <2>2, Taken, Distinct DEF BackupAccepted, Labels, HandleInv
    <2>3. CASE ~Sends(Bk) /\ ~BackupAccepted
      BY <1>1, <1>5, <2>1, <2>3, BackupMoves, MovesOn DEF HandleInv
    <2>4. QED
      BY <1>1, <1>2, <2>2, <2>3
  <1>6. ASSUME NEW g \in Goals, Nav2Steps(g) \/ Deliveries(g)
        PROVE  SoundInv' /\ HandleInv'
    BY <1>6, ReportMoves DEF HandleInv, HandleWillEnd
  <1>7. ASSUME NEW g \in Goals, CancelThread(g)
        PROVE  SoundInv' /\ HandleInv'
    <2>1. SoundInv'
      BY <1>7, ThreadCancels
    <2>2. /\ toCancel' = toCancel \ {g} /\ cancelReq' = [cancelReq EXCEPT ![g] = TRUE]
          /\ g \in toCancel /\ UNCHANGED <<handle, ignore, pc>>
      BY <1>7 DEF CancelThread, RequestCancel, node
    <2>3. ~BackupEnabled /\ handle # None => ~cancelReq'[handle]
      BY <2>2 DEF HandleInv, HandleWillEnd, SoundInv, TypeInv
    <2>4. QED
      BY <2>1, <2>2, <2>3 DEF HandleInv, HandleWillEnd
  <1>8. ASSUME NEW g \in Goals, ResultSteps(g)
        PROVE  SoundInv' /\ HandleInv'
    <2>1. CASE RestartAccepted(g)
      BY <1>1, <2>1, HandleTaken, Distinct DEF RestartAccepted, Labels
    <2>2. CASE ~Sends(g) /\ ~RestartAccepted(g)
      <3>1. PICK label, x : /\ Moves(g, label, x)
                            /\ ignore = 0 => ignore' = 0
                            /\ pc[g] \in {"armed", "main"} /\ ignore = 0 =>
                                  handle' = None \/ label = "main"
        BY <1>8, <2>2, ResultMoves
      <3>2. SoundInv'
        BY <1>1, <3>1, MovesOn
      <3>3. ~BackupEnabled => HandleInv'
        BY <1>1, <3>1, HandleKept, Distinct DEF HandleInv
      <3>4. QED
        BY <3>2, <3>3 DEF HandleInv
    <2>3. QED
      BY <1>1, <1>2, <2>1, <2>2
  <1>9. CASE UNCHANGED vars
    BY <1>9 DEF vars, nav2, node, loop, handlers, SoundInv, TypeInv, SendInv, HandleInv,
                HandleWillEnd
  <1>10. QED
    BY <1>3, <1>4, <1>5, <1>6, <1>7, <1>8, <1>9 DEF Next

-----------------------------------------------------------------------------
(* Nobody but the recovery thread enters its mode or moves its thread.     *)
LEMMA BackupLeftAlone ==
  ASSUME SoundInv, NEW a \in Actors, a # Bk,
         \/ \E label, x : Moves(a, label, x)
         \/ Sends(a)
         \/ \E next : SendAccepted(a, next)
  PROVE  pc'[Bk] = pc[Bk]
  <1>1. Bk \in Actors /\ Bk \notin Goals
    BY Distinct DEF Actors
  <1>2. ASSUME NEW label, NEW x, Moves(a, label, x)
        PROVE  pc'[Bk] = pc[Bk]
    BY <1>1, <1>2 DEF Moves, SoundInv, TypeInv
  <1>3. ASSUME NEW next, SendAccepted(a, next)
        PROVE  pc'[Bk] = pc[Bk]
    <2>1. at[a] \in Goals
      BY <1>3 DEF SendAccepted, SoundInv, SendInv
    <2>2. pc' = [pc EXCEPT ![a] = next, ![at[a]] = "armed"]
      BY <1>3 DEF SendAccepted
    <2>3. QED
      BY <1>1, <2>1, <2>2 DEF SoundInv, TypeInv
  <1>4. CASE Sends(a)
    BY <1>1, <1>4, SendsMove
  <1>5. QED
    BY <1>2, <1>3, <1>4

LEMMA ModeLeftAlone ==
  ASSUME \/ ServiceSteps \/ TeleopSteps
         \/ \E g \in Goals : \/ Nav2Steps(g) \/ Deliveries(g) \/ ResultSteps(g) \/ CancelThread(g)
  PROVE  backup' = backup /\ mode' \in {mode, "idle", "loop", "point_to_point"}
  <1> USE DEF node, handlers, others, Detach, GoIdle
  <1>1. ASSUME NEW a, Sends(a) \/ \E next : SendAccepted(a, next)
        PROVE  backup' = backup /\ mode' \in {mode, "idle", "loop", "point_to_point"}
    BY <1>1 DEF Sends, Send, SendFailed, SendAccepted
  <1>2. CASE ServiceSteps
    BY <1>1, <1>2 DEF ServiceSteps, ServiceRest, SetGoalBegin, SetGoalDetach, SetGoalCancelled,
         SetGoalClear, SetGoalAccepted, SetGoalConfig, SetGoalFailed, BrakeDetach, BrakeReturn,
         ManualDetach, CancelGoal, Brake, ManualOff, ManualOn, SetGoal
  <1>3. CASE TeleopSteps
    BY <1>3 DEF TeleopSteps, TeleopArrives, ManualOn, ManualDetach
  <1>4. ASSUME NEW g \in Goals, Nav2Steps(g) \/ Deliveries(g) \/ CancelThread(g)
        PROVE  backup' = backup /\ mode' \in {mode, "idle", "loop", "point_to_point"}
    BY <1>4 DEF Nav2Steps, Nav2Answers, Nav2Ends, Deliveries, DeliverAnswer, DeliverCancelAck,
         CancelThread
  <1>5. ASSUME NEW g \in Goals, ResultSteps(g)
        PROVE  backup' = backup /\ mode' \in {mode, "idle", "loop", "point_to_point"}
    BY <1>1, <1>5 DEF ResultSteps, ResultRest, ResultArrives, ResultMain, RestartAccepted,
         RestartFinal
  <1>6. QED
    BY <1>2, <1>3, <1>4, <1>5

(* Every step keeps the recovery mode with the recovery thread.            *)
LEMMA StepBackup ==
  ASSUME SoundInv, BackupInv, [Next]_vars
  PROVE  BackupInv'
  <1>0. Bk \in Actors /\ pc \in [Actors -> Labels]
    BY DEF Actors, SoundInv, TypeInv
  <1>1. CASE BackupStart \/ BackupRest
    <2>1. CASE BackupAccepted
      <3>1. pc' = [pc EXCEPT ![Bk] = "restore", ![at[Bk]] = "armed"] /\ at[Bk] \in Goals
        BY <1>0, <2>1 DEF BackupAccepted, SendAccepted, SoundInv, SendInv
      <3>2. pc'[Bk] = "restore" /\ pc[Bk] = "wait"
        BY <1>0, <2>1, <3>1, Distinct DEF BackupAccepted, SendAccepted
      <3>3. mode' # "collision_backup" /\ backup' = backup
        BY <2>1 DEF BackupAccepted, SendAccepted
      <3>4. QED
        BY <3>2, <3>3 DEF BackupInv
    <2>2. CASE BackupRestore
      <3>1. pc[Bk] = "restore" /\ mode' \in {mode, "loop"} /\ backup' = backup /\ pc'[Bk] = "end"
        BY <1>0, <2>2 DEF BackupRestore, Goto
      <3>2. QED
        BY <3>1 DEF BackupInv
    <2>3. CASE BackupFailed
      <3>1. pc[Bk] = "fail" /\ mode' = "idle" /\ backup' = backup
        BY <2>3 DEF BackupFailed, GoIdle
      <3>2. QED
        BY <3>1 DEF BackupInv
    <2>4. CASE BackupEnd
      <3>1. pc[Bk] = "end" /\ pc'[Bk] = "idle" /\ mode' = mode
        BY <1>0, <2>4, Distinct DEF BackupEnd, Return
      <3>2. QED
        BY <3>1 DEF BackupInv
    <2>5. CASE BackupStart
      <3>1. pc[Bk] = "idle" /\ backup' = TRUE /\ mode' = mode
        BY <2>5 DEF BackupStart
      <3>2. QED
        BY <3>1 DEF BackupInv
    <2>6. CASE BackupCheck
      <3>1. /\ pc[Bk] = "check" /\ backup' = backup
            /\ \/ pc'[Bk] = "fail"
               \/ pc'[Bk] = "cancelwait" /\ mode' = "collision_backup"
        BY <1>0, <2>6 DEF BackupCheck, Goto, node
      <3>2. QED
        BY <3>1 DEF BackupInv
    <2>7. CASE BackupCancelled \/ BackupMoved \/ BackupRecheck
      <3>1. /\ pc[Bk] \in {"cancelwait", "backup", "recheck"} /\ backup' = backup
            /\ pc'[Bk] \in {"backup", "recheck", "send", "fail"}
        BY <1>0, <2>7 DEF BackupCancelled, BackupMoved, BackupRecheck, Goto, node
      <3>2. QED
        BY <3>1 DEF BackupInv
    <2>8. CASE Sends(Bk)
      <3>1. /\ pc[Bk] \in {"send", "wait"} /\ backup' = backup
            /\ pc'[Bk] \in {"wait", "fail"}
        BY <1>0, <2>8 DEF Sends, Send, SendFailed, Goto, node
      <3>2. QED
        BY <3>1 DEF BackupInv
    <2>9. QED
      BY <1>1, <2>1, <2>2, <2>3, <2>4, <2>5, <2>6, <2>7, <2>8 DEF BackupRest
  <1>2. CASE \/ ServiceSteps \/ TeleopSteps
             \/ \E g \in Goals : \/ Nav2Steps(g) \/ Deliveries(g) \/ ResultSteps(g)
                                 \/ CancelThread(g)
    <2>1. backup' = backup /\ mode' \in {mode, "idle", "loop", "point_to_point"}
      BY <1>2, ModeLeftAlone
    <2>2. CASE ServiceSteps
      BY <2>2, ServiceMoves, BackupLeftAlone, Distinct, <2>1
         DEF BackupInv, SetGoalAccepted, Actors
    <2>3. CASE TeleopSteps
      BY <2>3, TeleopMoves, BackupLeftAlone, Distinct, <2>1 DEF BackupInv, Actors
    <2>4. ASSUME NEW g \in Goals, ResultSteps(g)
          PROVE  BackupInv'
      <3>1. g \in Actors /\ g # Bk
        BY Distinct DEF Actors
      <3>2. pc'[Bk] = pc[Bk]
        BY <2>4, <3>1, ResultMoves, BackupLeftAlone DEF RestartAccepted
      <3>3. QED
        BY <2>1, <3>2 DEF BackupInv
    <2>5. ASSUME NEW g \in Goals, Nav2Steps(g) \/ Deliveries(g) \/ CancelThread(g)
          PROVE  BackupInv'
      <3>1. pc' = pc
        BY <2>5, ReportMoves DEF CancelThread
      <3>2. QED
        BY <2>1, <3>1 DEF BackupInv
    <2>6. QED
      BY <1>2, <2>2, <2>3, <2>4, <2>5
  <1>3. CASE UNCHANGED vars
    BY <1>3 DEF vars, node, handlers, BackupInv
  <1>4. QED
    BY <1>1, <1>2, <1>3 DEF Next

-----------------------------------------------------------------------------
(* Without the backup manoeuvre, the goal the node holds as current is one *)
(* whose result it has still to handle and that nobody has cancelled: any  *)
(* number of goals, set_goal, cancel_goal, brake, manual mode, teleop and  *)
(* loop restarts interleaved at every lock, any wait timed out.            *)
THEOREM CurrentGoalSafety ==
  ASSUME BackupEnabled = FALSE
  PROVE  Spec => []HandleWillEnd
  <1>1. Init => SoundInv /\ HandleInv
    BY InitSound
  <1>2. SoundInv /\ HandleInv /\ [Next]_vars => (SoundInv /\ HandleInv)'
    BY StepSound
  <1>3. HandleInv => HandleWillEnd
    BY DEF HandleInv
  <1>4. QED
    BY <1>1, <1>2, <1>3, PTL DEF Spec

(* With the manoeuvre or without it, the node is in the recovery mode only *)
(* while the recovery thread is at work and will leave it.                 *)
THEOREM BackupModeSafety == Spec => []BackupModeEnds
  <1>1. Init => SoundInv /\ HandleInv /\ BackupInv
    BY InitSound
  <1>2. SoundInv /\ HandleInv /\ BackupInv /\ [Next]_vars => (SoundInv /\ HandleInv /\ BackupInv)'
    BY StepSound, StepBackup
  <1>3. BackupInv => BackupModeEnds
    BY DEF BackupInv, BackupModeEnds
  <1>4. QED
    BY <1>1, <1>2, <1>3, PTL DEF Spec

(* No two handlers wait for the same goal, so an answer of Nav2 installs   *)
(* one goal, once; and a goal is cancelled only when its result callback   *)
(* is registered, so that somebody hears of its end.                       *)
THEOREM AnswersHaveOneOwner == Spec => []SoundInv
  <1>1. Init => SoundInv /\ HandleInv
    BY InitSound
  <1>2. SoundInv /\ HandleInv /\ [Next]_vars => (SoundInv /\ HandleInv)'
    BY StepSound
  <1>3. QED
    BY <1>1, <1>2, PTL DEF Spec
=============================================================================
