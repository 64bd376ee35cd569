------------------------- MODULE DatumSetter_proofs -------------------------
(***************************************************************************)
(* Proofs about DatumSetter, for any setters, places, numbers of tries and *)
(* of workers, and any length of the queue.                                *)
(*                                                                         *)
(* Only who holds _set_operation_lock has a request somebody waits for,    *)
(* and it is the last in the queue.  When it has been served, the queue is *)
(* empty and the datum is that of the request, so nothing that was given   *)
(* up can be served after a setting that succeeded.                        *)
(***************************************************************************)
EXTENDS DatumSetter, SequenceTheorems, TLAPS

Stages   == {"idle", "lock", "call", "wait", "told"}
Works    == {"call", "wait", "told"}
Setter   == [at : Stages, place : SUBSET Spots, tries : Nat]
Request  == [place : SUBSET Spots, waits : SUBSET Setters]

TypeInv ==
    /\ setter \in [Setters -> Setter]
    /\ holder \in SUBSET Setters
    /\ queue \in Seq(Request)
    /\ datum \in SUBSET Spots /\ recorded \in SUBSET Spots
    /\ answered \in SUBSET Setters
    /\ sure \in BOOLEAN

LockInv ==
    /\ \A s \in Setters : s \in holder <=> setter[s].at \in Works
    /\ \A s, t \in holder : s = t

WaitInv ==
    /\ \A s \in answered : At(s, "wait")
    /\ \A i \in 1..Len(queue) : \A s \in queue[i].waits :
          At(s, "wait") /\ i = Len(queue) /\ queue[i].place = setter[s].place

ServedInv ==
    \A s \in Setters : s \in answered \/ At(s, "told") =>
        queue = <<>> /\ datum = setter[s].place

SureInv == sure /\ holder = {} => queue = <<>> /\ datum = recorded

IInv == TypeInv /\ LockInv /\ WaitInv /\ ServedInv /\ SureInv

(* Nobody asks at the start.                                               *)
LEMMA InitIInv == DatumInit => IInv
  <1> SUFFICES ASSUME DatumInit PROVE IInv
    OBVIOUS
  <1>1. /\ \A s \in Setters : setter[s] = Idle
        /\ holder = {} /\ queue = <<>> /\ datum = {} /\ recorded = {} /\ answered = {}
    BY DEF DatumInit
  <1>2. sure \in BOOLEAN /\ ~sure
    BY Zenon DEF DatumInit
  <1>3. TypeInv
    BY <1>1, <1>2 DEF DatumInit, TypeInv, Idle, Setter, Stages
  <1>4. QED
    BY <1>1, <1>2, <1>3 DEF IInv, LockInv, WaitInv, ServedInv, SureInv, At, Idle, Works

(* A setter asks, or gets the lock.                                        *)
LEMMA AskKeeps ==
  ASSUME IInv, NEW s \in Setters, NEW p \in Spots, Ask(s, p)
  PROVE  IInv'
  <1>1. /\ setter[s] = Idle
        /\ setter' = [setter EXCEPT ![s] = [setter[s] EXCEPT !.at = "lock", !.place = {p}]]
        /\ holder' = holder /\ queue' = queue /\ datum' = datum
        /\ answered' = answered /\ recorded' = recorded /\ sure' = sure
    BY DEF Ask
  <1>2. setter' \in [Setters -> Setter]
    BY <1>1 DEF IInv, TypeInv, Setter, Stages
  <1>3. /\ setter'[s].at = "lock" /\ setter[s].at = "idle"
        /\ \A t \in Setters \ {s} : setter'[t] = setter[t]
    BY <1>1 DEF IInv, TypeInv, Setter, Idle
  <1>4. TypeInv'
    BY <1>1, <1>2 DEF IInv, TypeInv
  <1>5. LockInv' /\ SureInv'
    BY <1>1, <1>3 DEF IInv, TypeInv, LockInv, SureInv, Works
  <1>6. WaitInv'
    BY <1>1, <1>3 DEF IInv, TypeInv, WaitInv, At
  <1>7. ServedInv'
    BY <1>1, <1>3 DEF IInv, WaitInv, ServedInv, At
  <1>8. QED
    BY <1>4, <1>5, <1>6, <1>7 DEF IInv

LEMMA LockKeeps ==
  ASSUME IInv, NEW s \in Setters, Lock(s)
  PROVE  IInv'
  <1>1. /\ setter[s].at = "lock" /\ holder = {} /\ holder' = {s}
        /\ setter' = [setter EXCEPT ![s] = [setter[s] EXCEPT !.at = "call"]]
        /\ queue' = queue /\ datum' = datum
        /\ answered' = answered /\ recorded' = recorded /\ sure' = sure
    BY DEF Lock, At
  <1>2. setter' \in [Setters -> Setter]
    BY <1>1 DEF IInv, TypeInv, Setter, Stages
  <1>3. /\ setter'[s].at = "call"
        /\ \A t \in Setters \ {s} : setter'[t] = setter[t]
    BY <1>1 DEF IInv, TypeInv, Setter
  <1>4. TypeInv'
    BY <1>1, <1>2 DEF IInv, TypeInv
  <1>5. LockInv' /\ SureInv'
    BY <1>1, <1>3 DEF IInv, TypeInv, LockInv, SureInv, Works
  <1>6. WaitInv'
    BY <1>1, <1>3 DEF IInv, TypeInv, WaitInv, At
  <1>7. ServedInv'
    BY <1>1, <1>3 DEF IInv, WaitInv, ServedInv, At
  <1>8. QED
    BY <1>4, <1>5, <1>6, <1>7 DEF IInv

(* While a setter holds the lock nobody else waits for a request.          *)
LEMMA OthersRest ==
  ASSUME IInv, NEW s \in Setters, setter[s].at \in Works
  PROVE  /\ holder = {s}
         /\ \A t \in Setters \ {s} : setter[t].at \notin Works
         /\ answered \subseteq {s}
         /\ \A i \in 1..Len(queue) : queue[i].waits \subseteq {s}
  <1>1. holder = {s} /\ \A t \in Setters \ {s} : setter[t].at \notin Works
    BY DEF IInv, TypeInv, LockInv
  <1>2. answered \subseteq {s}
    BY <1>1 DEF IInv, TypeInv, WaitInv, At, Works
  <1>3. ASSUME NEW i \in 1..Len(queue), NEW t \in queue[i].waits
        PROVE  t = s
    <2>1. queue[i] \in Request
      BY DEF IInv, TypeInv
    <2>2. QED
      BY <1>1, <1>3, <2>1 DEF IInv, WaitInv, At, Works, Request
  <1>4. QED
    BY <1>1, <1>2, <1>3

(* A request is sent: nobody waits for those before it.                    *)
LEMMA CallKeeps ==
  ASSUME IInv, NEW s \in Setters, Call(s)
  PROVE  IInv'
  <1> DEFINE new == [place |-> setter[s].place, waits |-> {s}]
  <1>1. /\ setter[s].at = "call"
        /\ queue' = Append(queue, new)
        /\ setter' = [setter EXCEPT ![s] = [setter[s] EXCEPT !.at = "wait"]]
        /\ holder' = holder /\ datum' = datum
        /\ answered' = answered /\ recorded' = recorded /\ sure' = sure
    BY DEF Call, At
  <1>2. setter[s] \in Setter /\ setter' \in [Setters -> Setter]
    BY <1>1 DEF IInv, TypeInv, Setter, Stages
  <1>3. /\ setter'[s].at = "wait" /\ setter'[s].place = setter[s].place
        /\ \A t \in Setters \ {s} : setter'[t] = setter[t]
    BY <1>1, <1>2 DEF IInv, TypeInv, Setter
  <1>4. new \in Request
    BY <1>2 DEF Setter, Request
  <1>5. /\ queue' \in Seq(Request) /\ Len(queue') = Len(queue) + 1
        /\ queue'[Len(queue) + 1] = new
        /\ \A i \in 1..Len(queue) : queue'[i] = queue[i]
        /\ Len(queue) \in Nat
    BY <1>1, <1>4 DEF IInv, TypeInv
  <1>6. /\ holder = {s} /\ answered = {}
        /\ \A i \in 1..Len(queue) : queue[i].waits = {}
    <2>1. /\ holder = {s} /\ answered \subseteq {s}
          /\ \A i \in 1..Len(queue) : queue[i].waits \subseteq {s}
      BY <1>1, OthersRest DEF Works
    <2>2. s \notin answered /\ \A i \in 1..Len(queue) : s \notin queue[i].waits
      BY <1>1 DEF IInv, WaitInv, At
    <2>3. QED
      BY <2>1, <2>2
  <1>7. TypeInv'
    BY <1>1, <1>2, <1>5 DEF IInv, TypeInv
  <1>8. LockInv' /\ SureInv'
    BY <1>1, <1>3, <1>6 DEF IInv, TypeInv, LockInv, SureInv, Works
  <1>9. WaitInv'
    <2>1. ASSUME NEW i \in 1..Len(queue'), NEW t \in queue'[i].waits
          PROVE  i = Len(queue') /\ t = s
      BY <1>5, <1>6, <2>1
    <2>2. QED
      BY <1>1, <1>3, <1>5, <1>6, <2>1 DEF WaitInv, At
  <1>10. ServedInv'
    <2>1. \A t \in Setters \ {s} : setter[t].at # "told"
      BY <1>1, OthersRest DEF Works
    <2>2. QED
      BY <1>1, <1>3, <1>6, <2>1 DEF ServedInv, At
  <1>11. QED
    BY <1>7, <1>8, <1>9, <1>10 DEF IInv

(* robot_localization serves the oldest request; if somebody waits for it  *)
(* it was the last one.                                                    *)
LEMMA ServeKeeps ==
  ASSUME IInv, ServeRequest
  PROVE  IInv'
  <1>1. /\ queue # <<>> /\ datum' = Head(queue).place
        /\ answered' = answered \cup Head(queue).waits /\ queue' = Tail(queue)
        /\ setter' = setter /\ holder' = holder /\ recorded' = recorded /\ sure' = sure
    BY DEF ServeRequest
  <1>2. /\ Len(queue) \in Nat \ {0} /\ Head(queue) = queue[1] /\ queue[1] \in Request
        /\ queue' \in Seq(Request) /\ Len(queue') = Len(queue) - 1
        /\ \A i \in 1..Len(queue') : queue'[i] = queue[i + 1]
    BY <1>1 DEF IInv, TypeInv
  <1>3. answered = {} /\ \A s \in Setters : ~At(s, "told")
    BY <1>1 DEF IInv, TypeInv, ServedInv
  <1>4. ASSUME NEW s \in queue[1].waits
        PROVE  At(s, "wait") /\ Len(queue) = 1 /\ queue[1].place = setter[s].place
    BY <1>2 DEF IInv, WaitInv
  <1>5. TypeInv'
    BY <1>1, <1>2 DEF IInv, TypeInv, Request
  <1>6. LockInv' /\ SureInv'
    BY <1>1 DEF IInv, LockInv, SureInv
  <1>7. WaitInv'
    <2>1. \A s \in answered' : At(s, "wait")'
      BY <1>1, <1>2, <1>3, <1>4 DEF At
    <2>2. ASSUME NEW i \in 1..Len(queue'), NEW s \in queue'[i].waits
          PROVE  At(s, "wait")' /\ i = Len(queue') /\ queue'[i].place = setter'[s].place
      <3>1. i + 1 \in 1..Len(queue) /\ queue'[i] = queue[i + 1]
        BY <1>2
      <3>2. At(s, "wait") /\ i + 1 = Len(queue) /\ queue[i + 1].place = setter[s].place
        BY <2>2, <3>1 DEF IInv, WaitInv
      <3>3. i = Len(queue') /\ queue'[i].place = setter'[s].place
        <4>1. i = Len(queue')
          BY <1>2, <3>2
        <4>2. queue'[i].place = setter'[s].place
          BY <1>1, <3>1, <3>2
        <4>3. QED
          BY <4>1, <4>2
      <3>4. At(s, "wait")'
        BY <1>1, <3>2 DEF At
      <3>5. QED
        BY <3>3, <3>4
    <2>3. QED
      BY <2>1, <2>2 DEF WaitInv
  <1>8. ServedInv'
    <2>1. ASSUME NEW s \in Setters, s \in answered' \/ At(s, "told")'
          PROVE  queue' = <<>> /\ datum' = setter'[s].place
      <3>1. s \in queue[1].waits
        BY <1>1, <1>2, <1>3, <2>1 DEF At
      <3>2. Len(queue) = 1 /\ queue[1].place = setter[s].place
        BY <1>4, <3>1
      <3>3. queue' = <<>>
        BY <1>2, <3>2, EmptySeq
      <3>4. QED
        BY <1>1, <1>2, <3>2, <3>3
    <2>2. QED
      BY <2>1 DEF ServedInv
  <1>9. QED
    BY <1>5, <1>6, <1>7, <1>8 DEF IInv

(* A worker gives the answer to who waits for it.                          *)
LEMMA DeliverKeeps ==
  ASSUME IInv, NEW s \in Setters, Deliver(s)
  PROVE  IInv'
  <1>1. /\ setter[s].at = "wait" /\ s \in answered /\ answered' = answered \ {s}
        /\ setter' = [setter EXCEPT ![s] = [setter[s] EXCEPT !.at = "told"]]
        /\ holder' = holder /\ queue' = queue /\ datum' = datum
        /\ recorded' = recorded /\ sure' = sure
    BY DEF Deliver, At
  <1>2. setter[s] \in Setter /\ setter' \in [Setters -> Setter]
    BY <1>1 DEF IInv, TypeInv, Setter, Stages
  <1>3. /\ setter'[s].at = "told" /\ setter'[s].place = setter[s].place
        /\ \A t \in Setters \ {s} : setter'[t] = setter[t]
    BY <1>1, <1>2 DEF IInv, TypeInv, Setter
  <1>4. queue = <<>> /\ datum = setter[s].place
    BY <1>1 DEF IInv, ServedInv
  <1>5. TypeInv'
    BY <1>1, <1>2 DEF IInv, TypeInv
  <1>6. LockInv' /\ SureInv'
    BY <1>1, <1>3 DEF IInv, TypeInv, LockInv, SureInv, Works
  <1>7. WaitInv'
    BY <1>1, <1>3, <1>4, EmptySeq DEF IInv, TypeInv, WaitInv, At
  <1>8. ServedInv'
    BY <1>1, <1>3, <1>4 DEF IInv, ServedInv, At
  <1>9. QED
    BY <1>5, <1>6, <1>7, <1>8 DEF IInv

(* The end of a setting that is recorded: its datum is the one in use.     *)
LEMMA RecordKeeps ==
  ASSUME IInv, NEW s \in Setters, Record(s)
  PROVE  IInv'
  <1>1. /\ setter[s].at = "told" /\ recorded' = setter[s].place
        /\ setter' = [setter EXCEPT ![s] = Idle] /\ holder' = holder \ {s}
        /\ queue' = queue /\ datum' = datum /\ answered' = answered
    BY DEF Record, At, Ends
  <1>2. sure' \in BOOLEAN
    BY Zenon DEF Record
  <1>3. setter[s] \in Setter /\ setter' \in [Setters -> Setter]
    BY <1>1 DEF IInv, TypeInv, Setter, Stages, Idle
  <1>4. /\ setter'[s].at = "idle"
        /\ \A t \in Setters \ {s} : setter'[t] = setter[t]
    BY <1>1 DEF IInv, TypeInv, Idle
  <1>5. queue = <<>> /\ datum = setter[s].place
    BY <1>1 DEF IInv, ServedInv, At
  <1>6. TypeInv'
    BY <1>1, <1>2, <1>3 DEF IInv, TypeInv, Setter
  <1>7. LockInv' /\ SureInv'
    BY <1>1, <1>4, <1>5 DEF IInv, TypeInv, LockInv, SureInv, Works
  <1>8. answered = {}
    BY <1>1, OthersRest DEF IInv, WaitInv, At, Works
  <1>9. WaitInv' /\ ServedInv'
    <2>1. WaitInv'
      BY <1>1, <1>5, <1>8, EmptySeq DEF WaitInv
    <2>2. ServedInv'
      BY <1>1, <1>4, <1>5, <1>8 DEF IInv, ServedInv, At
    <2>3. QED
      BY <2>1, <2>2
  <1>10. QED
    BY <1>6, <1>7, <1>9 DEF IInv

LEMMA AgainIsSetter ==
  ASSUME NEW r \in Setter, NEW n \in Nat
  PROVE  /\ [r EXCEPT !.at = "call", !.tries = n] \in Setter
         /\ [r EXCEPT !.at = "call", !.tries = n].at = "call"
  BY DEF Setter, Stages

(* A try that is over: the setter tries again, with the lock, or ends.     *)
LEMMA TryFailsKeeps ==
  ASSUME IInv, NEW s \in Setters, setter[s].at \in Works, TryFails(s, setter[s].tries + 1),
         queue' \in Seq(Request), answered' = answered \ {s},
         \A i \in 1..Len(queue') : queue'[i].waits = {},
         datum' = datum, recorded' = recorded
  PROVE  IInv'
  <1>1. /\ holder = {s} /\ answered' = {}
        /\ \A t \in Setters \ {s} : setter[t].at \notin Works
    BY OthersRest
  <1>2. \/ /\ setter' = [setter EXCEPT ![s] = [setter[s] EXCEPT !.at = "call", !.tries = setter[s].tries + 1]]
           /\ holder' = {s} /\ sure' = sure
        \/ setter' = [setter EXCEPT ![s] = Idle] /\ holder' = {} /\ ~sure' /\ sure' \in BOOLEAN
    <2>1. CASE setter[s].tries + 1 < Tries
      BY <1>1, <2>1 DEF TryFails
    <2>2. CASE ~(setter[s].tries + 1 < Tries)
      <3>1. setter' = [setter EXCEPT ![s] = Idle] /\ holder' = {}
        BY <1>1, <2>2 DEF TryFails, Ends
      <3>2. ~sure' /\ sure' \in BOOLEAN
        BY <2>2, Zenon DEF TryFails
      <3>3. QED
        BY <3>1, <3>2
    <2>3. QED
      BY <2>1, <2>2
  <1> DEFINE again == [setter[s] EXCEPT !.at = "call", !.tries = setter[s].tries + 1]
  <1>3. /\ setter \in [Setters -> Setter]
        /\ again \in Setter /\ again.at = "call"
        /\ Idle \in Setter /\ Idle.at = "idle"
    <2>1. setter \in [Setters -> Setter] /\ setter[s] \in Setter
      BY DEF IInv, TypeInv
    <2>2. again \in Setter /\ again.at = "call"
      <3>1. setter[s].tries + 1 \in Nat
        BY <2>1 DEF Setter
      <3>2. QED
        BY <2>1, <3>1, AgainIsSetter
    <2>3. Idle \in Setter /\ Idle.at = "idle"
      BY DEF Idle, Setter, Stages
    <2>4. QED
      BY <2>1, <2>2, <2>3
  <1>4. /\ setter' \in [Setters -> Setter]
        /\ \/ setter'[s].at = "call" /\ holder' = {s} /\ sure' = sure
           \/ setter'[s].at = "idle" /\ holder' = {} /\ ~sure' /\ sure' \in BOOLEAN
        /\ \A t \in Setters \ {s} : setter'[t] = setter[t]
    <2> HIDE DEF again
    <2>1. CASE setter' = [setter EXCEPT ![s] = again] /\ holder' = {s} /\ sure' = sure
      BY <1>3, <2>1
    <2>2. CASE setter' = [setter EXCEPT ![s] = Idle] /\ holder' = {} /\ ~sure' /\ sure' \in BOOLEAN
      BY <1>3, <2>2
    <2>3. QED
      BY <1>2, <2>1, <2>2 DEF again
  <1>5. TypeInv'
    BY <1>1, <1>4 DEF IInv, TypeInv
  <1>6. LockInv' /\ SureInv'
    BY <1>1, <1>4 DEF LockInv, SureInv, Works
  <1>7. WaitInv'
    BY <1>1 DEF WaitInv
  <1>8. ServedInv'
    BY <1>1, <1>4 DEF ServedInv, At, Works
  <1>9. QED
    BY <1>5, <1>6, <1>7, <1>8 DEF IInv

LEMMA UnavailableKeeps ==
  ASSUME IInv, NEW s \in Setters, Unavailable(s)
  PROVE  IInv'
  <1>1. /\ setter[s].at = "call" /\ TryFails(s, setter[s].tries + 1)
        /\ queue' = queue /\ datum' = datum /\ answered' = answered /\ recorded' = recorded
    BY DEF Unavailable, At
  <1>2. s \notin answered /\ \A i \in 1..Len(queue) : s \notin queue[i].waits
    BY <1>1 DEF IInv, WaitInv, At
  <1>3. \A i \in 1..Len(queue) : queue[i].waits = {}
    BY <1>1, <1>2, OthersRest DEF Works
  <1>4. QED
    BY <1>1, <1>2, <1>3, TryFailsKeeps DEF IInv, TypeInv, Works

(* A request that is given up stays in the queue, and nobody waits for it. *)
LEMMA ForgottenWaits ==
  ASSUME IInv, NEW s \in Setters, setter[s].at \in Works
  PROVE  /\ Forgotten(s) \in Seq(Request)
         /\ \A i \in 1..Len(Forgotten(s)) : Forgotten(s)[i].waits = {}
  <1> DEFINE n == Len(queue)
  <1>1. n \in Nat /\ DOMAIN queue = 1..n /\ \A i \in 1..n : queue[i] \in Request
    BY LenProperties, ElementOfSeq DEF IInv, TypeInv
  <1>2. \A i \in 1..n : queue[i].waits \subseteq {s}
    BY OthersRest
  <1>3. \A i \in 1..n : /\ [queue[i] EXCEPT !.waits = @ \ {s}] \in Request
                        /\ [queue[i] EXCEPT !.waits = @ \ {s}].waits = {}
    BY <1>1, <1>2 DEF Request
  <1>4. Forgotten(s) \in [1..n -> Request] /\ \A i \in 1..n : Forgotten(s)[i].waits = {}
    BY <1>1, <1>3 DEF Forgotten
  <1>5. Forgotten(s) \in Seq(Request)
    BY <1>1, <1>4, SeqDef
  <1>6. Len(Forgotten(s)) = n
    BY <1>1, <1>4, <1>5, LenProperties
  <1>7. QED
    BY <1>4, <1>5, <1>6

LEMMA TimeOutKeeps ==
  ASSUME IInv, NEW s \in Setters, TimeOut(s)
  PROVE  IInv'
  <1>1. /\ setter[s].at \in Works /\ TryFails(s, setter[s].tries + 1)
        /\ queue' = Forgotten(s) /\ answered' = answered \ {s}
        /\ datum' = datum /\ recorded' = recorded
    BY DEF TimeOut, At, Works
  <1>2. QED
    BY <1>1, ForgottenWaits, TryFailsKeeps

LEMMA StepIInv ==
  ASSUME IInv, [DatumNext]_dvars
  PROVE  IInv'
  <1>1. CASE ServeRequest
    BY <1>1, ServeKeeps
  <1>2. ASSUME NEW s \in Setters, NEW p \in Spots, Ask(s, p) PROVE IInv'
    BY <1>2, AskKeeps
  <1>3. ASSUME NEW s \in Setters, Lock(s) \/ Unavailable(s) \/ Call(s) PROVE IInv'
    BY <1>3, LockKeeps, UnavailableKeeps, CallKeeps
  <1>4. ASSUME NEW s \in Setters, Deliver(s) \/ TimeOut(s) \/ Record(s) PROVE IInv'
    BY <1>4, DeliverKeeps, TimeOutKeeps, RecordKeeps
  <1>5. CASE UNCHANGED dvars
    BY <1>5 DEF dvars, IInv, TypeInv, LockInv, WaitInv, ServedInv, SureInv, At
  <1>6. QED
    BY <1>1, <1>2, <1>3, <1>4, <1>5 DEF DatumNext

(* After a setting that succeeded datum_setter reports the datum that      *)
(* robot_localization uses, however many requests were given up before and *)
(* served late.                                                            *)
THEOREM DatumSafety == DatumSpec => []DatumAgrees
  <1>1. IInv => DatumAgrees
    BY DEF IInv, SureInv, DatumAgrees
  <1>2. QED
    BY InitIInv, StepIInv, <1>1, PTL DEF DatumSpec
=============================================================================
