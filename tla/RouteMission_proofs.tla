------------------------ MODULE RouteMission_proofs ------------------------
(***************************************************************************)
(* Proofs about RouteMission, for any number of workers, threads, chunks,  *)
(* attempts, events and results.                                           *)
(*                                                                         *)
(* Every handler is cut into sections, functions of the node's fields.     *)
(* What a section may do to them is said once (Section), each function is  *)
(* shown to be one, and an action is then a section and a change of what   *)
(* some processes have left to do (Works).  The invariant tells four sorts *)
(* of steps apart: those of the handlers (Working), those a low battery    *)
(* begins (Lowering), telemetry (Listening) and the node that is asked     *)
(* (Serving).                                                              *)
(***************************************************************************)
EXTENDS RouteMission, SequenceTheorems, TLAPS

Names == {"kind", "active", "paused", "awaiting", "cur", "blocked", "tries", "inflight", "stop",
          "acting", "low", "requested", "home", "phase", "plan", "patrol", "last", "handled"}
Typed(r) ==
    /\ r.kind \in RouteKinds /\ r.cur \in 0..Chunks
    /\ r.active \in BOOLEAN /\ r.paused \in BOOLEAN /\ r.awaiting \in BOOLEAN
    /\ r.blocked \in {"", "waiting", "retrying", "operator"} /\ r.tries \in 0..MaxAttempts
    /\ r.inflight \in BOOLEAN /\ r.stop \in {"no", "seen", "handled"}
    /\ r.acting \in BOOLEAN /\ r.low \in BOOLEAN /\ r.requested \in BOOLEAN /\ r.home \in BOOLEAN
    /\ r.phase \in {"idle", "depart", "main", "pending", "connector", "parked"}
    /\ r.plan \in BOOLEAN /\ r.patrol \in BOOLEAN /\ r.last \in Nat /\ r.handled \in Nat
WF(r) == DOMAIN r = Names /\ Typed(r)

\* The fields of the node between two sections.
Sound(r) == WF(r) /\ (r.blocked = "waiting" => r.tries < MaxAttempts)

\* A step of BlockedRetry, or none, on the fields.
Blocks(r, s) ==
    \/ s.blocked = r.blocked /\ s.tries = r.tries
    \/ s.blocked = "" /\ s.tries \in {0, r.tries}
    \/ /\ r.blocked # "operator" /\ s.tries = r.tries
       /\ \/ r.tries < MaxAttempts /\ s.blocked = "waiting"
          \/ r.tries >= MaxAttempts /\ s.blocked = "operator"
    \/ r.blocked = "waiting" /\ s.blocked = "retrying" /\ s.tries = r.tries + 1

\* A mission that runs on a low battery, and one that can bring the robot HOME.
Draining(r) == r.low /\ r.active /\ ~r.paused
Returns(r) == r.kind \in {"loop", "main", "connector"} \/ r.home \/ r.requested
Drains(r, s) == Draining(s) => Returns(s) \/ (Draining(r) /\ ~Returns(r))

\* Operators ask for patrols only, or for no mission that returns HOME.
PatrolsOnly == Kinds \subseteq {"patrol"}
NoReturns == Kinds \cap {"loop", "patrol"} = {}

\* Then the fields say the truth about a return.
Honest(r) ==
    /\ r.requested => r.kind = "main"
    /\ r.home => r.kind = "connector"
    /\ r.phase \in {"main", "pending"} => r.kind = "main"
    /\ r.kind = "main" /\ r.active => r.patrol
    /\ r.kind # "loop"
    /\ ~PatrolsOnly => r.phase = "idle" /\ ~r.patrol /\ r.kind \in {"none", "line", "bareloop"}

\* What a section does to the fields.
Section(r, s) ==
    /\ Sound(s) /\ Blocks(r, s) /\ Drains(r, s)
    /\ s.last = r.last /\ s.handled \in {r.handled, r.last}

\* Fields that differ in nothing the properties look at.
Alike(r, s) ==
    /\ s.kind = r.kind /\ s.active = r.active /\ s.paused = r.paused
    /\ s.blocked = r.blocked /\ s.tries = r.tries
    /\ s.low = r.low /\ s.requested = r.requested /\ s.home = r.home
    /\ s.phase = r.phase /\ s.patrol = r.patrol
    /\ s.last = r.last /\ s.handled \in {r.handled, r.last}

-----------------------------------------------------------------------------
(* The functions RouteMission is built from are sections.                  *)
LEMMA Bounds == /\ MaxAttempts \in Nat /\ Chunks \in Nat /\ Chunks > 0 /\ ExitChunk \in 1..Chunks
                /\ 0 \in 0..MaxAttempts /\ 0 \in 0..Chunks /\ 1 \in 0..Chunks
                /\ "none" \in RouteKinds
  BY RouteAssumption DEF RouteKinds

LEMMA AlikeIsSection ==
  ASSUME NEW r, NEW r2, NEW s2, NEW s, Sound(r), Alike(r, r2), Section(r2, s2), Alike(s2, s), WF(s)
  PROVE  /\ Section(r, s) /\ (Honest(r) => Honest(r2)) /\ (Honest(s2) => Honest(s))
  <1>1. Sound(s)
    BY DEF Section, Sound, Alike
  <1>2. Blocks(r, s)
    BY DEF Section, Alike, Blocks
  <1>3. Drains(r, s)
    BY DEF Section, Alike, Drains, Draining, Returns
  <1>4. QED
    BY <1>1, <1>2, <1>3 DEF Section, Alike, Honest

LEMMA Itself ==
  ASSUME NEW r, Sound(r)
  PROVE  Section(r, r) /\ Alike(r, r)
  BY DEF Section, Alike, Blocks, Drains

LEMMA UnblockedIs ==
  ASSUME NEW r, WF(r)
  PROVE  Section(r, Unblocked(r)) /\ (Honest(r) => Honest(Unblocked(r)))
  <1>1. WF(Unblocked(r))
    BY Bounds DEF WF, Typed, Names, Unblocked
  <1>2. Honest(r) => Honest(Unblocked(r))
    BY DEF WF, Names, Honest, Unblocked
  <1>3. Drains(r, Unblocked(r))
    BY DEF WF, Names, Drains, Draining, Returns, Unblocked
  <1>4. QED
    BY <1>1, <1>2, <1>3 DEF Section, Sound, Blocks, WF, Names, Unblocked

LEMMA StoppedIs ==
  ASSUME NEW r, Sound(r)
  PROVE  /\ Section(r, Stopped(r)) /\ (Honest(r) => Honest(Stopped(r)))
         /\ Section(r, NoReturn(Stopped(r))) /\ (Honest(r) => Honest(NoReturn(Stopped(r))))
         /\ ~NoReturn(Stopped(r)).active
  <1>1. WF(Stopped(r)) /\ WF(NoReturn(Stopped(r)))
    BY DEF Sound, WF, Typed, Names, Stopped, NoReturn
  <1>2. /\ Honest(r) => Honest(Stopped(r)) /\ Honest(NoReturn(Stopped(r)))
        /\ ~NoReturn(Stopped(r)).active
    BY DEF Sound, WF, Names, Honest, Stopped, NoReturn
  <1>3. Drains(r, Stopped(r)) /\ Drains(r, NoReturn(Stopped(r)))
    BY DEF Sound, WF, Names, Drains, Draining, Stopped, NoReturn
  <1>4. Blocks(r, Stopped(r)) /\ Blocks(r, NoReturn(Stopped(r)))
    BY DEF Sound, WF, Names, Blocks, Stopped, NoReturn
  <1>5. QED
    BY <1>1, <1>2, <1>3, <1>4 DEF Section, Sound, WF, Names, Stopped, NoReturn

LEMMA ResetIs ==
  ASSUME NEW r, Sound(r)
  PROVE  Section(r, Reset(r)) /\ (Honest(r) => Honest(Reset(r)))
  <1> DEFINE x == NoReturn([Stopped(r) EXCEPT
                    !.kind = "none", !.cur = 0, !.acting = FALSE, !.low = FALSE,
                    !.phase = "idle", !.plan = FALSE, !.patrol = FALSE, !.handled = r.last])
  <1>1. DOMAIN x = Names
    BY DEF Sound, WF, Stopped, NoReturn
  <1>2. /\ x.kind = "none" /\ x.cur = 0 /\ x.active = FALSE /\ x.paused = FALSE
        /\ x.awaiting = FALSE /\ x.acting = FALSE /\ x.low = FALSE /\ x.requested = FALSE
        /\ x.home = FALSE
    BY DEF Sound, WF, Names, Stopped, NoReturn
  <1>3. /\ x.phase = "idle" /\ x.plan = FALSE /\ x.patrol = FALSE /\ x.last = r.last
        /\ x.handled = r.last /\ x.blocked = r.blocked /\ x.tries = r.tries
        /\ x.inflight = r.inflight /\ x.stop = r.stop
    BY DEF Sound, WF, Names, Stopped, NoReturn
  <1> HIDE DEF x
  <1>4. WF(x)
    BY <1>1, <1>2, <1>3, Bounds DEF Sound, WF, Typed
  <1>5. Honest(x) /\ Reset(r) = Unblocked(x)
    BY <1>2, <1>3 DEF Honest, Reset, x
  <1>6. Section(x, Unblocked(x)) /\ Honest(Unblocked(x)) /\ ~Unblocked(x).low
    BY <1>2, <1>4, <1>5, UnblockedIs DEF WF, Names, Unblocked
  <1>7. Blocks(r, Unblocked(x))
    BY <1>4 DEF Blocks, WF, Names, Unblocked
  <1>8. QED
    BY <1>3, <1>5, <1>6, <1>7 DEF Section, Drains, Draining

LEMMA InstalledIs ==
  ASSUME NEW r, WF(r), NEW kind \in RouteKinds
  PROVE  /\ Section(r, Installed(r, kind))
         /\ (/\ PatrolsOnly /\ kind = "main" => r.patrol
             /\ kind # "main" => r.phase \notin {"main", "pending"}
             /\ kind = "connector" => ~r.requested
             /\ kind # "loop"
             /\ ~PatrolsOnly => r.phase = "idle" /\ ~r.patrol /\ kind \in {"line", "bareloop"})
               => Honest(Installed(r, kind))
         /\ Installed(r, kind).active
  <1> DEFINE keep == kind = "connector"
             x == [r EXCEPT
                    !.kind = kind, !.active = TRUE, !.paused = FALSE, !.awaiting = FALSE,
                    !.acting = FALSE, !.handled = r.last, !.low = keep /\ @,
                    !.requested = keep /\ @, !.home = keep /\ @]
  <1>1. DOMAIN x = Names
    BY DEF WF
  <1>2. /\ x.kind = kind /\ x.active = TRUE /\ x.paused = FALSE /\ x.awaiting = FALSE
        /\ x.acting = FALSE /\ x.handled = r.last /\ x.last = r.last
        /\ x.cur = r.cur /\ x.blocked = r.blocked /\ x.tries = r.tries /\ x.inflight = r.inflight
        /\ x.stop = r.stop /\ x.phase = r.phase /\ x.plan = r.plan /\ x.patrol = r.patrol
    BY DEF WF, Names
  <1>3. /\ x.low = (keep /\ r.low) /\ x.requested = (keep /\ r.requested)
        /\ x.home = (keep /\ r.home)
    BY DEF WF, Names
  <1>4. /\ (keep /\ r.low) \in BOOLEAN /\ (keep /\ r.requested) \in BOOLEAN
        /\ (keep /\ r.home) \in BOOLEAN
    BY Zenon
  <1>5. /\ x.low \in BOOLEAN /\ x.requested \in BOOLEAN /\ x.home \in BOOLEAN
        /\ x.low => keep /\ r.low
        /\ x.requested => keep /\ r.requested
        /\ x.home => keep /\ r.home
    BY <1>3, <1>4, Zenon
  <1>6. Installed(r, kind) = Unblocked(x)
    BY DEF Installed
  <1> HIDE DEF x
  <1>7. WF(x)
    BY <1>1, <1>2, <1>5 DEF WF, Typed
  <1>8. Section(x, Unblocked(x)) /\ (Honest(x) => Honest(Unblocked(x))) /\ Unblocked(x).active
    BY <1>2, <1>7, UnblockedIs DEF WF, Names, Unblocked
  <1>9. Blocks(r, Unblocked(x))
    BY <1>7 DEF Blocks, WF, Names, Unblocked
  <1>10. Drains(r, Unblocked(x))
    <2>1. Unblocked(x).low = x.low /\ Unblocked(x).kind = kind
      BY <1>2, <1>7 DEF WF, Names, Unblocked
    <2>2. QED
      BY <1>5, <2>1 DEF Drains, Draining, Returns
  <1>11. (/\ PatrolsOnly /\ kind = "main" => r.patrol
          /\ kind # "main" => r.phase \notin {"main", "pending"}
          /\ kind = "connector" => ~r.requested
          /\ kind # "loop"
          /\ ~PatrolsOnly => r.phase = "idle" /\ ~r.patrol /\ kind \in {"line", "bareloop"})
            => Honest(x)
    BY <1>2, <1>5 DEF Honest
  <1>12. Section(r, Unblocked(x))
    BY <1>2, <1>8, <1>9, <1>10 DEF Section
  <1>13. QED
    BY <1>6, <1>8, <1>11, <1>12

LEMMA PhaseIs ==
  ASSUME NEW r, Sound(r), NEW phase \in {"depart", "main", "connector"}
  PROVE  Section(r, Phase(r, phase)) /\ (PatrolsOnly => Honest(Phase(r, phase)))
  <1> DEFINE home == phase = "connector" \/ (r.home /\ phase # "main")
             requested == r.requested /\ phase # "connector"
             x == [r EXCEPT !.phase = phase, !.patrol = TRUE,
                        !.home = phase = "connector" \/ (@ /\ phase # "main"),
                        !.requested = @ /\ phase # "connector"]
  <1>1. home \in BOOLEAN /\ requested \in BOOLEAN
    BY Zenon
  <1>2. /\ DOMAIN x = Names /\ x.home = home /\ x.requested = requested
        /\ x.phase = phase /\ x.patrol = TRUE
        /\ x.kind = r.kind /\ x.cur = r.cur /\ x.active = r.active /\ x.paused = r.paused
        /\ x.awaiting = r.awaiting /\ x.blocked = r.blocked /\ x.tries = r.tries
        /\ x.inflight = r.inflight /\ x.stop = r.stop /\ x.acting = r.acting /\ x.low = r.low
        /\ x.plan = r.plan /\ x.last = r.last /\ x.handled = r.handled
    BY DEF Sound, WF, Names
  <1>3. x.requested => phase # "connector"
    BY <1>2, Zenon
  <1>4. Phase(r, phase) = Installed(x, phase)
    BY DEF Phase
  <1> HIDE DEF x
  <1>5. WF(x)
    BY <1>1, <1>2 DEF Sound, WF, Typed
  <1>6. phase \in RouteKinds
    BY DEF RouteKinds
  <1>7. Section(x, Installed(x, phase)) /\ (PatrolsOnly => Honest(Installed(x, phase)))
    BY <1>2, <1>3, <1>5, <1>6, InstalledIs
  <1>8. Drains(r, Installed(x, phase))
    BY <1>5, <1>6, <1>2, <1>7 DEF Section, Drains, Draining, Returns, Installed, Unblocked, WF, Names
  <1>9. Blocks(r, Installed(x, phase))
    BY <1>2, <1>7 DEF Section, Blocks
  <1>10. QED
    BY <1>2, <1>4, <1>7, <1>8, <1>9 DEF Section

LEMMA WaitingIs ==
  ASSUME NEW r, Sound(r)
  PROVE  Section(r, Waiting(r)) /\ (Honest(r) => Honest(Waiting(r)))
  <1>1. CASE ~r.active \/ r.blocked = "operator"
    BY <1>1, Itself DEF Waiting
  <1>2. ASSUME NEW x, x = [r EXCEPT !.blocked = "operator", !.awaiting = FALSE],
               r.blocked # "operator", r.tries >= MaxAttempts
        PROVE  Section(r, x) /\ (Honest(r) => Honest(x))
    <2>1. WF(x)
      BY <1>2 DEF Sound, WF, Names, Typed
    <2>2. Honest(r) => Honest(x)
      BY <1>2 DEF Sound, WF, Names, Honest
    <2>3. Drains(r, x)
      BY <1>2 DEF Sound, WF, Names, Drains, Draining, Returns
    <2>4. Blocks(r, x)
      BY <1>2 DEF Sound, WF, Names, Blocks
    <2>5. QED
      BY <1>2, <2>1, <2>2, <2>3, <2>4 DEF Section, Sound, WF, Names
  <1>3. ASSUME NEW x, x = [r EXCEPT !.blocked = "waiting", !.inflight = FALSE, !.awaiting = FALSE],
               r.blocked # "operator", ~(r.tries >= MaxAttempts)
        PROVE  Section(r, x) /\ (Honest(r) => Honest(x))
    <2>0. r.tries < MaxAttempts
      <3>1. r.tries \in 0..MaxAttempts
        BY DEF Sound, WF, Typed
      <3>2. QED
        BY <1>3, <3>1, Bounds
    <2>1. WF(x)
      BY <1>3 DEF Sound, WF, Names, Typed
    <2>2. Honest(r) => Honest(x)
      BY <1>3 DEF Sound, WF, Names, Honest
    <2>3. Drains(r, x)
      BY <1>3 DEF Sound, WF, Names, Drains, Draining, Returns
    <2>4. x.blocked = "waiting" /\ x.tries = r.tries /\ x.last = r.last /\ x.handled = r.handled
      BY <1>3 DEF Sound, WF, Names
    <2>5. QED
      BY <1>3, <2>0, <2>1, <2>2, <2>3, <2>4 DEF Section, Sound, Blocks
  <1>4. QED
    BY <1>1, <1>2, <1>3, Zenon DEF Waiting

LEMMA CompletedIs ==
  ASSUME NEW r, Sound(r)
  PROVE  Section(r, Completed(r)) /\ (Honest(r) => Honest(Completed(r)))
  <1> DEFINE x == [Stopped(r) EXCEPT !.phase = "parked", !.patrol = FALSE, !.home = FALSE]
  <1>1. WF(x)
    BY DEF Sound, WF, Names, Typed, Stopped
  <1>2. r.phase = "connector" => (Honest(r) => Honest(x))
    BY DEF Sound, WF, Names, Honest, Stopped
  <1>3. Drains(r, x) /\ Blocks(r, x)
    BY DEF Sound, WF, Names, Drains, Draining, Blocks, Stopped
  <1>4. x.blocked = r.blocked /\ x.tries = r.tries /\ x.last = r.last /\ x.handled = r.handled
    BY DEF Sound, WF, Names, Stopped
  <1>5. Section(r, x)
    BY <1>1, <1>3, <1>4 DEF Section, Sound
  <1> HIDE DEF x
  <1>6. (Completed(r) = x /\ r.phase = "connector") \/ Completed(r) = Stopped(r)
    BY Zenon DEF Completed, x
  <1>7. QED
    BY <1>2, <1>5, <1>6, StoppedIs

LEMMA SendFailedIs ==
  ASSUME NEW r, Sound(r), NEW ctx
  PROVE  Section(r, SendFailed(r, ctx)) /\ (Honest(r) => Honest(SendFailed(r, ctx)))
  <1> DEFINE x == [r EXCEPT !.active = FALSE, !.paused = FALSE]
             y == [r EXCEPT !.inflight = FALSE]
  <1>1. Section(r, x) /\ (Honest(r) => Honest(x))
    <2>1. WF(x)
      BY DEF Sound, WF, Names, Typed
    <2>2. Honest(r) => Honest(x)
      BY DEF Sound, WF, Names, Honest
    <2>3. Drains(r, x) /\ Blocks(r, x)
      BY DEF Sound, WF, Names, Drains, Draining, Blocks
    <2>4. QED
      BY <2>1, <2>2, <2>3 DEF Section, Sound, WF, Names
  <1>2. Section(r, y) /\ (Honest(r) => Honest(y))
    <2>1. WF(y) /\ Alike(r, y)
      BY DEF Sound, WF, Names, Typed, Alike
    <2>2. QED
      BY <2>1, Itself, AlikeIsSection
  <1> HIDE DEF x, y
  <1>3. SendFailed(r, ctx) \in {x, Stopped(r), NoReturn(Stopped(r)), Reset(r), y}
    <2>1. CASE ctx = "set"
      BY <2>1 DEF SendFailed, x
    <2>2. CASE ctx \in {"next", "act"}
      BY <2>2 DEF SendFailed
    <2>3. CASE ctx = "home"
      BY <2>3 DEF SendFailed
    <2>4. CASE ctx \in {"patrol", "main"}
      BY <2>4 DEF SendFailed
    <2>5. CASE ctx \notin {"set", "next", "act", "home", "patrol", "main"}
      BY <2>5 DEF SendFailed, y
    <2>6. QED
      BY <2>1, <2>2, <2>3, <2>4, <2>5
  <1>4. QED
    BY <1>1, <1>2, <1>3, StoppedIs, ResetIs

LEMMA DroppedIs ==
  ASSUME NEW r, Sound(r)
  PROVE  Section(r, Dropped(r)) /\ (Honest(r) => Honest(Dropped(r)))
  <1> DEFINE x == [r EXCEPT !.active = FALSE, !.acting = FALSE]
  <1>1. /\ WF(x) /\ x.low = r.low /\ x.active = FALSE /\ x.blocked = r.blocked /\ x.tries = r.tries
        /\ x.last = r.last /\ x.handled = r.handled /\ (Honest(r) => Honest(x))
    BY DEF Sound, WF, Names, Typed, Honest
  <1>2. Dropped(r) = Unblocked(x)
    BY DEF Dropped
  <1> HIDE DEF x
  <1>3. Section(x, Unblocked(x)) /\ (Honest(x) => Honest(Unblocked(x)))
    BY <1>1, UnblockedIs
  <1>4. Drains(r, Unblocked(x))
    BY <1>1 DEF WF, Names, Drains, Draining, Unblocked
  <1>5. Blocks(r, Unblocked(x))
    BY <1>1, <1>3 DEF Section, Blocks
  <1>6. QED
    BY <1>1, <1>2, <1>3, <1>4, <1>5 DEF Section

\* Another chunk is only another cur.
LEMMA ChunkIs ==
  ASSUME NEW r, NEW s, Section(r, s), NEW k \in 0..Chunks
  PROVE  Section(r, [s EXCEPT !.cur = k]) /\ (Honest(s) => Honest([s EXCEPT !.cur = k]))
  <1> DEFINE x == [s EXCEPT !.cur = k]
  <1>1. WF(x) /\ Alike(s, x)
    BY DEF Section, Sound, WF, Names, Typed, Alike
  <1>2. Sound(s)
    BY DEF Section
  <1> HIDE DEF x
  <1>3. Sound(x) /\ Blocks(r, x) /\ Drains(r, x) /\ x.last = r.last /\ (Honest(s) => Honest(x))
    BY <1>1, <1>2 DEF Section, Sound, Alike, Blocks, Drains, Draining, Returns, Honest
  <1>4. x.handled \in {r.handled, r.last}
    BY <1>1 DEF Section, Alike
  <1>5. QED
    BY <1>3, <1>4 DEF Section, x

LEMMA NextChunkType ==
  ASSUME NEW k \in 0..Chunks, NEW kind
  PROVE  NextChunk(k, kind) \in 0..Chunks
  BY Bounds DEF NextChunk, Size

-----------------------------------------------------------------------------
(* What processes have left to do.                                         *)

Stops == {<<"brake", "cancel", "stop">>, <<"cancel", "stop">>, <<"stop">>}
Installs == {<<"cancel", "install">>, <<"install">>}
Pairs == {<<"brake", "held">>, <<"brake", "enter">>, <<"cancel", "enter">>, <<"cancel", "reset">>,
          <<"cancel", "brake">>, <<"brake", "cancel", "enter">>}
LastSteps == {"advance", "hold", "held", "goal", "home", "retry", "retried", "enter", "reset",
              "brake", "cancel", "stop", "install"}
Looks == {<<"look", "retry">>}
Todos == {<<>>} \cup {<<step>> : step \in LastSteps} \cup Stops \cup Installs \cup Pairs \cup Looks
Contexts == {"", "set", "next", "act", "home", "patrol", "main", "retry", "collision", "cancel"}
Jobs == [todo : Todos, ctx : Contexts, k : 0..Chunks, kind : RouteKinds]

Stopping(p) == job[p].todo \in Stops

\* No return HOME is asked for by a call of its own, and nobody installs a
\* mission that returns.
GoodJob(j) ==
    /\ j.todo # <<"home">>
    /\ j.todo \in Installs => ~PatrolsOnly /\ j.kind \in {"line", "bareloop"}
HonestInv ==
    /\ PatrolsOnly \/ NoReturns
    /\ Honest(m) /\ \A p \in Procs : GoodJob(job[p])

LEMMA LastOnly ==
  ASSUME NEW s \in Todos, NEW step \in LastSteps \ {"brake", "cancel"}, s # <<>>, Head(s) = step
  PROVE  s = <<step>>
  <1>1. CASE s \in {<<e>> : e \in LastSteps}
    BY <1>1
  <1>2. CASE s \in Stops
    BY <1>2 DEF Stops, LastSteps
  <1>3. CASE s \in Installs
    BY <1>3 DEF Installs, LastSteps
  <1>4. CASE s \in Pairs
    BY <1>4 DEF Pairs, LastSteps
  <1>5. CASE s \in Looks
    BY <1>5 DEF Looks, LastSteps
  <1>6. QED
    BY <1>1, <1>2, <1>3, <1>4, <1>5 DEF Todos

LEMMA Lists ==
  ASSUME NEW a, NEW b, NEW c
  PROVE  /\ Head(<<a, b>>) = a /\ Tail(<<a, b>>) = <<b>>
         /\ Head(<<a, b, c>>) = a /\ Tail(<<a, b, c>>) = <<b, c>>
  OBVIOUS

LEMMA FirstCalls ==
  ASSUME NEW s \in Todos \ Looks, s # <<>>, Len(s) # 1
  PROVE  /\ Head(s) \in {"brake", "cancel"}
         /\ Tail(s) \in Todos \ {<<>>} /\ Tail(s) # <<"home">>
         /\ s \in Stops => Tail(s) \in Stops
         /\ Tail(s) \in Installs => s \in Installs
  <1> DEFINE Good == /\ Head(s) \in {"brake", "cancel"}
                     /\ Tail(s) \in Todos \ {<<>>} /\ Tail(s) # <<"home">>
                     /\ s \in Stops => Tail(s) \in Stops
                     /\ Tail(s) \in Installs => s \in Installs
  <1>1. CASE s \in Stops
    <2>1. CASE s = <<"brake", "cancel", "stop">>
      <3>1. Head(s) = "brake" /\ Tail(s) = <<"cancel", "stop">>
        BY <2>1, Lists
      <3>2. QED
        BY <1>1, <3>1 DEF Stops, Installs, Todos
    <2>2. CASE s = <<"cancel", "stop">>
      <3>1. Head(s) = "cancel" /\ Tail(s) = <<"stop">>
        BY <2>2, Lists
      <3>2. QED
        BY <1>1, <3>1 DEF Stops, Installs, Todos
    <2>3. QED
      BY <1>1, <2>1, <2>2 DEF Stops
  <1>2. CASE s \in Installs
    <2>1. s = <<"cancel", "install">>
      BY <1>2 DEF Installs
    <2>2. Head(s) = "cancel" /\ Tail(s) = <<"install">>
      BY <2>1, Lists
    <2>3. QED
      BY <1>2, <2>2 DEF Stops, Installs, Todos
  <1>3. ASSUME NEW a \in {"brake", "cancel"}, NEW b \in {"held", "enter", "reset", "brake"},
               s = <<a, b>>
        PROVE  Good
    <2>1. Head(s) = a /\ Tail(s) = <<b>>
      BY <1>3, Lists
    <2>2. s \notin Stops
      BY <1>3 DEF Stops
    <2>3. Tail(s) \in Todos
      BY <2>1 DEF Todos, LastSteps
    <2>4. Tail(s) \notin Installs /\ Tail(s) # <<"home">> /\ Tail(s) # <<>>
      <3>1. <<b>> \notin Installs
        BY DEF Installs
      <3>2. <<b>> # <<"home">> /\ <<b>> # <<>>
        OBVIOUS
      <3>3. QED
        BY <2>1, <3>1, <3>2
    <2>5. QED
      BY <2>1, <2>2, <2>3, <2>4
  <1>4. CASE s = <<"brake", "cancel", "enter">>
    <2>1. Head(s) = "brake" /\ Tail(s) = <<"cancel", "enter">>
      BY <1>4, Lists
    <2>2. s \notin Stops
      BY <1>4 DEF Stops
    <2>3. Tail(s) \in Todos /\ Tail(s) \notin Installs /\ Tail(s) # <<"home">> /\ Tail(s) # <<>>
      BY <2>1 DEF Todos, Pairs, Installs
    <2>4. QED
      BY <2>1, <2>2, <2>3
  <1>5. CASE s \in Pairs
    <2>1. \/ s = <<"brake", "cancel", "enter">>
          \/ \E a \in {"brake", "cancel"}, b \in {"held", "enter", "reset", "brake"} : s = <<a, b>>
      BY <1>5 DEF Pairs
    <2>2. QED
      BY <1>3, <1>4, <2>1
  <1>6. QED
    BY <1>1, <1>2, <1>5 DEF Todos

NodeInv ==
    /\ Sound(m)
    /\ job \in [Procs -> Jobs]
    /\ ans \in [Procs -> {"none", "ok", "refused"}]
    /\ \A p \in Procs : ans[p] # "none" => Calling(p)

\* Another task for the processes in Q.
Tasks(Q) ==
    /\ HonestInv => Honest(m')
    /\ job' \in [Procs -> Jobs]
    /\ \A q \in Procs \ Q : job'[q] = job[q]
    /\ \A q \in Q : /\ Stopping(q) => Stopping(q)' \/ ~m'.active
                    /\ HonestInv => GoodJob(job'[q])
    /\ ans' \in [Procs -> {"none", "ok", "refused"}]
    /\ \A q \in Procs : ans'[q] # "none" => q \notin Q /\ ans[q] # "none"

\* An action of the node: a section, and then other tasks.
Works(Q) == Section(m, m') /\ Tasks(Q)

LEMMA TaskTypes ==
  /\ \A step \in LastSteps : <<step>> \in Todos
  /\ <<>> \in Todos /\ Pairs \subseteq Todos /\ Stops \subseteq Todos /\ Installs \subseteq Todos
  /\ \A step \in LastSteps \ {"stop"} : <<step>> \notin Stops
  /\ \A step \in LastSteps \ {"install"} : <<step>> \notin Installs
  /\ \A step \in LastSteps \ {"home"} : <<step>> # <<"home">>
  /\ \A list \in Pairs : list \notin Installs /\ list # <<"home">> /\ list \notin Stops
  /\ \A list \in Stops \cup Installs : list # <<"home">>
  /\ \A list \in Stops : list \notin Installs
  /\ <<>> \notin Installs /\ <<>> \notin Stops /\ <<>> # <<"home">>
  /\ \A list \in Looks : list \in Todos \ (Stops \cup Installs) /\ list # <<"home">>
  <1>1. /\ \A step \in LastSteps : <<step>> \in Todos
        /\ <<>> \in Todos /\ Pairs \subseteq Todos /\ Stops \subseteq Todos /\ Installs \subseteq Todos
    BY DEF Todos
  <1>2. \A step \in LastSteps \ {"stop"} : <<step>> \notin Stops
    BY DEF Stops
  <1>3. \A step \in LastSteps \ {"install"} : <<step>> \notin Installs
    BY DEF Installs
  <1>4. \A step \in LastSteps \ {"home"} : <<step>> # <<"home">>
    OBVIOUS
  <1>5. \A list \in Pairs : list \notin Installs /\ list # <<"home">> /\ list \notin Stops
    BY DEF Pairs, Installs, Stops
  <1>6. \A list \in Stops \cup Installs : list # <<"home">>
    BY DEF Stops, Installs
  <1>7. \A list \in Stops : list \notin Installs
    BY DEF Stops, Installs
  <1>8. <<>> \notin Installs /\ <<>> \notin Stops /\ <<>> # <<"home">>
    BY DEF Stops, Installs
  <1>9. \A list \in Looks : list \in Todos \ (Stops \cup Installs) /\ list # <<"home">>
    BY DEF Looks, Todos, Stops, Installs
  <1>10. QED
    BY <1>1, <1>2, <1>3, <1>4, <1>5, <1>6, <1>7, <1>8, <1>9

LEMMA DoingOnly ==
  ASSUME NodeInv, NEW p \in Procs, NEW step \in LastSteps \ {"brake", "cancel"}, Doing(p, step)
  PROVE  /\ job[p].todo = <<step>>
         /\ step \notin Calls => ans[p] = "none"
         /\ step # "stop" => ~Stopping(p)
  <1>1. job[p].todo = <<step>>
    BY LastOnly DEF NodeInv, Jobs, Doing, Free
  <1>2. step \notin Calls => ~Calling(p)
    BY DEF Calling, Doing
  <1>3. QED
    BY <1>1, <1>2, TaskTypes DEF NodeInv, Stopping

LEMMA FreeOnly ==
  ASSUME NodeInv, NEW p \in Procs, Free(p)
  PROVE  job[p].todo = <<>> /\ ans[p] = "none" /\ ~Stopping(p)
  <1>1. ~Calling(p)
    BY DEF Calling, Doing
  <1>2. QED
    BY <1>1, TaskTypes DEF NodeInv, Stopping, Free

\* The process p gets the task todo, keeping or not what else it knows.
LEMMA GetsTask ==
  ASSUME NodeInv, NEW p \in Procs, NEW todo \in Todos, NEW ctx \in Contexts,
         NEW k \in 0..Chunks, NEW kind \in RouteKinds,
         \/ job' = [job EXCEPT ![p].todo = todo, ![p].ctx = ctx]
         \/ job' = [job EXCEPT ![p].todo = todo]
         \/ job' = [job EXCEPT ![p].todo = todo, ![p].k = k]
         \/ job' = Start(p, todo, ctx, k, kind)
         \/ todo = <<>> /\ job' = Done(p)
  PROVE  /\ job' \in [Procs -> Jobs] /\ job'[p].todo = todo
         /\ \A q \in Procs \ {p} : job'[q] = job[q]
  <1>1. CASE job' = [job EXCEPT ![p].todo = todo, ![p].ctx = ctx]
    <2> DEFINE first == [job EXCEPT ![p].todo = todo]
    <2>1. first \in [Procs -> Jobs] /\ first[p].todo = todo
      BY DEF NodeInv, Jobs
    <2>2. job' = [first EXCEPT ![p].ctx = ctx]
      BY <1>1, Zenon
    <2>3. \A q \in Procs \ {p} : first[q] = job[q]
      BY DEF NodeInv
    <2> HIDE DEF first
    <2>4. QED
      BY <2>1, <2>2, <2>3 DEF Jobs
  <1>2. CASE job' = [job EXCEPT ![p].todo = todo]
    BY <1>2 DEF NodeInv, Jobs
  <1>3. CASE job' = Start(p, todo, ctx, k, kind)
    BY <1>3 DEF NodeInv, Jobs, Start
  <1>4. CASE todo = <<>> /\ job' = Done(p)
    <2>1. Idle \in Jobs /\ Idle.todo = <<>>
      BY Bounds, TaskTypes DEF Idle, Jobs, Contexts
    <2>2. QED
      BY <1>4, <2>1 DEF NodeInv, Done
  <1>5. CASE job' = [job EXCEPT ![p].todo = todo, ![p].k = k]
    <2> DEFINE first == [job EXCEPT ![p].todo = todo]
    <2>1. first \in [Procs -> Jobs] /\ first[p].todo = todo
      BY DEF NodeInv, Jobs
    <2>2. job' = [first EXCEPT ![p].k = k]
      BY <1>5, Zenon
    <2>3. \A q \in Procs \ {p} : first[q] = job[q]
      BY DEF NodeInv
    <2> HIDE DEF first
    <2>4. QED
      BY <2>1, <2>2, <2>3 DEF Jobs
  <1>6. QED
    BY <1>1, <1>2, <1>3, <1>4, <1>5

(* A section that ends in one task for one process.                        *)
LEMMA OneTask ==
  ASSUME NodeInv, NEW p \in Procs, NEW todo \in Todos, todo # <<"home">>, todo \notin Installs,
         Section(m, m'), HonestInv => Honest(m'),
         ~Stopping(p) \/ ~m'.active,
         job' \in [Procs -> Jobs], job'[p].todo = todo,
         \A q \in Procs \ {p} : job'[q] = job[q],
         (ans' = ans /\ ans[p] = "none") \/ ans' = [ans EXCEPT ![p] = "none"]
  PROVE  Works({p})
  <1>1. \A q \in Procs : ans'[q] # "none" => q \notin {p} /\ ans[q] # "none"
    BY DEF NodeInv
  <1>2. ans' \in [Procs -> {"none", "ok", "refused"}]
    BY DEF NodeInv
  <1>3. HonestInv => Honest(m') /\ GoodJob(job'[p])
    BY DEF HonestInv, GoodJob
  <1>4. QED
    BY <1>1, <1>2, <1>3 DEF Works, Tasks

LEMMA GoOnWorks ==
  ASSUME NodeInv, NEW p \in Procs, NEW r, Sound(r), Alike(m, r), m.active,
         ~Stopping(p), ans' = ans, ans[p] = "none",
         NEW next \in 0..Chunks, NEW ctx \in Contexts, GoOn(p, r, next, ctx)
  PROVE  Works({p})
  <1>1. ASSUME NEW r2, NEW k \in 0..Chunks, NEW c \in Contexts, Section(r, r2),
               Honest(r) => Honest(r2), Send(p, r2, k, c)
        PROVE  Works({p})
    <2>1. Section(r, m') /\ (Honest(r) => Honest(m'))
      BY <1>1, ChunkIs DEF Send
    <2>2. Section(m, m') /\ (Honest(m) => Honest(m'))
      BY <2>1, AlikeIsSection, Itself DEF NodeInv, Section, Sound
    <2>3. <<"goal">> \in Todos /\ <<"goal">> \notin Installs /\ <<"goal">> # <<"home">>
      BY TaskTypes DEF LastSteps
    <2>4. /\ job' \in [Procs -> Jobs] /\ job'[p].todo = <<"goal">>
          /\ \A q \in Procs \ {p} : job'[q] = job[q]
      BY <1>1, <2>3, GetsTask, Bounds DEF Send
    <2>5. QED
      BY <2>2, <2>3, <2>4, OneTask DEF HonestInv
  <1>2. ASSUME NEW r2, Section(r, r2), Honest(r) => Honest(r2), m' = r2, job' = Done(p)
        PROVE  Works({p})
    <2>1. Section(m, m') /\ (Honest(m) => Honest(m'))
      BY <1>2, AlikeIsSection, Itself DEF NodeInv, Section, Sound
    <2>2. <<>> \in Todos /\ <<>> \notin Installs /\ <<>> # <<"home">>
      BY TaskTypes
    <2>3. /\ job' \in [Procs -> Jobs] /\ job'[p].todo = <<>>
          /\ \A q \in Procs \ {p} : job'[q] = job[q]
      BY <1>2, <2>2, GetsTask, Bounds DEF Contexts
    <2>4. QED
      BY <2>1, <2>2, <2>3, OneTask DEF HonestInv
  <1>3. r.patrol /\ Honest(r) => PatrolsOnly
    BY DEF Honest
  <1>4. r.active
    BY DEF Alike
  <1>5. CASE AtExit(r) /\ r.patrol
    <2>1. CASE Send(p, Phase(r, "connector"), 1, "home")
      BY <1>1, <1>3, <1>5, <2>1, PhaseIs, Bounds DEF Contexts
    <2>2. CASE m' = NoReturn(Stopped(r)) /\ job' = Done(p)
      BY <1>2, <2>2, StoppedIs
    <2>3. QED
      BY <1>5, <2>1, <2>2 DEF GoOn
  <1>6. CASE AtExit(r) /\ ~r.patrol
    <2>1. m' = r /\ job' = [job EXCEPT ![p].todo = <<"home">>, ![p].ctx = "home"]
      BY <1>6 DEF GoOn
    <2>2. ~Honest(r)
      BY <1>4, <1>6 DEF AtExit, Honest
    <2>3. Section(m, m') /\ ~Honest(m)
      BY <2>1, <2>2, AlikeIsSection, Itself DEF NodeInv, Sound
    <2>4. /\ job' \in [Procs -> Jobs] /\ \A q \in Procs \ {p} : job'[q] = job[q]
      BY <2>1, GetsTask, TaskTypes, Bounds DEF LastSteps, Contexts
    <2>5. QED
      BY <2>3, <2>4 DEF Works, Tasks, HonestInv, NodeInv
  <1>7. CASE ~AtExit(r) /\ (next # 0 \/ r.kind \in Loops)
    <2>1. Send(p, r, IF next = 0 THEN 1 ELSE next, ctx)
      BY <1>7 DEF GoOn
    <2>2. (IF next = 0 THEN 1 ELSE next) \in 0..Chunks
      BY Bounds
    <2>3. QED
      BY <1>1, <2>1, <2>2, Itself
  <1>8. CASE ~AtExit(r) /\ ~(next # 0 \/ r.kind \in Loops) /\ r.patrol /\ r.phase = "depart"
    <2>1. CASE Send(p, Phase(r, "main"), 1, "main")
      BY <1>1, <1>3, <1>8, <2>1, PhaseIs, Bounds DEF Contexts
    <2>2. CASE m' = Reset(r) /\ job' = Done(p)
      BY <1>2, <2>2, ResetIs
    <2>3. QED
      BY <1>8, <2>1, <2>2 DEF GoOn
  <1>9. CASE ~AtExit(r) /\ ~(next # 0 \/ r.kind \in Loops) /\ ~(r.patrol /\ r.phase = "depart")
    <2>1. m' = Completed(r) /\ job' = Done(p)
      BY <1>9 DEF GoOn
    <2>2. QED
      BY <1>2, <2>1, CompletedIs
  <1>10. QED
    BY <1>5, <1>6, <1>7, <1>8, <1>9

-----------------------------------------------------------------------------
(* The actions of the node.                                                *)

LEMMA ActingIs ==
  ASSUME NEW r, Sound(r), NEW b \in BOOLEAN
  PROVE  LET s == [r EXCEPT !.acting = b] IN Sound(s) /\ Alike(r, s) /\ s.active = r.active
  BY DEF Sound, WF, Typed, Names, Alike

LEMMA AdvanceWorks ==
  ASSUME NodeInv, NEW p \in Procs, Advance(p)
  PROVE  \E Q \in SUBSET Procs : Works(Q)
  <1>1. Doing(p, "advance") /\ ans' = ans
    BY DEF Advance
  <1>2. job[p].todo = <<"advance">> /\ ans[p] = "none" /\ ~Stopping(p)
    BY <1>1, DoingOnly DEF LastSteps, Calls
  <1>3. /\ <<>> \in Todos /\ <<>> \notin Installs /\ <<>> # <<"home">>
        /\ <<"hold">> \in Todos /\ <<"hold">> \notin Installs /\ <<"hold">> # <<"home">>
    BY TaskTypes DEF LastSteps
  <1>4. m.cur \in 0..Chunks /\ m.kind \in RouteKinds
    BY DEF NodeInv, Sound, WF, Typed
  <1>5. CASE m' = m /\ job' = Done(p)
    <2>1. /\ job' \in [Procs -> Jobs] /\ job'[p].todo = <<>>
          /\ \A q \in Procs \ {p} : job'[q] = job[q]
      BY <1>3, <1>5, GetsTask, Bounds DEF Contexts
    <2>2. Works({p})
      BY <1>1, <1>2, <1>3, <1>5, <2>1, OneTask, Itself DEF NodeInv, HonestInv
    <2>3. QED
      BY <2>2
  <1>6. ASSUME NEW t \in Threads, Free(t), m' = m,
               job' = [Start(t, <<"hold">>, "", m.cur, m.kind) EXCEPT ![p] = Idle]
        PROVE  \E Q \in SUBSET Procs : Works(Q)
    <2>1. t \in Procs /\ t # p /\ ans[t] = "none" /\ ~Stopping(t)
      BY <1>1, <1>6, FreeOnly DEF Procs, Doing
    <2>2. Idle \in Jobs /\ Idle.todo = <<>>
      BY Bounds, <1>3 DEF Idle, Jobs, Contexts
    <2>3. [todo |-> <<"hold">>, ctx |-> "", k |-> m.cur, kind |-> m.kind] \in Jobs
      BY <1>3, <1>4 DEF Jobs, Contexts
    <2>4. /\ job' \in [Procs -> Jobs] /\ job'[p].todo = <<>> /\ job'[t].todo = <<"hold">>
          /\ \A q \in Procs \ {p, t} : job'[q] = job[q]
      BY <1>6, <2>1, <2>2, <2>3 DEF NodeInv, Start
    <2>5. GoodJob(job'[p]) /\ GoodJob(job'[t])
      BY <1>3, <2>4 DEF GoodJob
    <2>6. Section(m, m')
      BY <1>6, Itself DEF NodeInv
    <2>7. Works({p, t})
      BY <1>1, <1>2, <1>6, <2>1, <2>4, <2>5, <2>6 DEF Works, Tasks, HonestInv, NodeInv
    <2>8. QED
      BY <2>1, <2>7
  <1>7. CASE m.active /\ GoOn(p, m, NextChunk(m.cur, m.kind), "next")
    <2>1. Works({p})
      BY <1>1, <1>2, <1>4, <1>7, NextChunkType, GoOnWorks, Itself DEF NodeInv, Contexts
    <2>2. QED
      BY <2>1
  <1>8. QED
    BY <1>5, <1>6, <1>7 DEF Advance

LEMMA HoldWorks ==
  ASSUME NodeInv, NEW p \in Procs, Hold(p)
  PROVE  Works({p})
  <1>1. Doing(p, "hold") /\ ans' = ans
    BY DEF Hold
  <1>2. job[p].todo = <<"hold">> /\ ans[p] = "none" /\ ~Stopping(p)
    BY <1>1, DoingOnly DEF LastSteps, Calls
  <1>3. ASSUME NEW r, m' = r, Sound(r), Alike(m, r), NEW todo \in {<<>>} \cup Pairs,
               job' \in [Procs -> Jobs], job'[p].todo = todo,
               \A q \in Procs \ {p} : job'[q] = job[q]
        PROVE  Works({p})
    <2>1. todo \in Todos /\ todo \notin Installs /\ todo # <<"home">>
      BY TaskTypes
    <2>2. Section(m, m') /\ (Honest(m) => Honest(m'))
      BY <1>3, Itself, AlikeIsSection DEF NodeInv, Sound
    <2>3. QED
      BY <1>1, <1>2, <1>3, <2>1, <2>2, OneTask DEF HonestInv
  <1> DEFINE r == [m EXCEPT !.acting = FALSE]
             s == [m EXCEPT !.acting = TRUE]
  <1>4. Sound(r) /\ Alike(m, r) /\ Sound(s) /\ Alike(m, s)
    BY ActingIs DEF NodeInv
  <1>5. \/ m' = r /\ job' = Done(p)
        \/ m' = s /\ job' = [job EXCEPT ![p].todo = <<"brake", "held">>]
    BY DEF Hold
  <1> HIDE DEF r, s
  <1>6. <<>> \in Todos /\ <<"brake", "held">> \in Pairs /\ <<"brake", "held">> \in Todos
    BY TaskTypes DEF Pairs
  <1>7. CASE m' = r /\ job' = Done(p)
    <2>1. /\ job' \in [Procs -> Jobs] /\ job'[p].todo = <<>>
          /\ \A q \in Procs \ {p} : job'[q] = job[q]
      BY <1>6, <1>7, GetsTask, Bounds DEF Contexts
    <2>2. QED
      BY <1>3, <1>4, <1>7, <2>1
  <1>8. CASE m' = s /\ job' = [job EXCEPT ![p].todo = <<"brake", "held">>]
    <2>1. /\ job' \in [Procs -> Jobs] /\ job'[p].todo = <<"brake", "held">>
          /\ \A q \in Procs \ {p} : job'[q] = job[q]
      BY <1>6, <1>8, GetsTask, Bounds DEF Contexts
    <2>2. QED
      BY <1>3, <1>4, <1>6, <1>8, <2>1
  <1>9. QED
    BY <1>5, <1>7, <1>8

LEMMA HeldWorks ==
  ASSUME NodeInv, NEW p \in Procs, Held(p)
  PROVE  Works({p})
  <1> DEFINE r == [m EXCEPT !.acting = FALSE]
  <1>1. Doing(p, "held") /\ ans' = ans
    BY DEF Held
  <1>2. job[p].todo = <<"held">> /\ ans[p] = "none" /\ ~Stopping(p)
    BY <1>1, DoingOnly DEF LastSteps, Calls
  <1>3. Sound(r) /\ Alike(m, r)
    BY ActingIs DEF NodeInv
  <1>4. NextChunk(job[p].k, job[p].kind) \in 0..Chunks
    BY NextChunkType DEF NodeInv, Jobs
  <1>5. CASE m' = r /\ job' = Done(p)
    <2>1. <<>> \in Todos /\ <<>> \notin Installs /\ <<>> # <<"home">>
      BY TaskTypes
    <2>2. /\ job' \in [Procs -> Jobs] /\ job'[p].todo = <<>>
          /\ \A q \in Procs \ {p} : job'[q] = job[q]
      BY <1>5, <2>1, GetsTask, Bounds DEF Contexts
    <2>3. Section(m, m') /\ (Honest(m) => Honest(m'))
      BY <1>3, <1>5, Itself, AlikeIsSection DEF NodeInv, Sound
    <2>4. QED
      BY <1>1, <1>2, <2>1, <2>2, <2>3, OneTask DEF HonestInv
  <1>6. CASE m.active /\ GoOn(p, r, NextChunk(job[p].k, job[p].kind), "act")
    <2> HIDE DEF r
    <2>1. QED
      BY <1>1, <1>2, <1>3, <1>4, <1>6, GoOnWorks DEF Contexts
  <1>7. QED
    BY <1>5, <1>6 DEF Held

\* The retry thread remembers where its chunk started.
LEMMA LookWorks ==
  ASSUME NodeInv, NEW p \in Procs, Look(p)
  PROVE  Works({p})
  <1> DEFINE start == IF m.cur = 0 THEN 1 ELSE m.cur
             list == job[p].todo
  <1>1. list \in Todos /\ list # <<>> /\ Head(list) = "look" /\ ~Calling(p)
    BY DEF Look, Doing, Free, NodeInv, Jobs, Calling, Calls
  <1>2. list = <<"look", "retry">>
    <2>1. CASE list \in {<<e>> : e \in LastSteps}
      BY <1>1, <2>1 DEF LastSteps
    <2>2. CASE list \in Stops \cup Installs
      BY <1>1, <2>2 DEF Stops, Installs
    <2>3. CASE list \in Pairs
      BY <1>1, <2>3 DEF Pairs
    <2>4. QED
      BY <1>1, <2>1, <2>2, <2>3 DEF Todos, Looks
  <1>3. Tail(list) = <<"retry">>
    BY <1>2, Lists
  <1>4. start \in 0..Chunks
    BY Bounds DEF NodeInv, Sound, WF, Typed
  <1>5. job' = [job EXCEPT ![p].todo = <<"retry">>, ![p].k = start]
    BY <1>3 DEF Look
  <1> HIDE DEF start, list
  <1>6. <<"retry">> \in Todos /\ <<"retry">> \notin Installs /\ <<"retry">> # <<"home">>
    BY TaskTypes DEF LastSteps
  <1>7. /\ job' \in [Procs -> Jobs] /\ job'[p].todo = <<"retry">>
        /\ \A q \in Procs \ {p} : job'[q] = job[q]
    BY <1>4, <1>5, <1>6, GetsTask, Bounds DEF Contexts
  <1>8. Section(m, m') /\ (HonestInv => Honest(m')) /\ ans' = ans /\ ans[p] = "none"
    BY <1>1, Itself DEF Look, NodeInv, HonestInv
  <1>9. ~Stopping(p)
    <2>1. <<"look", "retry">> \in Looks
      BY DEF Looks
    <2>2. QED
      BY <1>2, <2>1, TaskTypes DEF Stopping, list
  <1>10. QED
    BY <1>6, <1>7, <1>8, <1>9, OneTask

LEMMA RetryWorks ==
  ASSUME NodeInv, NEW p \in Procs, Retry(p)
  PROVE  Works({p})
  <1>1. Doing(p, "retry") /\ ans' = ans
    BY DEF Retry
  <1>2. job[p].todo = <<"retry">> /\ ans[p] = "none" /\ ~Stopping(p)
    BY <1>1, DoingOnly DEF LastSteps, Calls
  <1>3. CASE /\ m' = SendFailed(m, "retry")
             /\ job' = [job EXCEPT ![p].todo = <<"brake", "enter">>, ![p].k = 0]
    <2>1. <<"brake", "enter">> \in Pairs
      BY DEF Pairs
    <2>2. /\ <<"brake", "enter">> \in Todos /\ <<"brake", "enter">> \notin Installs
          /\ <<"brake", "enter">> # <<"home">>
      BY <2>1, TaskTypes
    <2>3. /\ job' \in [Procs -> Jobs] /\ job'[p].todo = <<"brake", "enter">>
          /\ \A q \in Procs \ {p} : job'[q] = job[q]
      BY <1>3, <2>2, GetsTask, Bounds DEF Contexts
    <2>4. Section(m, m') /\ (Honest(m) => Honest(m'))
      BY <1>3, SendFailedIs DEF NodeInv
    <2>5. QED
      BY <1>1, <1>2, <2>2, <2>3, <2>4, OneTask DEF HonestInv
  <1>4. CASE /\ m' = [m EXCEPT !.cur = job[p].k]
             /\ job' = [job EXCEPT ![p].todo = <<"goal">>, ![p].k = 0]
    <2>1. <<"goal">> \in Todos /\ <<"goal">> \notin Installs /\ <<"goal">> # <<"home">>
      BY TaskTypes DEF LastSteps
    <2>2. job[p].k \in 0..Chunks
      BY DEF NodeInv, Jobs
    <2>3. Section(m, m') /\ (Honest(m) => Honest(m'))
      BY <1>4, <2>2, Itself, ChunkIs DEF NodeInv
    <2>4. /\ job' \in [Procs -> Jobs] /\ job'[p].todo = <<"goal">>
          /\ \A q \in Procs \ {p} : job'[q] = job[q]
      BY <1>4, <2>1, GetsTask, Bounds DEF Contexts
    <2>5. QED
      BY <1>1, <1>2, <2>1, <2>3, <2>4, OneTask DEF HonestInv
  <1>5. QED
    BY <1>3, <1>4 DEF Retry

\* The sections that end a handler.
LEMMA EndsWorks ==
  ASSUME NodeInv, NEW p \in Procs, Retried(p) \/ EnterBlocked(p) \/ StopLow(p) \/ ResetMission(p)
  PROVE  Works({p})
  <1>1. /\ ans' = ans /\ job' = Done(p)
        /\ Doing(p, "retried") \/ Doing(p, "enter") \/ Doing(p, "stop") \/ Doing(p, "reset")
    BY DEF Retried, EnterBlocked, StopLow, ResetMission
  <1>2. ans[p] = "none"
    BY <1>1, DoingOnly DEF LastSteps, Calls
  <1>3. <<>> \in Todos /\ <<>> \notin Installs /\ <<>> # <<"home">>
    BY TaskTypes
  <1>4. /\ job' \in [Procs -> Jobs] /\ job'[p].todo = <<>>
        /\ \A q \in Procs \ {p} : job'[q] = job[q]
    BY <1>1, <1>3, GetsTask, Bounds DEF Contexts
  <1>5. /\ Section(m, m') /\ (Honest(m) => Honest(m'))
        /\ ~Stopping(p) \/ ~m'.active
    <2>1. CASE Retried(p)
      <3> DEFINE x == [m EXCEPT !.blocked = "", !.inflight = FALSE, !.stop = "no"]
      <3>1. WF(x) /\ (Honest(m) => Honest(x))
        BY DEF NodeInv, Sound, WF, Typed, Names, Honest
      <3>2. Drains(m, x) /\ Blocks(m, x)
        BY DEF NodeInv, Sound, WF, Names, Drains, Draining, Returns, Blocks
      <3>3. Section(m, x)
        BY <3>1, <3>2 DEF NodeInv, Section, Sound, WF, Names
      <3>4. m' = x /\ ~Stopping(p)
        BY <2>1, DoingOnly DEF Retried, LastSteps
      <3>5. QED
        BY <3>1, <3>3, <3>4
    <2>2. CASE EnterBlocked(p)
      BY <2>2, WaitingIs, DoingOnly DEF EnterBlocked, NodeInv, LastSteps
    <2>3. CASE StopLow(p)
      BY <2>3, StoppedIs DEF StopLow, NodeInv
    <2>4. CASE ResetMission(p)
      BY <2>4, ResetIs, DoingOnly DEF ResetMission, NodeInv, LastSteps
    <2>5. QED
      BY <2>1, <2>2, <2>3, <2>4
  <1>6. QED
    BY <1>1, <1>2, <1>3, <1>4, <1>5, OneTask DEF HonestInv

LEMMA InstallWorks ==
  ASSUME NodeInv, NEW p \in Procs, Install(p)
  PROVE  Works({p})
  <1>1. Doing(p, "install") /\ ans' = ans
    BY DEF Install
  <1>2. job[p].todo = <<"install">> /\ ans[p] = "none" /\ ~Stopping(p)
    BY <1>1, DoingOnly DEF LastSteps, Calls
  <1>3. <<"goal">> \in Todos /\ <<"goal">> \notin Installs /\ <<"goal">> # <<"home">>
    BY TaskTypes DEF LastSteps
  <1>4. job[p].kind \in RouteKinds
    BY DEF NodeInv, Jobs
  <1>5. HonestInv => ~PatrolsOnly /\ job[p].kind \in {"line", "bareloop"}
    BY <1>2 DEF HonestInv, GoodJob, Installs
  <1>6. HonestInv => Honest(Installed(m, job[p].kind))
    BY <1>4, <1>5, InstalledIs DEF HonestInv, Honest, NodeInv, Sound
  <1>7. Section(m, m') /\ (HonestInv => Honest(m'))
    BY <1>4, <1>6, InstalledIs, ChunkIs, Bounds DEF Install, NodeInv, Sound
  <1>8. /\ job' \in [Procs -> Jobs] /\ job'[p].todo = <<"goal">>
        /\ \A q \in Procs \ {p} : job'[q] = job[q]
    BY <1>3, GetsTask, Bounds DEF Contexts, Install
  <1>9. QED
    BY <1>1, <1>2, <1>3, <1>7, <1>8, OneTask

\* A call to brake or cancel is over, and the handler goes on.
LEMMA FollowWorks ==
  ASSUME NodeInv, NEW p \in Procs, Calling(p), ~Doing(p, "goal"), ~Doing(p, "home"),
         m' = m, job' = [job EXCEPT ![p] = Following(p)], ans' = [ans EXCEPT ![p] = "none"]
  PROVE  Works({p})
  <1> DEFINE list == job[p].todo
  <1>1. list \in Todos \ Looks /\ list # <<>> /\ Head(list) \in {"brake", "cancel"}
    BY DEF Calling, Calls, Doing, Free, NodeInv, Jobs, Looks
  <1>2. Section(m, m')
    BY Itself DEF NodeInv
  <1>3. \A q \in Procs : ans'[q] # "none" => q \notin {p} /\ ans[q] # "none"
    BY DEF NodeInv
  <1>4. ans' \in [Procs -> {"none", "ok", "refused"}]
    BY DEF NodeInv
  <1>5. CASE Len(list) = 1
    <2>1. Idle \in Jobs /\ Idle.todo = <<>> /\ job' = [job EXCEPT ![p] = Idle]
      BY <1>5, Bounds, TaskTypes DEF Idle, Jobs, Contexts, Following
    <2>2. /\ job' \in [Procs -> Jobs] /\ job'[p].todo = <<>>
          /\ \A q \in Procs \ {p} : job'[q] = job[q]
      BY <2>1 DEF NodeInv
    <2>3. list \notin Stops
      <3>1. list \in Stops => list = <<"stop">>
        BY <1>5, Lists DEF Stops
      <3>2. Head(<<"stop">>) = "stop"
        OBVIOUS
      <3>3. QED
        BY <1>1, <3>1, <3>2
    <2>4. GoodJob(job'[p])
      BY <2>2, TaskTypes DEF GoodJob
    <2>5. QED
      BY <1>2, <1>3, <1>4, <2>2, <2>3, <2>4 DEF Works, Tasks, HonestInv, Stopping
  <1>6. CASE Len(list) # 1
    <2>1. /\ Tail(list) \in Todos \ {<<>>} /\ Tail(list) # <<"home">>
          /\ list \in Stops => Tail(list) \in Stops
          /\ Tail(list) \in Installs => list \in Installs
      BY <1>1, <1>6, FirstCalls
    <2>2. Following(p) = [job[p] EXCEPT !.todo = Tail(list)]
      BY <1>6 DEF Following
    <2>3. /\ Following(p) \in Jobs /\ Following(p).todo = Tail(list)
          /\ Following(p).kind = job[p].kind
      BY <2>1, <2>2 DEF NodeInv, Jobs
    <2>4. /\ job' \in [Procs -> Jobs] /\ job'[p] = Following(p)
          /\ \A q \in Procs \ {p} : job'[q] = job[q]
      BY <2>3 DEF NodeInv
    <2>5. GoodJob(job[p]) => GoodJob(job'[p])
      BY <2>1, <2>3, <2>4 DEF GoodJob
    <2>6. Stopping(p) => Stopping(p)'
      BY <2>1, <2>3, <2>4 DEF Stopping
    <2>7. QED
      BY <1>2, <1>3, <1>4, <2>4, <2>5, <2>6 DEF Works, Tasks, HonestInv
  <1>7. QED
    BY <1>5, <1>6

\* The answer to a chunk, or to the call that sends the robot HOME.
LEMMA SentWorks ==
  ASSUME NodeInv, NEW p \in Procs, Doing(p, "goal") \/ Doing(p, "home"),
         ans' = [ans EXCEPT ![p] = "none"],
         m' = [m EXCEPT !.awaiting = TRUE, !.home = @ \/ Doing(p, "home")],
         job' = IF job[p].ctx = "retry" THEN [job EXCEPT ![p].todo = <<"retried">>] ELSE Done(p)
  PROVE  Works({p})
  <1> DEFINE home == m.home \/ Doing(p, "home")
             x == [m EXCEPT !.awaiting = TRUE, !.home = @ \/ Doing(p, "home")]
  <1>1. job[p].todo \in {<<"goal">>, <<"home">>} /\ ~Stopping(p)
    BY DoingOnly DEF LastSteps
  <1>2. /\ <<"retried">> \in Todos /\ <<"retried">> \notin Installs /\ <<"retried">> # <<"home">>
        /\ <<>> \in Todos /\ <<>> \notin Installs /\ <<>> # <<"home">>
    BY TaskTypes DEF LastSteps
  <1>3. PICK todo \in {<<>>, <<"retried">>} :
           /\ job' \in [Procs -> Jobs] /\ job'[p].todo = todo
           /\ \A q \in Procs \ {p} : job'[q] = job[q]
    <2>1. CASE job[p].ctx = "retry"
      <3>1. job' = [job EXCEPT ![p].todo = <<"retried">>]
        BY <2>1
      <3>2. /\ job' \in [Procs -> Jobs] /\ job'[p].todo = <<"retried">>
            /\ \A q \in Procs \ {p} : job'[q] = job[q]
        BY <1>2, <3>1, GetsTask, Bounds DEF Contexts
      <3>3. QED
        BY <3>2
    <2>2. CASE job[p].ctx # "retry"
      <3>1. job' = Done(p)
        BY <2>2
      <3>2. /\ job' \in [Procs -> Jobs] /\ job'[p].todo = <<>>
            /\ \A q \in Procs \ {p} : job'[q] = job[q]
        BY <1>2, <3>1, GetsTask, Bounds DEF Contexts
      <3>3. QED
        BY <3>2
    <2>3. QED
      BY <2>1, <2>2
  <1>4. home \in BOOLEAN /\ (m.home => home) /\ (~Doing(p, "home") => (home <=> m.home))
    BY Zenon
  <1>5. /\ DOMAIN x = Names /\ x.home = home /\ x.awaiting = TRUE
        /\ x.kind = m.kind /\ x.cur = m.cur /\ x.active = m.active /\ x.paused = m.paused
        /\ x.blocked = m.blocked /\ x.tries = m.tries /\ x.requested = m.requested
        /\ x.inflight = m.inflight /\ x.stop = m.stop /\ x.acting = m.acting /\ x.low = m.low
        /\ x.phase = m.phase /\ x.patrol = m.patrol
        /\ x.plan = m.plan /\ x.last = m.last /\ x.handled = m.handled
    BY DEF NodeInv, Sound, WF, Names
  <1> HIDE DEF x, home
  <1>6. Sound(x)
    BY <1>4, <1>5 DEF NodeInv, Sound, WF, Typed
  <1>7. Blocks(m, x)
    BY <1>5 DEF Blocks
  <1>8. Drains(m, x)
    BY <1>4, <1>5 DEF Drains, Draining, Returns
  <1>9. HonestInv => Honest(x)
    <2>1. HonestInv => ~Doing(p, "home")
      BY DoingOnly DEF HonestInv, GoodJob, LastSteps
    <2>2. QED
      BY <1>4, <1>5, <2>1 DEF HonestInv, Honest
  <1>10. Section(m, m') /\ (HonestInv => Honest(m'))
    BY <1>5, <1>6, <1>7, <1>8, <1>9 DEF Section, x
  <1>11. QED
    BY <1>1, <1>2, <1>3, <1>10, OneTask

LEMMA FailedWorks ==
  ASSUME NodeInv, NEW p \in Procs, Doing(p, "goal") \/ Doing(p, "home"),
         ans' = [ans EXCEPT ![p] = "none"], m' = SendFailed(m, job[p].ctx),
         job' = IF job[p].ctx = "retry" THEN [job EXCEPT ![p].todo = <<"brake", "enter">>]
                                        ELSE Done(p)
  PROVE  Works({p})
  <1>1. job[p].todo \in {<<"goal">>, <<"home">>} /\ ~Stopping(p)
    BY DoingOnly DEF LastSteps
  <1>2. <<"brake", "enter">> \in Pairs
    BY DEF Pairs
  <1>3. /\ <<"brake", "enter">> \in Todos /\ <<"brake", "enter">> \notin Installs
        /\ <<"brake", "enter">> # <<"home">>
        /\ <<>> \in Todos /\ <<>> \notin Installs /\ <<>> # <<"home">>
    BY <1>2, TaskTypes
  <1>4. PICK todo \in {<<>>, <<"brake", "enter">>} :
           /\ job' \in [Procs -> Jobs] /\ job'[p].todo = todo
           /\ \A q \in Procs \ {p} : job'[q] = job[q]
    <2>1. CASE job[p].ctx = "retry"
      <3>1. job' = [job EXCEPT ![p].todo = <<"brake", "enter">>]
        BY <2>1
      <3>2. /\ job' \in [Procs -> Jobs] /\ job'[p].todo = <<"brake", "enter">>
            /\ \A q \in Procs \ {p} : job'[q] = job[q]
        BY <1>3, <3>1, GetsTask, Bounds DEF Contexts
      <3>3. QED
        BY <3>2
    <2>2. CASE job[p].ctx # "retry"
      <3>1. job' = Done(p)
        BY <2>2
      <3>2. /\ job' \in [Procs -> Jobs] /\ job'[p].todo = <<>>
            /\ \A q \in Procs \ {p} : job'[q] = job[q]
        BY <1>3, <3>1, GetsTask, Bounds DEF Contexts
      <3>3. QED
        BY <3>2
    <2>3. QED
      BY <2>1, <2>2
  <1>5. Section(m, m') /\ (Honest(m) => Honest(m'))
    BY SendFailedIs DEF NodeInv
  <1>6. QED
    BY <1>1, <1>3, <1>4, <1>5, OneTask DEF HonestInv

LEMMA AnsweredWorks ==
  ASSUME NodeInv, NEW p \in Procs, Calling(p), NEW ok, Answered(p, ok)
  PROVE  Works({p})
  <1>1. CASE ~Doing(p, "goal") /\ ~Doing(p, "home")
    BY <1>1, FollowWorks DEF Answered
  <1>2. CASE (Doing(p, "goal") \/ Doing(p, "home")) /\ ok
    <2>1. /\ m' = [m EXCEPT !.awaiting = TRUE, !.home = @ \/ Doing(p, "home")]
          /\ job' = IF job[p].ctx = "retry" THEN [job EXCEPT ![p].todo = <<"retried">>]
                                            ELSE Done(p)
          /\ ans' = [ans EXCEPT ![p] = "none"]
      BY <1>2, Zenon DEF Answered
    <2>2. QED
      BY <1>2, <2>1, SentWorks
  <1>3. CASE (Doing(p, "goal") \/ Doing(p, "home")) /\ ~ok
    BY <1>3, FailedWorks DEF Answered
  <1>4. QED
    BY <1>1, <1>2, <1>3

\* A free process is given a task.
LEMMA StartTask ==
  ASSUME NodeInv, NEW p \in Procs, Free(p), NEW todo \in Todos, NEW ctx \in Contexts,
         NEW k \in 0..Chunks, NEW kind \in RouteKinds,
         HonestInv => Honest(m'), todo # <<"home">>,
         HonestInv => (todo \in Installs => ~PatrolsOnly /\ kind \in {"line", "bareloop"}),
         job' = Start(p, todo, ctx, k, kind), ans' = ans
  PROVE  Tasks({p})
  <1>1. ans[p] = "none" /\ ~Stopping(p)
    BY FreeOnly
  <1>2. /\ job' \in [Procs -> Jobs] /\ \A q \in Procs \ {p} : job'[q] = job[q]
        /\ job'[p] = [todo |-> todo, ctx |-> ctx, k |-> k, kind |-> kind]
    BY DEF NodeInv, Jobs, Start
  <1>3. job'[p].todo = todo /\ job'[p].kind = kind
    BY <1>2
  <1>4. HonestInv => GoodJob(job'[p])
    BY <1>3 DEF GoodJob
  <1>5. QED
    BY <1>1, <1>2, <1>4 DEF Tasks, NodeInv

LEMMA StartWorks ==
  ASSUME NodeInv, NEW p \in Procs, Free(p), NEW todo \in Todos, NEW ctx \in Contexts,
         NEW k \in 0..Chunks, NEW kind \in RouteKinds,
         Section(m, m'), HonestInv => Honest(m'), todo # <<"home">>,
         HonestInv => (todo \in Installs => ~PatrolsOnly /\ kind \in {"line", "bareloop"}),
         job' = Start(p, todo, ctx, k, kind), ans' = ans
  PROVE  Works({p})
  BY StartTask DEF Works

\* The same when there is nothing to do.
LEMMA NoTask ==
  ASSUME NodeInv, HonestInv => Honest(m'), job' = job, ans' = ans
  PROVE  Tasks({}) /\ (Section(m, m') => Works({}))
  BY DEF Works, Tasks, NodeInv

LEMMA WorkersAreProcs ==
  /\ \A w \in Workers : w \in Procs
  /\ \A t \in Threads : t \in Procs
  BY DEF Procs

LEMMA RetryTickWorks ==
  ASSUME NodeInv, NEW w \in Workers, RetryTick(w)
  PROVE  \E Q \in SUBSET Procs : Works(Q)
  <1> DEFINE x == [m EXCEPT !.blocked = "retrying", !.inflight = TRUE, !.tries = @ + 1]
  <1>1. m.blocked = "waiting" /\ m.tries \in 0..MaxAttempts /\ m.tries < MaxAttempts
    BY DEF RetryTick, NodeInv, Sound, WF, Typed
  <1>2. m.tries + 1 \in 0..MaxAttempts
    BY <1>1, Bounds
  <1>3. /\ DOMAIN x = Names /\ x.blocked = "retrying" /\ x.inflight = TRUE
        /\ x.tries = m.tries + 1
        /\ x.kind = m.kind /\ x.cur = m.cur /\ x.active = m.active /\ x.paused = m.paused
        /\ x.awaiting = m.awaiting /\ x.requested = m.requested /\ x.home = m.home
        /\ x.stop = m.stop /\ x.acting = m.acting /\ x.low = m.low /\ x.phase = m.phase
        /\ x.patrol = m.patrol /\ x.plan = m.plan /\ x.last = m.last /\ x.handled = m.handled
    BY DEF NodeInv, Sound, WF, Names
  <1>4. m' = x
    BY DEF RetryTick
  <1> HIDE DEF x
  <1>5. Sound(x)
    BY <1>2, <1>3 DEF NodeInv, Sound, WF, Typed
  <1>6. Blocks(m, x) /\ Drains(m, x) /\ (Honest(m) => Honest(x))
    BY <1>1, <1>3 DEF Blocks, Drains, Draining, Returns, Honest
  <1>7. Section(m, m') /\ (HonestInv => Honest(m'))
    BY <1>3, <1>4, <1>5, <1>6 DEF Section, HonestInv
  <1>8. PICK t \in Threads : Free(t) /\ job' = Start(t, <<"look", "retry">>, "retry", 0, "none")
    BY DEF RetryTick
  <1>9. /\ <<"look", "retry">> \in Todos /\ <<"look", "retry">> \notin Installs
        /\ <<"look", "retry">> # <<"home">>
    BY TaskTypes DEF Looks
  <1>10. t \in Procs
    BY WorkersAreProcs
  <1>11. ans' = ans /\ Free(t)
    BY <1>8 DEF RetryTick
  <1>12. Works({t})
    BY <1>7, <1>8, <1>9, <1>10, <1>11, StartWorks, Bounds DEF Contexts
  <1>13. QED
    BY <1>10, <1>12

\* What the battery guard may do: a mission that cannot go HOME gets a stop.
LowWorks(Q) ==
    /\ Sound(m') /\ Blocks(m, m') /\ m'.last = m.last /\ m'.handled = m.handled
    /\ HonestInv => Honest(m')
    /\ job' \in [Procs -> Jobs] /\ ans' = ans
    /\ \A q \in Procs \ Q : job'[q] = job[q]
    /\ \A q \in Q : ans[q] = "none" /\ ~Stopping(q) /\ (HonestInv => GoodJob(job'[q]))
    /\ Draining(m') => Returns(m') \/ \E q \in Procs : Stopping(q)'

LEMMA LowBatteryWorks ==
  ASSUME NodeInv, NEW w \in Workers, LowBattery(w)
  PROVE  \E Q \in SUBSET Procs : LowWorks(Q)
  <1> DEFINE r == [m EXCEPT !.low = TRUE]
             home == [r EXCEPT !.requested = TRUE, !.phase = IF m.plan THEN "pending" ELSE @]
  <1>0. w \in Procs /\ Free(w) /\ ans' = ans
    BY WorkersAreProcs DEF LowBattery
  <1>1. ans[w] = "none" /\ ~Stopping(w)
    BY <1>0, FreeOnly
  <1>2. /\ Sound(r) /\ Blocks(m, r) /\ r.last = m.last /\ r.handled = m.handled
        /\ r.home = m.home /\ r.requested = m.requested /\ r.kind = m.kind
        /\ r.active = m.active /\ r.paused = m.paused /\ (Honest(m) => Honest(r))
    BY DEF NodeInv, Sound, WF, Typed, Names, Blocks, Honest
  <1>3. CASE (~m.active \/ m.paused \/ m.requested \/ m.home) /\ m' = r /\ job' = job
    <2> HIDE DEF r
    <2>1. Draining(m') => Returns(m')
      BY <1>2, <1>3 DEF Draining, Returns, NodeInv, Sound, WF, Typed
    <2>2. LowWorks({})
      BY <1>0, <1>2, <1>3, <2>1 DEF HonestInv, NodeInv, LowWorks
    <2>3. QED
      BY <2>2
  <1>4. CASE m.kind \in {"loop", "main"} /\ m' = home /\ job' = job
    <2> DEFINE phase == IF m.plan THEN "pending" ELSE m.phase
    <2>1. /\ DOMAIN home = Names /\ home.requested = TRUE /\ home.phase = phase
          /\ home.low = TRUE
          /\ home.kind = m.kind /\ home.cur = m.cur /\ home.active = m.active
          /\ home.paused = m.paused /\ home.awaiting = m.awaiting /\ home.blocked = m.blocked
          /\ home.tries = m.tries /\ home.inflight = m.inflight /\ home.stop = m.stop
          /\ home.acting = m.acting /\ home.home = m.home /\ home.plan = m.plan
          /\ home.patrol = m.patrol /\ home.last = m.last /\ home.handled = m.handled
      BY DEF NodeInv, Sound, WF, Names
    <2>2. phase \in {"idle", "depart", "main", "pending", "connector", "parked"}
      BY DEF NodeInv, Sound, WF, Typed
    <2>3. Honest(m) => m.kind = "main"
      BY <1>4 DEF Honest
    <2> HIDE DEF home
    <2>4. Sound(home) /\ Blocks(m, home) /\ Returns(home)
      BY <1>4, <2>1, <2>2 DEF NodeInv, Sound, WF, Typed, Blocks, Returns
    <2>5. Honest(m) => Honest(home)
      <3>1. Honest(m) => PatrolsOnly
        BY <2>3 DEF Honest
      <3>2. QED
        BY <2>1, <2>3, <3>1 DEF Honest
    <2>6. LowWorks({})
      BY <1>0, <1>4, <2>1, <2>4, <2>5 DEF HonestInv, NodeInv, LowWorks
    <2>7. QED
      BY <2>6
  <1>5. CASE m' = r /\ job' = Start(w, <<"brake", "cancel", "stop">>, "", 0, "none")
    <2>1. <<"brake", "cancel", "stop">> \in Stops
      BY DEF Stops
    <2>2. /\ <<"brake", "cancel", "stop">> \in Todos
          /\ <<"brake", "cancel", "stop">> \notin Installs
          /\ <<"brake", "cancel", "stop">> # <<"home">>
      BY <2>1, TaskTypes
    <2>3. /\ job' \in [Procs -> Jobs] /\ job'[w].todo = <<"brake", "cancel", "stop">>
          /\ \A q \in Procs \ {w} : job'[q] = job[q]
      BY <1>0, <1>5, <2>2, GetsTask, Bounds DEF Contexts
    <2>4. GoodJob(job'[w])
      BY <2>2, <2>3 DEF GoodJob
    <2>5. Stopping(w)'
      BY <2>1, <2>3 DEF Stopping
    <2> HIDE DEF r
    <2>6. LowWorks({w})
      BY <1>0, <1>1, <1>2, <1>5, <2>3, <2>4, <2>5 DEF HonestInv, LowWorks
    <2>7. QED
      BY <1>0, <2>6
  <1>6. QED
    BY <1>3, <1>4, <1>5 DEF LowBattery

LEMMA BatteryRecoveredWorks ==
  ASSUME NodeInv, NEW w \in Workers, BatteryRecovered(w)
  PROVE  \E Q \in SUBSET Procs : Works(Q)
  <1> DEFINE x == [Stopped(m) EXCEPT !.acting = FALSE, !.low = FALSE]
             y == NoReturn([Stopped(m) EXCEPT !.acting = FALSE, !.low = FALSE])
  <1>0. w \in Procs /\ Free(w) /\ ans' = ans /\ m' = Unblocked(y)
    BY WorkersAreProcs DEF BatteryRecovered
  <1>1. WF(x)
    BY DEF NodeInv, Sound, WF, Typed, Names, Stopped
  <1>2. y = NoReturn(x)
    OBVIOUS
  <1>3. /\ x.low = FALSE /\ x.blocked = m.blocked /\ x.tries = m.tries /\ x.last = m.last
        /\ x.handled = m.handled /\ x.kind = m.kind /\ x.active = FALSE /\ x.phase = m.phase
        /\ x.patrol = m.patrol
    BY DEF NodeInv, Sound, WF, Names, Stopped
  <1> HIDE DEF x, y
  <1>4. /\ WF(y) /\ y.low = FALSE /\ y.blocked = m.blocked /\ y.tries = m.tries
        /\ y.last = m.last /\ y.handled = m.handled /\ y.kind = m.kind /\ y.active = FALSE
        /\ y.phase = m.phase /\ y.patrol = m.patrol /\ y.requested = FALSE /\ y.home = FALSE
    BY <1>1, <1>2, <1>3 DEF WF, Typed, Names, NoReturn
  <1>5. Honest(m) => Honest(y)
    BY <1>4 DEF Honest
  <1>6. Section(y, Unblocked(y)) /\ (Honest(y) => Honest(Unblocked(y))) /\ ~Unblocked(y).low
    BY <1>4, UnblockedIs DEF WF, Names, Unblocked
  <1>7. Section(m, m') /\ (HonestInv => Honest(m'))
    <2>1. Blocks(m, m')
      BY <1>0, <1>4, <1>6 DEF Section, Blocks
    <2>2. QED
      BY <1>0, <1>4, <1>5, <1>6, <2>1 DEF Section, Drains, Draining, HonestInv
  <1>8. <<"cancel", "brake">> \in Pairs
    BY DEF Pairs
  <1>9. /\ <<"cancel", "brake">> \in Todos /\ <<"cancel", "brake">> \notin Installs
        /\ <<"cancel", "brake">> # <<"home">>
        /\ <<"cancel">> \in Todos /\ <<"cancel">> \notin Installs /\ <<"cancel">> # <<"home">>
    BY <1>8, TaskTypes DEF LastSteps
  <1>10. \/ job' = Start(w, <<"cancel", "brake">>, "", 0, "none")
         \/ job' = Start(w, <<"cancel">>, "", 0, "none")
         \/ job' = job
    BY DEF BatteryRecovered
  <1>11. CASE job' = Start(w, <<"cancel", "brake">>, "", 0, "none")
    <2>1. Works({w})
      BY <1>0, <1>7, <1>9, <1>11, StartWorks, Bounds DEF Contexts
    <2>2. QED
      BY <1>0, <2>1
  <1>12. CASE job' = Start(w, <<"cancel">>, "", 0, "none")
    <2>1. Works({w})
      BY <1>0, <1>7, <1>9, <1>12, StartWorks, Bounds DEF Contexts
    <2>2. QED
      BY <1>0, <2>1
  <1>13. CASE job' = job
    <2>1. Works({})
      BY <1>0, <1>7, <1>13, NoTask
    <2>2. QED
      BY <2>1
  <1>14. QED
    BY <1>10, <1>11, <1>12, <1>13

LEMMA Joined ==
  ASSUME NEW a, NEW b
  PROVE  <<a>> \o <<b>> = <<a, b>> /\ <<>> \o <<b>> = <<b>>
  <1>1. <<a>> \in Seq({a, b}) /\ <<b>> \in Seq({a, b}) /\ <<a, b>> \in Seq({a, b})
        /\ Len(<<a>>) = 1 /\ Len(<<b>>) = 1 /\ Len(<<a, b>>) = 2
        /\ <<a>>[1] = a /\ <<b>>[1] = b /\ <<a, b>>[1] = a /\ <<a, b>>[2] = b
    OBVIOUS
  <1> DEFINE ab == <<a>> \o <<b>>
  <1>2. ab \in Seq({a, b}) /\ Len(ab) = 2 /\ ab[1] = a /\ ab[2] = b
    BY <1>1, ConcatProperties
  <1>3. ab = <<a, b>>
    <2> HIDE DEF ab
    <2>1. \A i \in 1..Len(ab) : ab[i] = <<a, b>>[i]
      <3>1. \A i \in 1..2 : i = 1 \/ i = 2
        OBVIOUS
      <3>2. QED
        BY <1>1, <1>2, <3>1
    <2>2. QED
      BY <1>1, <1>2, <2>1, SeqEqual
  <1>4. <<>> \o <<b>> = <<b>>
    BY <1>1, ConcatEmptySeq
  <1>5. QED
    BY <1>3, <1>4

\* The services.
LEMMA ServicesWork ==
  ASSUME NodeInv, NEW w \in Workers,
         \/ CancelRoute(w) \/ RequestReturnHome(w)
         \/ "patrol" \in Kinds /\ SetPatrol(w)
         \/ \E kind \in Kinds \ {"patrol"} : SetRoute(w, kind)
  PROVE  \E Q \in SUBSET Procs : Works(Q)
  <1>0. w \in Procs /\ Free(w) /\ ans' = ans
    BY WorkersAreProcs DEF CancelRoute, RequestReturnHome, SetPatrol, SetRoute, Request
  <1>1. SUFFICES \E Q \in {{}, {w}} : Works(Q)
    BY <1>0
  <1>2. CASE CancelRoute(w)
    <2>1. <<"cancel", "reset">> \in Pairs
      BY DEF Pairs
    <2>2. /\ <<"cancel", "reset">> \in Todos /\ <<"cancel", "reset">> \notin Installs
          /\ <<"cancel", "reset">> # <<"home">>
      BY <2>1, TaskTypes
    <2>3. m' = m /\ job' = Start(w, <<"cancel", "reset">>, "cancel", 0, "none")
      BY <1>2 DEF CancelRoute
    <2>4. Section(m, m') /\ (HonestInv => Honest(m'))
      BY <2>3, Itself DEF NodeInv, HonestInv
    <2>5. QED
      BY <1>0, <2>2, <2>3, <2>4, StartWorks, Bounds DEF Contexts
  <1>3. CASE RequestReturnHome(w)
    <2> DEFINE x == [m EXCEPT !.requested = TRUE, !.home = FALSE, !.phase = "pending"]
    <2>1. m' = x /\ m.phase = "main" /\ job' = job
      BY <1>3 DEF RequestReturnHome
    <2>2. /\ DOMAIN x = Names /\ x.requested = TRUE /\ x.home = FALSE /\ x.phase = "pending"
          /\ x.kind = m.kind /\ x.cur = m.cur /\ x.active = m.active /\ x.paused = m.paused
          /\ x.awaiting = m.awaiting /\ x.blocked = m.blocked /\ x.tries = m.tries
          /\ x.inflight = m.inflight /\ x.stop = m.stop /\ x.acting = m.acting /\ x.low = m.low
          /\ x.patrol = m.patrol /\ x.plan = m.plan /\ x.last = m.last /\ x.handled = m.handled
      BY DEF NodeInv, Sound, WF, Names
    <2> HIDE DEF x
    <2>3. Sound(x) /\ Blocks(m, x) /\ Returns(x)
      BY <2>2 DEF NodeInv, Sound, WF, Typed, Blocks, Returns
    <2>4. Honest(m) => Honest(x)
      BY <2>1, <2>2 DEF Honest
    <2>5. Section(m, m') /\ (HonestInv => Honest(m'))
      BY <2>1, <2>2, <2>3, <2>4 DEF Section, Drains, HonestInv
    <2>6. QED
      BY <1>0, <2>1, <2>5, NoTask
  <1>4. CASE "patrol" \in Kinds /\ SetPatrol(w)
    <2>1. ASSUME NEW phase \in {"depart", "main"},
                 m' = [Phase([m EXCEPT !.plan = TRUE], phase) EXCEPT !.cur = 1],
                 job' = Start(w, <<"goal">>, "patrol", 0, "none")
          PROVE  Works({w})
      <3> DEFINE r == [m EXCEPT !.plan = TRUE]
      <3>1. Sound(r) /\ Alike(m, r)
        BY DEF NodeInv, Sound, WF, Typed, Names, Alike
      <3> HIDE DEF r
      <3>2. Section(r, Phase(r, phase)) /\ (PatrolsOnly => Honest(Phase(r, phase)))
        BY <3>1, PhaseIs
      <3>3. m' = [Phase(r, phase) EXCEPT !.cur = 1]
        BY <2>1 DEF r
      <3>4. Section(r, m') /\ (PatrolsOnly => Honest(m'))
        BY <3>2, <3>3, ChunkIs, Bounds
      <3>5. Section(m, m')
        BY <3>1, <3>4, AlikeIsSection, Itself DEF NodeInv, Section, Sound
      <3>6. HonestInv => PatrolsOnly
        BY <1>4 DEF HonestInv, NoReturns
      <3>7. <<"goal">> \in Todos /\ <<"goal">> \notin Installs /\ <<"goal">> # <<"home">>
        BY TaskTypes DEF LastSteps
      <3>8. QED
        BY <1>0, <2>1, <3>4, <3>5, <3>6, <3>7, StartWorks, Bounds DEF Contexts
    <2>2. CASE m' = Reset(m) /\ job' = job
      <3>1. Section(m, m') /\ (HonestInv => Honest(m'))
        BY <2>2, ResetIs DEF NodeInv, HonestInv
      <3>2. QED
        BY <1>0, <2>2, <3>1, NoTask
    <2>3. QED
      BY <1>4, <2>1, <2>2 DEF SetPatrol
  <1>5. ASSUME NEW kind \in Kinds \ {"patrol"}, SetRoute(w, kind)
        PROVE  Works({w})
    <2>1. <<"cancel">> \o <<"install">> = <<"cancel", "install">> /\ <<>> \o <<"install">> = <<"install">>
      BY Joined
    <2>2. PICK todo \in Installs : m' = m /\ job' = Start(w, todo, "set", 0, kind)
      <3>1. CASE m.active \/ m.paused
        BY <1>5, <2>1, <3>1 DEF SetRoute, Installs
      <3>2. CASE ~(m.active \/ m.paused)
        BY <1>5, <2>1, <3>2 DEF SetRoute, Installs
      <3>3. QED
        BY <3>1, <3>2
    <2>3. todo \in Todos /\ todo # <<"home">>
      BY TaskTypes
    <2>4. kind \in RouteKinds /\ kind \in {"line", "loop", "bareloop"}
      BY RouteAssumption DEF RouteKinds
    <2>5. HonestInv => ~PatrolsOnly /\ kind \in {"line", "bareloop"}
      BY <2>4 DEF HonestInv, PatrolsOnly, NoReturns
    <2>6. Section(m, m') /\ (HonestInv => Honest(m'))
      BY <2>2, Itself DEF NodeInv, HonestInv
    <2>7. QED
      BY <1>0, <2>2, <2>3, <2>4, <2>5, <2>6, StartWorks, Bounds DEF Contexts
  <1>6. QED
    BY <1>2, <1>3, <1>4, <1>5

-----------------------------------------------------------------------------
(* Telemetry.  The fields are compared with those that know of the message *)
(* s, and the results it is acted on are new to them.                      *)
Known(s) == [m EXCEPT !.last = s.id]
Heard(s, Q) ==
    /\ Section(Known(s), m') /\ Tasks(Q)
    /\ m.awaiting /\ ~m'.awaiting /\ ~m'.paused => m'.handled = s.id /\ s.id # m.handled

LEMMA KnownIs ==
  ASSUME NodeInv, NEW s, s.id \in Nat
  PROVE  /\ Sound(Known(s)) /\ Blocks(m, Known(s)) /\ Drains(m, Known(s))
         /\ Known(s).last = s.id /\ (Honest(m) => Honest(Known(s)))
         /\ Known(s).handled = m.handled /\ Known(s).awaiting = m.awaiting
  <1>1. WF(Known(s)) /\ Known(s).last = s.id
    BY DEF NodeInv, Sound, WF, Typed, Names, Known
  <1>2. /\ Known(s).blocked = m.blocked /\ Known(s).tries = m.tries
        /\ Known(s).handled = m.handled /\ Known(s).awaiting = m.awaiting
    BY DEF NodeInv, Sound, WF, Names, Known
  <1>3. Drains(m, Known(s)) /\ (Honest(m) => Honest(Known(s)))
    BY DEF NodeInv, Sound, WF, Names, Drains, Draining, Returns, Honest, Known
  <1>4. QED
    BY <1>1, <1>2, <1>3 DEF NodeInv, Sound, Blocks

LEMMA StopWatchedIs ==
  ASSUME NEW k, Sound(k), NEW s, NEW r \in StopWatched(k, s)
  PROVE  Sound(r) /\ Alike(k, r) /\ r.awaiting = k.awaiting /\ r.handled = k.handled
  <1>1. \/ r = k \/ r = [k EXCEPT !.stop = "no"] \/ r = [k EXCEPT !.stop = "seen"]
        \/ r = [k EXCEPT !.stop = "handled"]
    BY DEF StopWatched
  <1>2. ASSUME NEW v \in {"no", "seen", "handled"}, r = [k EXCEPT !.stop = v]
        PROVE  Sound(r) /\ Alike(k, r) /\ r.awaiting = k.awaiting /\ r.handled = k.handled
    BY <1>2 DEF Sound, WF, Typed, Names, Alike
  <1>3. QED
    BY <1>1, <1>2, Itself

LEMMA ManualIs ==
  ASSUME NEW r, Sound(r)
  PROVE  LET s == Unblocked([r EXCEPT !.paused = TRUE, !.awaiting = FALSE, !.acting = FALSE])
         IN  Section(r, s) /\ (Honest(r) => Honest(s)) /\ s.paused
  <1> DEFINE x == [r EXCEPT !.paused = TRUE, !.awaiting = FALSE, !.acting = FALSE]
  <1>1. /\ WF(x) /\ x.paused = TRUE /\ x.blocked = r.blocked /\ x.tries = r.tries
        /\ x.last = r.last /\ x.handled = r.handled /\ (Honest(r) => Honest(x))
    BY DEF Sound, WF, Names, Typed, Honest
  <1> HIDE DEF x
  <1>2. Section(x, Unblocked(x)) /\ (Honest(x) => Honest(Unblocked(x)))
    BY <1>1, UnblockedIs
  <1>3. Unblocked(x).paused
    BY <1>1 DEF WF, Names, Unblocked
  <1>4. Blocks(r, Unblocked(x)) /\ Drains(r, Unblocked(x))
    BY <1>1, <1>2, <1>3 DEF Section, Blocks, Drains, Draining
  <1>5. Section(r, Unblocked(x)) /\ (Honest(r) => Honest(Unblocked(x))) /\ Unblocked(x).paused
    BY <1>1, <1>2, <1>3, <1>4 DEF Section
  <1>6. QED
    BY <1>5 DEF x

LEMMA ResultHeard ==
  ASSUME NodeInv, NEW w \in Workers, Free(w), NEW s, s.id \in Nat, ans' = ans,
         NEW r, Sound(r), Alike(Known(s), r), r.handled = m.handled, IsResult(r, s),
         OnResult(w, [r EXCEPT !.handled = s.id, !.awaiting = FALSE], s.status)
  PROVE  Heard(s, {}) \/ Heard(s, {w})
  <1> DEFINE x == [r EXCEPT !.handled = s.id, !.awaiting = FALSE]
  <1>1. Sound(Known(s)) /\ (HonestInv => Honest(Known(s))) /\ Known(s).last = s.id
    BY KnownIs DEF HonestInv
  <1>2. Sound(x) /\ x.handled = s.id
    BY DEF Sound, WF, Typed, Names
  <1>3. Alike(Known(s), x)
    BY <1>1 DEF Sound, WF, Names, Alike
  <1>4. s.id # m.handled /\ OnResult(w, x, s.status)
    BY DEF IsResult
  <1> HIDE DEF x
  <1>5. ASSUME NEW y, m' = y, Section(x, y), Honest(x) => Honest(y), y.handled = s.id
        PROVE  /\ Section(Known(s), m') /\ (HonestInv => Honest(m'))
               /\ (Tasks({}) => Heard(s, {})) /\ (Tasks({w}) => Heard(s, {w}))
    <2>1. Section(Known(s), m') /\ (HonestInv => Honest(m'))
      BY <1>1, <1>2, <1>3, <1>5, AlikeIsSection, Itself DEF Section, Sound
    <2>2. QED
      BY <1>4, <1>5, <2>1 DEF Heard
  <1>6. CASE m' = NoReturn(Stopped(x)) /\ job' = job
    <2>1. NoReturn(Stopped(x)).handled = s.id
      BY <1>2 DEF Sound, WF, Names, Stopped, NoReturn
    <2>2. QED
      BY <1>2, <1>5, <1>6, <2>1, StoppedIs, NoTask
  <1>7. CASE m' = Unblocked(x) /\ job' = Start(w, <<"advance">>, "", 0, "none")
    <2>1. Unblocked(x).handled = s.id
      BY <1>2 DEF Sound, WF, Names, Unblocked
    <2>2. <<"advance">> \in Todos /\ <<"advance">> \notin Installs /\ <<"advance">> # <<"home">>
      BY TaskTypes DEF LastSteps
    <2>3. Section(x, Unblocked(x)) /\ (Honest(x) => Honest(Unblocked(x)))
      BY <1>2, UnblockedIs DEF Sound
    <2>4. Tasks({w})
      BY <1>5, <1>7, <2>1, <2>2, <2>3, StartTask, WorkersAreProcs, Bounds DEF Contexts
    <2>5. QED
      BY <1>5, <1>7, <2>1, <2>3, <2>4
  <1>8. CASE m' = x /\ job' = Start(w, <<"brake", "enter">>, "", 0, "none")
    <2>1. <<"brake", "enter">> \in Pairs
      BY DEF Pairs
    <2>2. /\ <<"brake", "enter">> \in Todos /\ <<"brake", "enter">> \notin Installs
          /\ <<"brake", "enter">> # <<"home">>
      BY <2>1, TaskTypes
    <2>3. Section(x, x)
      BY <1>2, Itself
    <2>4. Tasks({w})
      BY <1>2, <1>5, <1>8, <2>2, <2>3, StartTask, WorkersAreProcs, Bounds DEF Contexts
    <2>5. QED
      BY <1>2, <1>5, <1>8, <2>3, <2>4
  <1>9. CASE m' = Dropped(x) /\ job' = job
    <2>1. Dropped(x).handled = s.id
      BY <1>2 DEF Sound, WF, Names, Dropped, Unblocked
    <2>2. QED
      BY <1>2, <1>5, <1>9, <2>1, DroppedIs, NoTask
  <1>10. QED
    <2>1. CASE s.status = "succeeded"
      BY <1>4, <1>6, <1>7, <2>1 DEF OnResult
    <2>2. CASE s.status = "blocked"
      BY <1>4, <1>8, <2>2 DEF OnResult
    <2>3. CASE s.status \notin {"succeeded", "blocked"}
      BY <1>4, <1>9, <2>3 DEF OnResult
    <2>4. QED
      BY <2>1, <2>2, <2>3

LEMMA TelemetryWorks ==
  ASSUME NodeInv, NEW w \in Workers, Telemetry(w), Head(tel).id \in Nat
  PROVE  \E Q \in SUBSET Procs : Heard(Head(tel), Q)
  <1> DEFINE s == Head(tel)
             k == Known(s)
  <1>0. w \in Procs /\ Free(w) /\ ans' = ans
    BY WorkersAreProcs DEF Telemetry
  <1> SUFFICES Heard(s, {}) \/ Heard(s, {w})
    BY <1>0
  <1>1. /\ Sound(k) /\ (HonestInv => Honest(k)) /\ k.last = s.id
        /\ k.handled = m.handled /\ k.awaiting = m.awaiting
    BY KnownIs DEF HonestInv
  <1>2. \/ m' = k /\ job' = job
        \/ \E r \in StopWatched(k, s) :
              \/ /\ m' = Unblocked([r EXCEPT !.paused = TRUE, !.awaiting = FALSE, !.acting = FALSE])
                 /\ job' = job
              \/ m' = r /\ job' = job
              \/ m' = r /\ job' = Start(w, <<"brake", "cancel", "enter">>, "collision", 0, "none")
              \/ /\ IsResult(r, s)
                 /\ OnResult(w, [r EXCEPT !.handled = s.id, !.awaiting = FALSE], s.status)
    BY Zenon DEF Telemetry, Known
  <1> HIDE DEF s, k
  <1>3. ASSUME NEW r, Sound(r), Alike(k, r), r.awaiting = m.awaiting, m' = r
        PROVE  /\ Section(k, m') /\ (HonestInv => Honest(m'))
               /\ (Tasks({}) => Heard(s, {})) /\ (Tasks({w}) => Heard(s, {w}))
    <2>1. Section(k, m') /\ (HonestInv => Honest(m'))
      BY <1>1, <1>3, AlikeIsSection, Itself DEF Sound
    <2>2. QED
      BY <1>3, <2>1 DEF Heard, k
  <1>4. CASE m' = k /\ job' = job
    BY <1>0, <1>1, <1>3, <1>4, NoTask, Itself
  <1>5. ASSUME NEW r \in StopWatched(k, s),
               \/ /\ m' = Unblocked([r EXCEPT !.paused = TRUE, !.awaiting = FALSE, !.acting = FALSE])
                  /\ job' = job
               \/ m' = r /\ job' = job
               \/ m' = r /\ job' = Start(w, <<"brake", "cancel", "enter">>, "collision", 0, "none")
               \/ /\ IsResult(r, s)
                  /\ OnResult(w, [r EXCEPT !.handled = s.id, !.awaiting = FALSE], s.status)
        PROVE  Heard(s, {}) \/ Heard(s, {w})
    <2>1. Sound(r) /\ Alike(k, r) /\ r.awaiting = m.awaiting /\ r.handled = m.handled
      BY <1>1, StopWatchedIs
    <2>2. CASE /\ m' = Unblocked([r EXCEPT !.paused = TRUE, !.awaiting = FALSE, !.acting = FALSE])
               /\ job' = job
      <3>1. Section(r, m') /\ (Honest(r) => Honest(m')) /\ m'.paused
        BY <2>1, <2>2, ManualIs
      <3>2. Section(k, m') /\ (HonestInv => Honest(m'))
        BY <1>1, <2>1, <3>1, AlikeIsSection, Itself DEF Section, Sound
      <3>3. Tasks({})
        BY <1>0, <2>2, <3>2, NoTask
      <3>4. QED
        BY <3>1, <3>2, <3>3 DEF Heard, k
    <2>3. CASE m' = r /\ job' = job
      BY <1>0, <1>3, <2>1, <2>3, NoTask
    <2>4. CASE m' = r /\ job' = Start(w, <<"brake", "cancel", "enter">>, "collision", 0, "none")
      <3>1. <<"brake", "cancel", "enter">> \in Pairs
        BY DEF Pairs
      <3>2. /\ <<"brake", "cancel", "enter">> \in Todos
            /\ <<"brake", "cancel", "enter">> \notin Installs
            /\ <<"brake", "cancel", "enter">> # <<"home">>
        BY <3>1, TaskTypes
      <3>3. Tasks({w})
        BY <1>0, <1>3, <2>1, <2>4, <3>2, StartTask, Bounds DEF Contexts
      <3>4. QED
        BY <1>3, <2>1, <2>4, <3>3
    <2>5. CASE /\ IsResult(r, s)
               /\ OnResult(w, [r EXCEPT !.handled = s.id, !.awaiting = FALSE], s.status)
      BY <1>0, <2>1, <2>5, ResultHeard DEF k, s
    <2>6. QED
      BY <1>5, <2>2, <2>3, <2>4, <2>5
  <1>6. QED
    BY <1>2, <1>4, <1>5

-----------------------------------------------------------------------------
(* nav_command_server and the messages on their way.                       *)
Statuses == {"unknown", "succeeded", "blocked", "failed", "canceled"}
Navs == [active : BOOLEAN, status : Statuses, id : Nat, late : Nat,
         manual : BOOLEAN, collision : BOOLEAN]
Messages == [active : BOOLEAN, status : Statuses, id : Nat, manual : BOOLEAN, collision : BOOLEAN]

\* The results reported and those still to come.
Fits(n) == n \in Navs /\ n.id + n.late + (IF n.active THEN 1 ELSE 0) <= MaxResults

\* Results are numbered as they come, and read in that order.
TelInv ==
    /\ tel \in Seq(Messages) /\ Len(tel) <= MaxQueue
    /\ \A i \in 1..Len(tel) : m.last <= tel[i].id /\ tel[i].id <= nav.id
    /\ \A i, j \in 1..Len(tel) : i <= j => tel[i].id <= tel[j].id
OrderInv == m.handled <= m.last /\ m.last <= nav.id

LEMMA NavFields ==
  ASSUME NEW n \in Navs, NEW i \in Nat, NEW l \in Nat, NEW t \in Statuses, NEW b \in BOOLEAN,
         NEW x,
         \/ x = [n EXCEPT !.active = b] \/ x = [n EXCEPT !.manual = b]
         \/ x = [n EXCEPT !.collision = b] \/ x = [n EXCEPT !.active = b, !.late = l]
         \/ x = [n EXCEPT !.id = i, !.status = t]
         \/ x = [n EXCEPT !.active = b, !.status = t, !.id = i]
         \/ x = [n EXCEPT !.active = b, !.status = t, !.id = i, !.late = l]
  PROVE  x \in Navs
  <1>1. x = [n EXCEPT !.active = b] => x \in Navs
    BY DEF Navs
  <1>2. x = [n EXCEPT !.manual = b] => x \in Navs
    BY DEF Navs
  <1>3. x = [n EXCEPT !.collision = b] => x \in Navs
    BY DEF Navs
  <1>4. x = [n EXCEPT !.active = b, !.late = l] => x \in Navs
    BY DEF Navs
  <1>5. x = [n EXCEPT !.id = i, !.status = t] => x \in Navs
    BY DEF Navs
  <1>6. x = [n EXCEPT !.active = b, !.status = t, !.id = i] => x \in Navs
    BY DEF Navs
  <1>7. x = [n EXCEPT !.active = b, !.status = t, !.id = i, !.late = l] => x \in Navs
    BY DEF Navs
  <1>8. QED
    BY <1>1, <1>2, <1>3, <1>4, <1>5, <1>6, <1>7

LEMMA FitsIs ==
  ASSUME NEW n \in Navs
  PROVE  /\ n.active => (Fits(n) <=> n.id + n.late < MaxResults)
         /\ ~n.active => (Fits(n) <=> n.id + n.late <= MaxResults)
         /\ n.id \in Nat /\ n.late \in Nat /\ MaxResults \in Nat
         /\ n.active \in BOOLEAN /\ n.manual \in BOOLEAN /\ n.collision \in BOOLEAN
  <1>1. /\ n.id \in Nat /\ n.late \in Nat /\ MaxResults \in Nat
        /\ n.active \in BOOLEAN /\ n.manual \in BOOLEAN /\ n.collision \in BOOLEAN
    BY RouteAssumption DEF Navs
  <1>2. CASE n.active
    <2>1. Fits(n) <=> n.id + n.late + 1 <= MaxResults
      BY <1>2 DEF Fits
    <2>2. QED
      BY <1>1, <1>2, <2>1
  <1>3. CASE ~n.active
    <2>1. Fits(n) <=> n.id + n.late + 0 <= MaxResults
      BY <1>3 DEF Fits
    <2>2. QED
      BY <1>1, <1>3, <2>1
  <1>4. QED
    BY <1>1, <1>2, <1>3

LEMMA DetachedIs ==
  ASSUME NEW n, Fits(n)
  PROVE  /\ Fits(Detached(n)) /\ Detached(n).id = n.id /\ ~Detached(n).active
         /\ Detached(n) \in Navs
         /\ Room(Detached(n)) => Fits(Accepted(n)) /\ Accepted(n).id = n.id
  <1>1. /\ n \in Navs /\ n.id \in Nat /\ n.late \in Nat /\ n.active \in BOOLEAN
        /\ MaxResults \in Nat
    BY FitsIs DEF Fits
  <1> DEFINE d == Detached(n)
  <1>2. d \in Navs /\ d.id = n.id /\ ~d.active /\ d.id + d.late <= MaxResults
    <2>1. CASE n.active
      <3>1. d = [n EXCEPT !.active = FALSE, !.late = n.late + 1] /\ n.late + 1 \in Nat
        BY <1>1, <2>1 DEF Detached
      <3>2. d.id = n.id /\ ~d.active /\ d.late = n.late + 1
        BY <1>1, <3>1 DEF Navs
      <3>3. d \in Navs
        BY <1>1, <3>1, NavFields DEF Statuses
      <3>4. n.id + n.late < MaxResults
        BY <1>1, <2>1, FitsIs
      <3>5. QED
        BY <1>1, <3>2, <3>3, <3>4
    <2>2. CASE ~n.active
      <3>0. n.late + (IF n.active THEN 1 ELSE 0) = n.late
        BY <1>1, <2>2
      <3>1. d = [n EXCEPT !.active = FALSE, !.late = n.late]
        BY <3>0, Zenon DEF Detached
      <3>2. d.id = n.id /\ ~d.active /\ d.late = n.late
        BY <1>1, <3>1 DEF Navs
      <3>3. d \in Navs
        BY <1>1, <3>1, NavFields DEF Statuses
      <3>4. QED
        BY <1>1, <2>2, <3>2, <3>3, FitsIs
    <2>3. QED
      BY <2>1, <2>2
  <1>3. Fits(d)
    BY <1>2, FitsIs
  <1>4. ASSUME Room(d)
        PROVE  Fits(Accepted(n)) /\ Accepted(n).id = n.id
    <2> DEFINE x == Accepted(n)
    <2> HIDE DEF d
    <2>1. x = [d EXCEPT !.active = TRUE]
      BY DEF Accepted, d
    <2>2. x \in Navs
      BY <1>2, <2>1, NavFields DEF Statuses
    <2>3. x.id = n.id /\ x.late = d.late /\ x.active = TRUE
      BY <1>2, <2>1 DEF Navs
    <2>4. x.id + x.late < MaxResults
      BY <1>2, <1>4, <2>3 DEF Room
    <2>5. QED
      BY <2>2, <2>3, <2>4, FitsIs
  <1>5. QED
    BY <1>2, <1>3, <1>4

LEMMA RefusedIs ==
  ASSUME NEW n, Fits(n), NEW x \in Refused(n)
  PROVE  Fits(x) /\ n.id <= x.id
  <1> DEFINE d == Detached(n)
  <1>1. n.id \in Nat /\ MaxResults \in Nat
    BY FitsIs DEF Fits
  <1>2. \/ x = n \/ x = d
        \/ Room(d) /\ x = [d EXCEPT !.id = @ + 1, !.status = "failed"]
    BY DEF Refused
  <1>3. Fits(d) /\ d.id = n.id /\ ~d.active /\ d \in Navs /\ d.late \in Nat
    BY DetachedIs, FitsIs
  <1> HIDE DEF d
  <1>4. ASSUME Room(d), x = [d EXCEPT !.id = @ + 1, !.status = "failed"]
        PROVE  Fits(x) /\ n.id <= x.id
    <2>1. d.id + 1 \in Nat /\ x = [d EXCEPT !.id = d.id + 1, !.status = "failed"]
      BY <1>1, <1>3, <1>4
    <2>2. x \in Navs
      BY <1>3, <2>1, NavFields DEF Statuses
    <2>3. x.id = d.id + 1 /\ x.late = d.late /\ x.active = d.active
      BY <1>3, <2>1 DEF Navs
    <2>4. d.id + d.late < MaxResults
      BY <1>4 DEF Room
    <2>5. x.id + x.late <= MaxResults
      BY <1>1, <1>3, <2>3, <2>4
    <2>6. QED
      BY <1>1, <1>3, <2>2, <2>3, <2>5, FitsIs
  <1>5. QED
    BY <1>1, <1>2, <1>3, <1>4

\* What nav_command_server does to itself.
LEMMA NavSteps ==
  ASSUME Fits(nav),
         \/ ~nav.manual /\ Room(Detached(nav)) /\ nav' = Accepted(nav)
         \/ nav' \in Refused(nav) \/ nav' = Detached(nav)
         \/ Result \/ LateResult \/ ManualMode \/ CollisionStop
  PROVE  Fits(nav') /\ nav.id <= nav'.id
  <1>1. /\ nav.id \in Nat /\ nav.late \in Nat /\ nav.active \in BOOLEAN /\ MaxResults \in Nat
        /\ nav \in Navs /\ nav.collision \in BOOLEAN /\ nav.manual \in BOOLEAN
        /\ nav.id + 1 \in Nat /\ nav.id <= nav.id /\ nav.id <= nav.id + 1
    BY FitsIs DEF Fits
  <1>2. CASE ~nav.manual /\ Room(Detached(nav)) /\ nav' = Accepted(nav)
    BY <1>1, <1>2, DetachedIs
  <1>3. CASE nav' \in Refused(nav)
    BY <1>3, RefusedIs
  <1>4. CASE nav' = Detached(nav)
    BY <1>1, <1>4, DetachedIs
  <1>5. CASE Result
    <2>1. PICK s \in {"succeeded", "blocked", "failed"} :
             nav' = [nav EXCEPT !.active = FALSE, !.status = s, !.id = nav.id + 1]
      BY <1>5 DEF Result
    <2>2. nav' \in Navs
      BY <1>1, <2>1, NavFields DEF Statuses
    <2>3. nav'.id = nav.id + 1 /\ nav'.late = nav.late /\ nav'.active = FALSE
      BY <1>1, <2>1 DEF Navs
    <2>4. nav.id + nav.late < MaxResults
      BY <1>1, <1>5, FitsIs DEF Result
    <2>5. nav'.id + nav'.late <= MaxResults
      BY <1>1, <2>3, <2>4
    <2>6. QED
      BY <1>1, <2>2, <2>3, <2>5, FitsIs
  <1>6. CASE LateResult
    <2>1. /\ nav.late - 1 \in Nat
          /\ nav' = [nav EXCEPT !.active = FALSE, !.status = "canceled", !.id = nav.id + 1,
                                !.late = nav.late - 1]
      BY <1>1, <1>6 DEF LateResult
    <2>2. nav' \in Navs
      BY <1>1, <2>1, NavFields DEF Statuses
    <2>3. nav'.id = nav.id + 1 /\ nav'.late = nav.late - 1 /\ nav'.active = FALSE
      BY <1>1, <2>1 DEF Navs
    <2>4. nav.id + nav.late <= MaxResults
      BY <1>1, FitsIs
    <2>5. nav'.id + nav'.late <= MaxResults
      BY <1>1, <2>3, <2>4
    <2>6. QED
      BY <1>1, <2>2, <2>3, <2>5, FitsIs
  <1>7. CASE ManualMode
    <2>1. ASSUME NEW n \in Navs, Fits(n), n.id = nav.id, NEW b \in BOOLEAN,
                 nav' = [n EXCEPT !.manual = b]
          PROVE  Fits(nav') /\ nav.id <= nav'.id
      <3>1. nav' \in Navs
        BY <2>1, <1>1, NavFields DEF Statuses
      <3>2. nav'.id = n.id /\ nav'.late = n.late /\ nav'.active = n.active
        BY <2>1 DEF Navs
      <3>3. QED
        BY <1>1, <2>1, <3>1, <3>2, FitsIs
    <2>2. CASE nav.manual
      <3>1. nav' = [nav EXCEPT !.manual = FALSE]
        BY <1>7, <2>2 DEF ManualMode
      <3>2. QED
        BY <1>1, <2>1, <3>1
    <2>3. CASE ~nav.manual
      <3>1. nav' = [Detached(nav) EXCEPT !.manual = TRUE]
        BY <1>7, <2>3 DEF ManualMode
      <3>2. QED
        BY <2>1, <3>1, DetachedIs
    <2>4. QED
      BY <2>2, <2>3
  <1>8. CASE CollisionStop
    <2>1. (~nav.collision) \in BOOLEAN
      OBVIOUS
    <2>2. nav' = [nav EXCEPT !.collision = ~nav.collision]
      BY <1>8 DEF CollisionStop
    <2>3. nav' \in Navs
      BY <1>1, <2>1, <2>2, NavFields DEF Statuses
    <2>4. nav'.id = nav.id /\ nav'.late = nav.late /\ nav'.active = nav.active
      BY <1>1, <2>2 DEF Navs
    <2>5. QED
      BY <1>1, <2>3, <2>4, FitsIs
  <1>9. QED
    BY <1>2, <1>3, <1>4, <1>5, <1>6, <1>7, <1>8

-----------------------------------------------------------------------------
(* The steps of the system are of four sorts.                              *)
Working == UNCHANGED <<nav, tel>> /\ \E Q \in SUBSET Procs : Works(Q)
Lowering == UNCHANGED <<nav, tel>> /\ \E Q \in SUBSET Procs : LowWorks(Q)
Listening == /\ tel # <<>> /\ tel' = Tail(tel) /\ nav' = nav
             /\ \E Q \in SUBSET Procs : Heard(Head(tel), Q)
Serving ==
    /\ m' = m /\ job' = job
    /\ ans' = ans \/ \E p \in Procs : /\ Calling(p)
                                      /\ ans' \in {[ans EXCEPT ![p] = a] : a \in {"ok", "refused"}}
    /\ \/ Fits(nav') /\ nav.id <= nav'.id /\ tel' = tel
       \/ Publish

\* A mission that runs on a low battery and cannot bring the robot HOME has
\* a process that will stop it.
LowInv == Draining(m) => Returns(m) \/ \E p \in Procs : Stopping(p)

IInv == NodeInv /\ Fits(nav) /\ TelInv /\ OrderInv /\ LowInv

LEMMA StepWorks ==
  ASSUME IInv, NEW p \in Procs, Step(p) \/ Return(p) \/ TimeOut(p)
  PROVE  Working
  <1>1. UNCHANGED <<nav, tel>> /\ NodeInv
    BY DEF Step, Advance, Hold, Held, Look, Retry, Retried, EnterBlocked, StopLow, Install,
           ResetMission, Return, TimeOut, IInv
  <1>2. CASE Advance(p)
    BY <1>1, <1>2, AdvanceWorks DEF Working
  <1>3. CASE Step(p) /\ ~Advance(p)
    <2>1. Works({p})
      BY <1>1, <1>3, HoldWorks, HeldWorks, LookWorks, RetryWorks, EndsWorks, InstallWorks DEF Step
    <2>2. QED
      BY <1>1, <2>1 DEF Working
  <1>4. CASE Return(p)
    <2>1. Calling(p) /\ Answered(p, ans[p] = "ok")
      BY <1>1, <1>4 DEF Return, NodeInv
    <2>2. Works({p})
      BY <1>1, <2>1, AnsweredWorks
    <2>3. QED
      BY <1>1, <2>2 DEF Working
  <1>5. CASE TimeOut(p)
    <2>1. Calling(p) /\ Answered(p, FALSE)
      BY <1>5 DEF TimeOut
    <2>2. Works({p})
      BY <1>1, <2>1, AnsweredWorks
    <2>3. QED
      BY <1>1, <2>2 DEF Working
  <1>6. QED
    BY <1>2, <1>3, <1>4, <1>5

LEMMA NextSorts ==
  ASSUME IInv, Next
  PROVE  Working \/ Lowering \/ Listening \/ Serving
  <1> USE DEF IInv
  <1>1. ASSUME NEW p \in Procs, Serve(p)
        PROVE  Serving
    <2>1. /\ Fits(nav') /\ nav.id <= nav'.id /\ tel' = tel /\ m' = m /\ job' = job /\ Calling(p)
      BY <1>1, NavSteps DEF Serve
    <2>2. ans' \in {[ans EXCEPT ![p] = a] : a \in {"ok", "refused"}}
      BY <1>1 DEF Serve
    <2>3. QED
      BY <2>1, <2>2 DEF Serving
  <1>2. CASE ServeStray \/ Result \/ LateResult \/ ManualMode \/ CollisionStop
    <2>1. m' = m /\ job' = job /\ ans' = ans /\ tel' = tel
      BY <1>2 DEF ServeStray, Result, LateResult, ManualMode, CollisionStop
    <2>2. Fits(nav') /\ nav.id <= nav'.id
      BY <1>2, NavSteps DEF ServeStray
    <2>3. QED
      BY <2>1, <2>2 DEF Serving
  <1>3. CASE Publish
    BY <1>3 DEF Serving, Publish
  <1>4. ASSUME NEW w \in Workers, Telemetry(w)
        PROVE  Listening
    <2>1. tel # <<>> /\ tel' = Tail(tel) /\ nav' = nav
      BY <1>4 DEF Telemetry
    <2>2. Head(tel).id \in Nat
      <3>1. tel \in Seq(Messages) /\ tel # <<>>
        BY <2>1 DEF TelInv
      <3>2. Head(tel) \in Messages
        BY <3>1, HeadTailProperties
      <3>3. QED
        BY <3>2 DEF Messages
    <2>3. QED
      BY <1>4, <2>1, <2>2, TelemetryWorks DEF Listening
  <1>5. ASSUME NEW w \in Workers, RetryTick(w) \/ BatteryRecovered(w) \/ CancelRoute(w)
                  \/ RequestReturnHome(w) \/ ("patrol" \in Kinds /\ SetPatrol(w))
                  \/ \E kind \in Kinds \ {"patrol"} : SetRoute(w, kind)
        PROVE  Working
    <2>1. UNCHANGED <<nav, tel>>
      BY <1>5 DEF RetryTick, BatteryRecovered, CancelRoute, RequestReturnHome, SetPatrol, SetRoute
    <2>2. \E Q \in SUBSET Procs : Works(Q)
      BY <1>5, RetryTickWorks, BatteryRecoveredWorks, ServicesWork
    <2>3. QED
      BY <2>1, <2>2 DEF Working
  <1>6. ASSUME NEW w \in Workers, LowBattery(w)
        PROVE  Lowering
    <2>1. UNCHANGED <<nav, tel>>
      BY <1>6 DEF LowBattery
    <2>2. QED
      BY <1>6, <2>1, LowBatteryWorks DEF Lowering
  <1>7. CASE Inside
    BY <1>1, <1>2, <1>3, <1>4, <1>5, <1>7, StepWorks DEF Inside
  <1>8. CASE Outside
    BY <1>2, <1>5, <1>6, <1>8 DEF Outside
  <1>9. QED
    BY <1>7, <1>8 DEF Next

-----------------------------------------------------------------------------
(* The parts of the inductive invariant.                                   *)

\* What the four sorts of steps do to the fields.
LEMMA FieldsStep ==
  ASSUME IInv, Working \/ Lowering \/ Listening \/ Serving
  PROVE  Sound(m') /\ Blocks(m, m')
  <1> USE DEF IInv
  <1>1. CASE Working
    BY <1>1 DEF Working, Works, Section
  <1>2. CASE Lowering
    BY <1>2 DEF Lowering, LowWorks
  <1>3. CASE Listening
    <2>1. PICK Q \in SUBSET Procs : Heard(Head(tel), Q)
      BY <1>3 DEF Listening
    <2>2. Head(tel).id \in Nat
      <3>1. tel \in Seq(Messages) /\ tel # <<>>
        BY <1>3 DEF Listening, TelInv
      <3>2. Head(tel) \in Messages
        BY <3>1, HeadTailProperties
      <3>3. QED
        BY <3>2 DEF Messages
    <2> DEFINE k == Known(Head(tel))
    <2>3. /\ Blocks(m, k) /\ k.last = Head(tel).id /\ k.handled = m.handled
          /\ k.blocked = m.blocked /\ k.tries = m.tries
      BY <2>2, KnownIs DEF NodeInv, Sound, WF, Names, Known
    <2>4. Section(k, m')
      BY <2>1 DEF Heard
    <2> HIDE DEF k
    <2>5. Sound(m') /\ Blocks(m, m')
      BY <2>3, <2>4 DEF Section, Blocks
    <2>6. QED
      BY <2>5
  <1>4. CASE Serving
    <2>1. Section(m, m)
      BY Itself DEF NodeInv
    <2>2. m' = m
      BY <1>4 DEF Serving
    <2>3. QED
      BY <2>1, <2>2 DEF Section
  <1>5. QED
    BY <1>1, <1>2, <1>3, <1>4

LEMMA NodeStep ==
  ASSUME IInv, Working \/ Lowering \/ Listening \/ Serving
  PROVE  NodeInv'
  <1> USE DEF IInv
  <1>1. Sound(m')
    BY FieldsStep
  <1>2. ASSUME NEW Q \in SUBSET Procs, job' \in [Procs -> Jobs],
               ans' \in [Procs -> {"none", "ok", "refused"}],
               \A q \in Procs \ Q : job'[q] = job[q],
               \A q \in Procs : ans'[q] # "none" => q \notin Q /\ ans[q] # "none"
        PROVE  NodeInv'
    <2>1. ASSUME NEW q \in Procs, ans'[q] # "none"
          PROVE  Calling(q)'
      <3>1. Calling(q) /\ job'[q] = job[q]
        BY <1>2, <2>1 DEF NodeInv
      <3>2. QED
        BY <3>1 DEF Calling, Doing, Free
    <2>2. QED
      BY <1>1, <1>2, <2>1 DEF NodeInv
  <1>3. CASE Working
    BY <1>2, <1>3 DEF Working, Works, Tasks
  <1>4. CASE Listening
    BY <1>2, <1>4 DEF Listening, Heard, Tasks
  <1>5. CASE Lowering
    <2>1. PICK Q \in SUBSET Procs : LowWorks(Q)
      BY <1>5 DEF Lowering
    <2>2. ans' = ans /\ ans \in [Procs -> {"none", "ok", "refused"}]
      BY <2>1 DEF LowWorks, NodeInv
    <2>3. \A q \in Procs : ans'[q] # "none" => q \notin Q /\ ans[q] # "none"
      BY <2>1 DEF LowWorks
    <2>4. QED
      BY <1>2, <2>1, <2>2, <2>3 DEF LowWorks
  <1>6. CASE Serving
    <2>1. ans' \in [Procs -> {"none", "ok", "refused"}]
      BY <1>6 DEF Serving, NodeInv
    <2>2. ASSUME NEW q \in Procs, ans'[q] # "none"
          PROVE  Calling(q)'
      <3>1. Calling(q) /\ job'[q] = job[q]
        BY <1>6, <2>2 DEF Serving, NodeInv
      <3>2. QED
        BY <3>1 DEF Calling, Doing, Free
    <2>3. job' = job
      BY <1>6 DEF Serving
    <2>4. QED
      BY <1>1, <2>1, <2>2, <2>3 DEF NodeInv
  <1>7. QED
    BY <1>3, <1>4, <1>5, <1>6

\* The messages that wait stay in order, above what the node has read.
LEMMA TelStep ==
  ASSUME IInv, Working \/ Lowering \/ Listening \/ Serving
  PROVE  TelInv' /\ OrderInv' /\ Fits(nav')
  <1>1. /\ tel \in Seq(Messages) /\ Len(tel) <= MaxQueue /\ Len(tel) \in Nat /\ MaxQueue \in Nat
        /\ m.last \in Nat /\ m.handled \in Nat /\ nav.id \in Nat /\ nav \in Navs
        /\ m.handled <= m.last /\ m.last <= nav.id
        /\ \A i \in 1..Len(tel) : /\ tel[i].id \in Nat
                                  /\ m.last <= tel[i].id /\ tel[i].id <= nav.id
        /\ \A i, j \in 1..Len(tel) : i <= j => tel[i].id <= tel[j].id
    <2>1. tel \in Seq(Messages) /\ Len(tel) \in Nat /\ MaxQueue \in Nat
      BY RouteAssumption, LenProperties DEF IInv, TelInv
    <2>2. \A i \in 1..Len(tel) : tel[i].id \in Nat
      <3>1. \A i \in 1..Len(tel) : tel[i] \in Messages
        BY <2>1, ElementOfSeq
      <3>2. QED
        BY <3>1 DEF Messages
    <2>3. nav.id \in Nat /\ nav \in Navs
      BY FitsIs DEF IInv, Fits
    <2>4. QED
      BY <2>1, <2>2, <2>3 DEF IInv, NodeInv, Sound, WF, Typed, TelInv, OrderInv
  <1>2. CASE UNCHANGED <<nav, tel>> /\ m'.last = m.last /\ m'.handled \in {m.handled, m.last}
    BY <1>1, <1>2 DEF IInv, TelInv, OrderInv
  <1>3. CASE /\ Listening
             /\ m'.last = Head(tel).id /\ m'.handled \in {m.handled, Head(tel).id}
    <2>1. /\ tel # <<>> /\ tel' = Tail(tel) /\ nav' = nav
      BY <1>3 DEF Listening
    <2>2. /\ tel' \in Seq(Messages) /\ Len(tel') = Len(tel) - 1 /\ Len(tel) \in Nat \ {0}
          /\ Head(tel) = tel[1]
          /\ \A i \in 1..Len(tel') : tel'[i] = tel[i + 1]
      <3>1. Len(tel) \in Nat \ {0}
        BY <1>1, <2>1, EmptySeq
      <3>2. Head(tel) = tel[1]
        BY <1>1, <2>1
      <3>3. Len(tel') = Len(tel) - 1 /\ tel' \in Seq(Messages)
        BY <1>1, <2>1, HeadTailProperties
      <3>4. \A i \in 1..Len(tel') : tel'[i] = tel[i + 1]
        BY <1>1, <2>1, HeadTailProperties
      <3>5. QED
        BY <3>1, <3>2, <3>3, <3>4
    <2>3. 1 \in 1..Len(tel) /\ \A i \in 1..Len(tel') : i + 1 \in 1..Len(tel) /\ 1 <= i + 1
      BY <2>2
    <2>4. \A i \in 1..Len(tel') : /\ m'.last <= tel'[i].id /\ tel'[i].id <= nav'.id
      BY <1>1, <1>3, <2>1, <2>2, <2>3
    <2>5. \A i, j \in 1..Len(tel') : i <= j => tel'[i].id <= tel'[j].id
      <3>1. ASSUME NEW i \in 1..Len(tel'), NEW j \in 1..Len(tel'), i <= j
            PROVE  tel'[i].id <= tel'[j].id
        <4>1. i + 1 \in 1..Len(tel) /\ j + 1 \in 1..Len(tel) /\ i + 1 <= j + 1
          BY <2>2, <3>1
        <4>2. QED
          BY <1>1, <2>2, <4>1
      <3>2. QED
        BY <3>1
    <2>6. m'.handled <= m'.last /\ m'.last <= nav'.id
      BY <1>1, <1>3, <2>1, <2>2, <2>3
    <2>7. Len(tel') <= MaxQueue
      BY <1>1, <2>2
    <2>8. QED
      BY <2>1, <2>2, <2>4, <2>5, <2>6, <2>7 DEF IInv, TelInv, OrderInv
  <1>4. CASE Serving
    <2>1. m' = m
      BY <1>4 DEF Serving
    <2>2. CASE Fits(nav') /\ nav.id <= nav'.id /\ tel' = tel
      <3>1. nav'.id \in Nat
        BY <2>2, FitsIs DEF Fits
      <3>2. \A i \in 1..Len(tel) : tel[i].id <= nav'.id
        BY <1>1, <2>2, <3>1
      <3>3. m.last <= nav'.id
        BY <1>1, <2>2, <3>1
      <3>4. QED
        BY <1>1, <2>1, <2>2, <3>2, <3>3 DEF TelInv, OrderInv
    <2>3. CASE Publish
      <3>1. tel' = Append(tel, Seen) /\ nav' = nav /\ Len(tel) < MaxQueue
        BY <2>3 DEF Publish
      <3>2. Seen \in Messages /\ Seen.id = nav.id
        BY <1>1 DEF Seen, Messages, Navs
      <3>3. /\ tel' \in Seq(Messages) /\ Len(tel') = Len(tel) + 1
            /\ \A i \in 1..Len(tel) : tel'[i] = tel[i]
            /\ tel'[Len(tel) + 1] = Seen
        BY <1>1, <3>1, <3>2, AppendProperties
      <3>4. \A i \in 1..Len(tel') : i \in 1..Len(tel) \/ i = Len(tel')
        BY <1>1, <3>3
      <3>5. \A i \in 1..Len(tel') : /\ tel'[i].id \in Nat /\ m'.last <= tel'[i].id
                                    /\ tel'[i].id <= nav'.id
        <4>1. ASSUME NEW i \in 1..Len(tel), i \in 1..Len(tel')
              PROVE  /\ tel'[i].id \in Nat /\ m'.last <= tel'[i].id /\ tel'[i].id <= nav'.id
          BY <1>1, <2>1, <3>1, <3>3
        <4>2. tel'[Len(tel')].id = nav.id
          BY <3>2, <3>3
        <4>3. m'.last <= nav.id /\ nav.id <= nav'.id
          BY <1>1, <2>1, <3>1
        <4>4. QED
          BY <1>1, <3>1, <3>4, <4>1, <4>2, <4>3
      <3>6. \A i, j \in 1..Len(tel') : i <= j => tel'[i].id <= tel'[j].id
        <4>1. ASSUME NEW i \in 1..Len(tel'), NEW j \in 1..Len(tel'), i <= j
              PROVE  tel'[i].id <= tel'[j].id
          <5>1. CASE j \in 1..Len(tel)
            <6>1. i \in 1..Len(tel)
              BY <1>1, <4>1, <5>1
            <6>2. QED
              BY <1>1, <3>3, <4>1, <5>1, <6>1
          <5>2. CASE j = Len(tel')
            BY <3>1, <3>2, <3>3, <3>5, <4>1, <5>2
          <5>3. QED
            BY <3>4, <5>1, <5>2
        <4>2. QED
          BY <4>1
      <3>7. Len(tel') <= MaxQueue
        BY <1>1, <3>1, <3>3
      <3>8. QED
        BY <2>1, <3>1, <3>3, <3>5, <3>6, <3>7 DEF IInv, TelInv, OrderInv
    <2>4. QED
      BY <1>4, <2>2, <2>3 DEF Serving
  <1>5. CASE Working
    BY <1>2, <1>5 DEF Working, Works, Section
  <1>6. CASE Lowering
    BY <1>2, <1>6 DEF Lowering, LowWorks
  <1>7. CASE Listening
    <2>1. m'.last = Head(tel).id /\ m'.handled \in {m.handled, Head(tel).id}
      <3>1. PICK Q \in SUBSET Procs : Heard(Head(tel), Q)
        BY <1>7 DEF Listening
      <3>2. Head(tel).id \in Nat
        <4>1. tel # <<>>
          BY <1>7 DEF Listening
        <4>2. Head(tel) \in Messages
          BY <1>1, <4>1, HeadTailProperties
        <4>3. QED
          BY <4>2 DEF Messages
      <3>3. QED
        BY <3>1, <3>2, KnownIs DEF Heard, Section, IInv
    <2>2. QED
      BY <1>3, <1>7, <2>1
  <1>8. QED
    BY <1>4, <1>5, <1>6, <1>7

LEMMA LowStep ==
  ASSUME IInv, Working \/ Lowering \/ Listening \/ Serving
  PROVE  LowInv'
  <1>1. ASSUME NEW Q \in SUBSET Procs, Tasks(Q), Drains(m, m')
        PROVE  LowInv'
    <2> SUFFICES ASSUME Draining(m'), ~Returns(m')
                 PROVE  \E p \in Procs : Stopping(p)'
      BY DEF LowInv
    <2>1. Draining(m) /\ ~Returns(m)
      BY <1>1 DEF Drains
    <2>2. PICK p \in Procs : Stopping(p)
      BY <2>1 DEF IInv, LowInv
    <2>3. CASE p \in Q
      BY <1>1, <2>2, <2>3 DEF Tasks, Draining
    <2>4. CASE p \notin Q
      <3>1. job'[p] = job[p]
        BY <1>1, <2>4 DEF Tasks
      <3>2. Stopping(p)'
        BY <2>2, <3>1 DEF Stopping
      <3>3. QED
        BY <3>2
    <2>5. QED
      BY <2>3, <2>4
  <1>2. CASE Working
    BY <1>1, <1>2 DEF Working, Works, Section
  <1>3. CASE Lowering
    BY <1>3 DEF Lowering, LowWorks, LowInv
  <1>4. CASE Listening
    <2>1. PICK Q \in SUBSET Procs : Heard(Head(tel), Q)
      BY <1>4 DEF Listening
    <2>2. Head(tel).id \in Nat
      <3>1. tel \in Seq(Messages) /\ tel # <<>>
        BY <1>4 DEF Listening, IInv, TelInv
      <3>2. Head(tel) \in Messages
        BY <3>1, HeadTailProperties
      <3>3. QED
        BY <3>2 DEF Messages
    <2> DEFINE k == Known(Head(tel))
    <2>3. Drains(m, k)
      BY <2>2, KnownIs DEF IInv
    <2>4. Drains(k, m') /\ Tasks(Q)
      BY <2>1 DEF Heard, Section
    <2>5. Draining(k) = Draining(m) /\ Returns(k) = Returns(m)
      BY DEF IInv, NodeInv, Sound, WF, Names, Draining, Returns, Known
    <2> HIDE DEF k
    <2>6. Drains(m, m')
      BY <2>4, <2>5 DEF Drains
    <2>7. QED
      BY <1>1, <2>4, <2>6
  <1>5. CASE Serving
    <2>1. m' = m /\ job' = job
      BY <1>5 DEF Serving
    <2>2. QED
      BY <2>1 DEF IInv, LowInv, Stopping
  <1>6. QED
    BY <1>2, <1>3, <1>4, <1>5

LEMMA HonestStep ==
  ASSUME IInv, HonestInv, Working \/ Lowering \/ Listening \/ Serving
  PROVE  HonestInv'
  <1>1. ASSUME NEW Q \in SUBSET Procs, Honest(m'), \A q \in Q : GoodJob(job'[q]),
               \A q \in Procs \ Q : job'[q] = job[q]
        PROVE  HonestInv'
    <2>1. \A q \in Procs : GoodJob(job'[q])
      BY <1>1 DEF HonestInv
    <2>2. QED
      BY <1>1, <2>1 DEF HonestInv
  <1>2. CASE Working
    BY <1>1, <1>2 DEF Working, Works, Tasks
  <1>3. CASE Lowering
    BY <1>1, <1>3 DEF Lowering, LowWorks
  <1>4. CASE Listening
    BY <1>1, <1>4 DEF Listening, Heard, Tasks
  <1>5. CASE Serving
    BY <1>5 DEF Serving, HonestInv
  <1>6. QED
    BY <1>2, <1>3, <1>4, <1>5

\* The start.
LEMMA InitIInv ==
  ASSUME Init
  PROVE  /\ IInv /\ (PatrolsOnly \/ NoReturns => HonestInv)
         /\ m.blocked = "" /\ m.tries = 0
  <1>1. Sound(m)
    <2>1. DOMAIN m = Names
      BY DEF Init, Names
    <2>2. Typed(m) /\ m.blocked = ""
      BY Bounds DEF Init, Typed
    <2>3. QED
      BY <2>1, <2>2 DEF Sound, WF
  <1>2. /\ Honest(m) /\ ~Draining(m) /\ m.handled = 0 /\ m.last = 0
    BY DEF Init, Honest, Draining
  <1>3. /\ job \in [Procs -> Jobs] /\ \A p \in Procs : GoodJob(job[p])
    <2>1. Idle \in Jobs /\ Idle.todo = <<>>
      BY Bounds, TaskTypes DEF Idle, Jobs, Contexts
    <2>2. QED
      BY <2>1, TaskTypes DEF Init, GoodJob
  <1>4. /\ ans \in [Procs -> {"none", "ok", "refused"}]
        /\ \A p \in Procs : ans[p] = "none"
    BY DEF Init
  <1>5. Fits(nav) /\ nav.id = 0
    <2>1. nav \in Navs /\ nav.id = 0 /\ nav.late = 0 /\ nav.active = FALSE
      BY DEF Init, Navs, Statuses
    <2>2. MaxResults \in Nat
      BY RouteAssumption
    <2>3. nav.id + nav.late <= MaxResults
      BY <2>1, <2>2
    <2>4. QED
      BY <2>1, <2>3, FitsIs
  <1>6. tel = <<>> /\ tel \in Seq(Messages) /\ Len(tel) = 0 /\ MaxQueue \in Nat
    BY RouteAssumption, EmptySeq DEF Init
  <1>7. TelInv
    <2>1. 1..Len(tel) = {} /\ Len(tel) <= MaxQueue
      BY <1>6
    <2>2. QED
      BY <1>6, <2>1 DEF TelInv
  <1>8. m.blocked = "" /\ m.tries = 0
    BY DEF Init
  <1>9. IInv
    BY <1>1, <1>2, <1>3, <1>4, <1>5, <1>7 DEF IInv, NodeInv, OrderInv, LowInv
  <1>10. PatrolsOnly \/ NoReturns => HonestInv
    BY <1>2, <1>3 DEF HonestInv
  <1>11. QED
    BY <1>8, <1>9, <1>10

LEMMA NextIInv ==
  ASSUME IInv, [Next]_vars
  PROVE  IInv' /\ (HonestInv => HonestInv') /\ Blocks(m, m')
  <1>1. CASE Next
    <2>1. Working \/ Lowering \/ Listening \/ Serving
      BY <1>1, NextSorts
    <2>2. NodeInv' /\ TelInv' /\ OrderInv' /\ Fits(nav') /\ LowInv' /\ Blocks(m, m')
      BY <2>1, NodeStep, TelStep, LowStep, FieldsStep
    <2>3. HonestInv => HonestInv'
      BY <2>1, HonestStep
    <2>4. QED
      BY <2>2, <2>3 DEF IInv
  <1>2. CASE UNCHANGED vars
    <2>1. m' = m /\ job' = job /\ ans' = ans /\ nav' = nav /\ tel' = tel
      BY <1>2 DEF vars
    <2>2. NodeInv' /\ LowInv' /\ Blocks(m, m')
      BY <2>1 DEF IInv, NodeInv, LowInv, Calling, Doing, Free, Stopping, Blocks
    <2>3. TelInv' /\ OrderInv' /\ Fits(nav')
      BY <2>1 DEF IInv, TelInv, OrderInv
    <2>4. HonestInv => HonestInv'
      BY <2>1 DEF HonestInv
    <2>5. QED
      BY <2>2, <2>3, <2>4 DEF IInv
  <1>3. QED
    BY <1>1, <1>2

-----------------------------------------------------------------------------
(* The fields, the handlers' tasks and the messages keep their types and   *)
(* the order of the results, whatever happens.                             *)
THEOREM Invariance == Spec => []IInv
  <1>1. Init => IInv
    BY InitIInv
  <1>2. IInv /\ [Next]_vars => IInv'
    BY NextIInv
  <1>3. QED
    BY <1>1, <1>2, PTL DEF Spec

(* Every result _on_nav_telemetry acts on is newer than those it acted on  *)
(* before, however the messages wait.                                      *)
THEOREM ResultsActedOnOnce == Spec => ResultsOnce
  <1>1. ASSUME IInv, Next, Len(tel') < Len(tel), m.awaiting, ~m'.awaiting, ~m'.paused
        PROVE  m'.handled > m.handled
    <2>0. tel \in Seq(Messages) /\ Len(tel) \in Nat
      BY <1>1, LenProperties DEF IInv, TelInv
    <2>1. Listening
      <3>1. Working \/ Lowering \/ Listening \/ Serving
        BY <1>1, NextSorts
      <3>2. Publish => Len(tel') = Len(tel) + 1
        <4>1. nav \in Navs
          BY <1>1 DEF IInv, Fits
        <4>2. Seen \in Messages
          BY <4>1 DEF Seen, Messages, Navs
        <4>3. QED
          BY <2>0, <4>2, AppendProperties DEF Publish
      <3>3. ~(Len(tel) + 1 < Len(tel)) /\ ~(Len(tel) < Len(tel))
        BY <2>0
      <3>4. QED
        BY <1>1, <3>1, <3>2, <3>3 DEF Working, Lowering, Serving
    <2>2. m'.handled = Head(tel).id /\ Head(tel).id # m.handled
      BY <1>1, <2>1 DEF Listening, Heard
    <2>3. /\ Head(tel).id \in Nat /\ m.last <= Head(tel).id
      <3>1. tel # <<>>
        BY <2>1 DEF Listening
      <3>2. Head(tel) = tel[1] /\ 1 \in 1..Len(tel) /\ Head(tel) \in Messages
        BY <2>0, <3>1, HeadTailProperties, EmptySeq
      <3>3. QED
        BY <1>1, <3>2 DEF IInv, TelInv, Messages
    <2>4. m.handled <= m.last /\ m.handled \in Nat /\ m.last \in Nat
      BY <1>1 DEF IInv, OrderInv, NodeInv, Sound, WF, Typed
    <2>5. QED
      BY <2>2, <2>3, <2>4
  <1>2. IInv /\ [Next]_vars =>
          [(Len(tel') < Len(tel) /\ m.awaiting /\ ~m'.awaiting /\ ~m'.paused)
             => m'.handled > m.handled]_vars
    BY <1>1
  <1>3. QED
    BY <1>2, Invariance, PTL DEF Spec, ResultsOnce

(* Whatever waits, retries or gives up, the blockage of the mission goes   *)
(* through the states BlockedRetry allows, and no attempt is lost from the *)
(* count.                                                                  *)
THEOREM RetriesRefined == Spec => RetriesAsPromised
  <1>1. Init => Blockage!BInit
    <2>1. Init => m.blocked = "" /\ m.tries = 0
      BY InitIInv
    <2>2. QED
      BY <2>1 DEF Blockage!BInit
  <1>2. IInv /\ [Next]_vars => [Blockage!BNext]_(Blockage!bvars)
    <2> SUFFICES ASSUME IInv, [Next]_vars PROVE [Blockage!BNext]_(Blockage!bvars)
      OBVIOUS
    <2>1. Blocks(m, m')
      BY NextIInv
    <2>2. QED
      BY <2>1 DEF Blocks, Blockage!BNext, Blockage!bvars, Blockage!Wait, Blockage!AskOperator,
         Blockage!TryAgain, Blockage!Dispatched, Blockage!Cleared
  <1>3. QED
    BY <1>1, <1>2, Invariance, PTL DEF Spec, RetriesAsPromised, Blockage!BSpec

(* A mission that runs on a low battery is on its way HOME, is asked to    *)
(* return, is a loop that passes the exit, or has a handler that will stop *)
(* it: _activate_low_battery_response never leaves it to itself.           *)
THEOREM LowBatteryIsAnswered ==
  Spec => [](Draining(m) => Returns(m) \/ \E p \in Procs : Stopping(p))
  <1>1. IInv => (Draining(m) => Returns(m) \/ \E p \in Procs : Stopping(p))
    BY DEF IInv, LowInv
  <1>2. QED
    BY <1>1, Invariance, PTL

(* When every handler has ended, a mission runs on a low battery only if   *)
(* it can still bring the robot HOME.  Of the missions an operator may ask *)
(* for, those that return HOME do not mix with those that do not: a loop's *)
(* return answered late would be taken for the line's.                     *)
THEOREM LowBatterySafety ==
  ASSUME PatrolsOnly \/ NoReturns
  PROVE  Spec => []LowBatteryStops
  <1>1. Init => IInv /\ HonestInv
    BY InitIInv
  <1>2. (IInv /\ HonestInv) /\ [Next]_vars => (IInv /\ HonestInv)'
    BY NextIInv
  <1>3. IInv /\ HonestInv => LowBatteryStops
    <2> SUFFICES ASSUME IInv, HonestInv, Draining(m), \A p \in Procs : Free(p)
                 PROVE  m.kind \in {"loop", "main", "connector"}
      BY DEF LowBatteryStops, Draining
    <2>1. \A p \in Procs : ~Stopping(p)
      BY FreeOnly DEF IInv
    <2>2. Returns(m)
      BY <2>1 DEF IInv, LowInv
    <2>3. QED
      BY <2>2 DEF Returns, HonestInv, Honest
  <1>4. QED
    BY <1>1, <1>2, <1>3, PTL DEF Spec
=============================================================================
