----------------------------- MODULE RtkSource -----------------------------
(***************************************************************************)
(* rtk_source_manager.py: operators add, change, delete and select NTRIP   *)
(* sources through callbacks (one at a time), a worker thread connects to  *)
(* the active source, reads its RTCM frames and publishes them.  A change  *)
(* of the active source counts a generation up, closes the socket under    *)
(* the thread, and wakes it; each of these is a step of its own.           *)
(***************************************************************************)
EXTENDS Naturals, FiniteSets

CONSTANTS
    Sources,   \* ids of sources
    MaxEdits   \* how many requests operators send (a bound)

VARIABLES
    sources,    \* _sources_by_id: id -> the version of its settings
    active,     \* _active_source_id
    generation, \* _source_generation
    connected,  \* _connected
    counted,    \* the source _received_count counts frames of, NoSource if it is 0
    reader,     \* the worker thread: where it is, the source it took, its generation
    open,       \* the thread's socket is registered in _socket and not closed
    wake,       \* _wake_connect
    left,       \* what is left of a callback: "none" | "close" | "wake"
    config,     \* the sources file: [sources, active]
    stopped,       \* _stop_event
    edits       \* requests so far

rtk == <<stopped, sources, active, generation, connected, counted, reader, open, wake, left, config, edits>>

NoSource == [id |-> "none", version |-> 0]
Setup(id) == [id |-> id, version |-> sources[id]]

RtkStarts(at) ==
    /\ sources \in [Sources -> {1}]
    /\ active = CHOOSE id \in Sources : TRUE
    /\ generation = 0
    /\ connected = FALSE /\ counted = NoSource
    /\ reader = [at |-> at, of |-> NoSource, generation |-> 0]
    /\ open = FALSE /\ wake = FALSE /\ left = "none"
    /\ config = [sources |-> sources, active |-> active]
    /\ edits = 0
RtkInit  == RtkStarts("top") /\ stopped = FALSE
RtkEnded == RtkStarts("ended") /\ stopped = TRUE

----------------------------------------------------------------------------
(* Callbacks.                                                              *)

\* The file is written first; a write that fails changes nothing.
Save(s, a) == config' = [sources |-> s, active |-> a]

\* The status says nothing of the source before.
Switch ==
    /\ generation' = generation + 1
    /\ connected' = FALSE
    /\ counted' = NoSource

Apply(s, a, switch) ==
    /\ Save(s, a)
    /\ sources' = s /\ active' = a
    /\ IF switch THEN Switch /\ left' = "close"
                 ELSE UNCHANGED <<generation, connected, counted, left>>

Asked == ~stopped /\ left = "none" /\ edits < MaxEdits /\ edits' = edits + 1

(* _select_source_cb *)
Select(id) ==
    /\ Asked /\ id \in DOMAIN sources
    /\ \/ id # active /\ Apply(sources, id, TRUE)
       \/ UNCHANGED <<sources, active, generation, connected, counted, left, config>>
    /\ UNCHANGED <<reader, open, wake, stopped>>

(* _manage_source_cb: upsert, with or without a change, and activate *)
Upsert(id, activate) ==
    /\ Asked
    /\ \E v \in 1..2 :
        LET s == [i \in DOMAIN sources \cup {id} |-> IF i = id THEN v ELSE sources[i]]
            a == IF activate THEN id ELSE active
        IN  \/ Apply(s, a, a # active \/ (a = id /\ sources[id] # v))
            \/ UNCHANGED <<sources, active, generation, connected, counted, left, config>>
    /\ UNCHANGED <<reader, open, wake, stopped>>

(* _manage_source_cb: delete, not the last one *)
Delete(id) ==
    /\ Asked /\ id \in DOMAIN sources /\ Cardinality(DOMAIN sources) > 1
    /\ \E a \in DOMAIN sources \ {id} :
        /\ active # id => a = active
        /\ \/ Apply([i \in DOMAIN sources \ {id} |-> sources[i]], a, a # active)
           \/ UNCHANGED <<sources, active, generation, connected, counted, left, config>>
    /\ UNCHANGED <<reader, open, wake, stopped>>

\* After the lock is released: _close_socket, then _wake_connect.set().
Close ==
    /\ left = "close" /\ left' = "wake"
    /\ open' = FALSE
    /\ UNCHANGED <<sources, active, generation, connected, counted, reader, wake, config, stopped, edits>>
Wake ==
    /\ left = "wake" /\ left' = "none"
    /\ wake' = TRUE
    /\ UNCHANGED <<sources, active, generation, connected, counted, reader, open, config, stopped, edits>>

(* destroy_node: the event is set, then it goes on as after a change.      *)
Destroy ==
    /\ ~stopped /\ left = "none"
    /\ stopped' = TRUE /\ wake' = TRUE /\ open' = FALSE
    /\ UNCHANGED <<sources, active, generation, connected, counted, reader, left, config, edits>>

----------------------------------------------------------------------------
(* The worker thread, _reader_loop.                                        *)
Current == reader.generation = generation
ReaderAt(place) == reader.at = place
ReaderMoves(place) == reader' = [reader EXCEPT !.at = place]
OnlyReader == UNCHANGED <<sources, active, generation, left, config, stopped, edits>>

\* Variant: the generation is taken once, when the thread starts.
TakeOldGeneration ==
    /\ ReaderAt("top") /\ ~stopped
    /\ reader' = [reader EXCEPT !.at = "connecting", !.of = Setup(active)]
    /\ UNCHANGED <<connected, counted, open, wake>> /\ OnlyReader
Take ==
    /\ ReaderAt("top") /\ ~stopped
    /\ reader' = [at |-> "connecting", of |-> Setup(active), generation |-> generation]
    /\ UNCHANGED <<connected, counted, open, wake>> /\ OnlyReader

\* _open_stream, until the socket is registered and until the handshake.
Connect ==
    /\ ReaderAt("connecting")
    /\ \/ Current /\ ~stopped /\ open' = TRUE /\ ReaderMoves("handshake")
       \/ (~Current \/ stopped) /\ ReaderMoves("closing") /\ UNCHANGED open
    /\ UNCHANGED <<connected, counted, wake>> /\ OnlyReader
Handshake ==
    /\ ReaderAt("handshake") /\ open
    /\ connected' = IF Current THEN TRUE ELSE connected
    /\ ReaderMoves("reading")
    /\ UNCHANGED <<counted, open, wake>> /\ OnlyReader

\* The loop: leave when the generation changed, else take what was received.
Look ==
    /\ ReaderAt("reading")
    /\ ReaderMoves(IF Current /\ ~stopped THEN "frames" ELSE "closing")
    /\ UNCHANGED <<connected, counted, open, wake>> /\ OnlyReader

\* _publish_rtcm_frame: only frames of the current generation.
PublishAnyway == counted' = reader.of
Publish == counted' = IF Current /\ ~stopped THEN reader.of ELSE counted
Frame ==
    /\ ReaderAt("frames")
    /\ Publish
    /\ UNCHANGED <<connected, reader, open, wake>> /\ OnlyReader
Received ==
    /\ ReaderAt("frames")
    /\ ReaderMoves("reading")
    /\ UNCHANGED <<connected, counted, open, wake>> /\ OnlyReader

\* Refused, closed by the caster or by a callback, timed out, no valid RTCM.
Fail ==
    /\ reader.at \in {"connecting", "handshake", "frames"}
    /\ connected' = IF Current THEN FALSE ELSE connected
    /\ ReaderMoves("closing")
    /\ UNCHANGED <<counted, open, wake>> /\ OnlyReader

\* finally: _close_socket; then wait to be woken or for the delay.
Finally ==
    /\ ReaderAt("closing")
    /\ open' = FALSE
    /\ ReaderMoves("waiting")
    /\ UNCHANGED <<connected, counted, wake>> /\ OnlyReader
Again ==
    /\ ReaderAt("waiting")
    /\ wake' = FALSE
    /\ ReaderMoves("top")
    /\ UNCHANGED <<connected, counted, open>> /\ OnlyReader

\* The thread is over.
ThreadEnds ==
    /\ ReaderAt("top") /\ stopped
    /\ ReaderMoves("ended")
    /\ UNCHANGED <<connected, counted, open, wake>> /\ OnlyReader
Over == stopped /\ ReaderAt("ended")

Thread == ThreadEnds \/ Take \/ Connect \/ Handshake \/ Look \/ Frame \/ Received \/ Fail \/ Finally \/ Again

RtkNext ==
    \/ \E id \in Sources : Select(id) \/ Delete(id) \/ \E a \in BOOLEAN : Upsert(id, a)
    \/ Close \/ Wake \/ Destroy \/ Thread

\* The thread gets on: every wait of it, on the network or for the delay,
\* has a time-out.  Frame repeats, Received ends it.
RtkFairness ==
    /\ WF_rtk(Take \/ ThreadEnds) /\ WF_rtk(Connect \/ Fail) /\ WF_rtk(Handshake \/ Fail) /\ WF_rtk(Look)
    /\ WF_rtk(Received) /\ WF_rtk(Finally) /\ WF_rtk(Again) /\ WF_rtk(Close) /\ WF_rtk(Wake)
RtkSpec == RtkInit /\ [][RtkNext]_rtk /\ RtkFairness

----------------------------------------------------------------------------
(* Properties.                                                             *)

(* What the status says is of the active source as it is configured now:   *)
(* the frames counted, and published, came from it, and the connection is  *)
(* to it.                                                                  *)
StatusIsOfActive ==
    /\ active \in DOMAIN sources
    /\ counted \in {NoSource, Setup(active)}
    /\ connected /\ ~stopped =>
        Current /\ reader.of = Setup(active) /\ reader.at \in {"reading", "frames"}

(* A receiver left on an old source would take corrections of a base that  *)
(* is elsewhere: the thread leaves it for the active one, or ends.          *)
FollowsActive == []<>(Over \/ (reader.of = Setup(active) /\ Current))
=============================================================================
