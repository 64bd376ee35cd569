------------------------------ MODULE PowerLog ------------------------------
(***************************************************************************)
(* jetson_power_monitor.py over one boot: samples of the supply voltage go *)
(* to segment files, alarms and the monitor's own starts and stops to a    *)
(* journal.  A write is in memory until it is synced; the power may go at  *)
(* any moment and leave half a line.  A restart begins at the first file   *)
(* again and appends.  After the cut jetson_power_lib.py reads what is     *)
(* left and says how the boot ended.  The window of time the judgement     *)
(* looks at is longer than a behaviour.                                    *)
(***************************************************************************)
EXTENDS Naturals, Sequences, FiniteSets

CONSTANTS
    MaxSamples, MaxRuns  \* bounds

VARIABLES
    monitor,   \* what the process does next
    segment,   \* index of the open file, 0 without one
    segments,  \* per file: data, and how much of it is safe
    journal,   \* the same for events
    written,   \* samples so far, over all runs
    dips,      \* the critical ones
    dipping,   \* _critical_event_active
    first,     \* history: the first sample of this run
    cleanAt    \* history: samples when the monitor last stopped cleanly, or NotYet

power == <<monitor, segment, segments, journal, written, dips, dipping, first, cleanAt>>

NotYet == MaxSamples + 1
NewFile == [data |-> <<>>, safe |-> 0, torn |-> FALSE]
Add(f, x) == [f EXCEPT !.data = Append(@, x)]
Synced(f) == [f EXCEPT !.safe = Len(f.data)]
Says(event) == {i \in DOMAIN journal.data : journal.data[i] = event}
Runs == Cardinality(Says("start"))

PowerInit ==
    /\ monitor = "off" /\ segment = 0 /\ segments = <<>> /\ journal = NewFile
    /\ written = 0 /\ dips = {} /\ dipping = FALSE /\ first = 1 /\ cleanAt = NotYet

(* append_json_record: a write, and a sync that goes on to what follows.   *)
Emit(event, next) == journal' = Add(journal, event) /\ monitor' = next

Begin ==
    /\ monitor = "off" /\ Runs < MaxRuns
    /\ Emit("start", "started")
    /\ segment' = 0 /\ dipping' = FALSE /\ first' = written + 1
    /\ UNCHANGED <<segments, written, dips, cleanAt>>
AfterEvent == [started |-> "up", alarmed |-> "up", stopped |-> "off"]
SyncEvent ==
    /\ monitor \in DOMAIN AfterEvent /\ monitor' = AfterEvent[monitor]
    /\ journal' = Synced(journal)
    /\ UNCHANGED <<segment, segments, written, dips, dipping, first, cleanAt>>

(* SegmentedJsonlWriter.close                                              *)
\* Variant: what was not synced yet is left to the system.
ClosedUnsynced == segments
Closed == [s \in DOMAIN segments |-> IF s = segment THEN Synced(segments[s]) ELSE segments[s]]

(* SegmentedJsonlWriter.write: a new file when the time of the old one is  *)
(* over; the line; a sync when it is due, always for the first of a file.  *)
Rotate ==
    /\ monitor = "up" /\ written < MaxSamples
    /\ segment' = segment + 1
    /\ segments' = IF segment = Len(segments) THEN Append(Closed, NewFile) ELSE Closed
    /\ monitor' = "fresh"
    /\ UNCHANGED <<journal, written, dips, dipping, first, cleanAt>>
Write ==
    /\ monitor \in {"up", "fresh"} /\ segment > 0 /\ written < MaxSamples
    /\ written' = written + 1
    /\ segments' = [segments EXCEPT ![segment] = Add(@, written')]
    /\ \E dip \in BOOLEAN, due \in BOOLEAN :
        /\ monitor = "fresh" => due
        /\ dips' = IF dip THEN dips \cup {written'} ELSE dips
        /\ dipping' = dip
        /\ monitor' = IF due THEN IF dip /\ ~dipping THEN "due, alarm" ELSE "due"
                      ELSE IF dip /\ ~dipping THEN "alarm" ELSE "up"
    /\ UNCHANGED <<segment, journal, first, cleanAt>>
SyncSample ==
    /\ monitor \in {"due", "due, alarm"}
    /\ segments' = [segments EXCEPT ![segment] = Synced(@)]
    /\ monitor' = IF monitor = "due" THEN "up" ELSE "alarm"
    /\ UNCHANGED <<segment, journal, written, dips, dipping, first, cleanAt>>
Alarm ==
    /\ monitor = "alarm" /\ Emit("critical", "alarmed")
    /\ UNCHANGED <<segment, segments, written, dips, dipping, first, cleanAt>>

(* main, finally: asked to stop, or an exception after it was asked or not. *)
CloseLog(clean) ==
    /\ monitor \in {"up", "fresh", "due", "alarm"}
    /\ segments' = Closed
    /\ monitor' = IF clean THEN "stop" ELSE "off"
    /\ UNCHANGED <<segment, journal, written, dips, dipping, first, cleanAt>>
Stop ==
    /\ monitor = "stop" /\ Emit("stop", "stopped")
    /\ cleanAt' = written
    /\ UNCHANGED <<segment, segments, written, dips, dipping, first>>
\* The process is killed: nothing is closed, nothing is lost.
Kill ==
    /\ monitor \notin {"off", "cut"} /\ monitor' = "off"
    /\ segment' = 0 /\ dipping' = FALSE
    /\ UNCHANGED <<segments, journal, written, dips, first, cleanAt>>

(* The power goes: of each file what is safe remains, maybe more, maybe    *)
(* half a line behind it.                                                  *)
Remains(f) ==
    {[data |-> SubSeq(f.data, 1, n), safe |-> f.safe, torn |-> torn] :
        n \in f.safe..Len(f.data), torn \in BOOLEAN} \
    {[data |-> f.data, safe |-> f.safe, torn |-> TRUE]}
PowerCut ==
    /\ monitor # "cut" /\ monitor' = "cut"
    /\ segment' = 0 /\ dipping' = FALSE
    /\ journal' \in Remains(journal)
    /\ \E kept \in [DOMAIN segments -> UNION {Remains(segments[s]) : s \in DOMAIN segments}] :
        /\ \A s \in DOMAIN segments : kept[s] \in Remains(segments[s])
        /\ segments' = kept
    /\ UNCHANGED <<written, dips, first, cleanAt>>

PowerNext ==
    \/ Begin \/ SyncEvent \/ Rotate \/ Write \/ SyncSample \/ Alarm
    \/ \E clean \in BOOLEAN : CloseLog(clean)
    \/ Stop \/ Kill \/ PowerCut
PowerSpec == PowerInit /\ [][PowerNext]_power

(* load_jsonl_many: the files in order, up to the first with half a line.  *)
Readable == {s \in DOMAIN segments : \A t \in 1..s - 1 : ~segments[t].torn}
Read == UNION {{s} \X DOMAIN segments[s].data : s \in Readable}
Sample(line) == segments[line[1]].data[line[2]]

(* classify_boot                                                           *)
ClosedCleanly == \E i \in Says("stop") : \A j \in Says("start") : j < i
Verdict ==
    IF ClosedCleanly THEN "clean"
    ELSE IF Says("critical") # {} \/ {Sample(line) : line \in Read} \cap dips # {} THEN "drop"
    ELSE "steady or unknown"

----------------------------------------------------------------------------
(* After a power cut, wherever it came and however often the monitor was   *)
(* stopped, killed and started in that boot: the synced samples of its     *)
(* last run are all read, in their order; the end is called clean only if  *)
(* no sample was taken after a clean stop; and it is not called steady     *)
(* when a synced sample of the last run or a synced alarm says otherwise.  *)
Owed ==
    {n \in UNION {{segments[s].data[i] : i \in 1..segments[s].safe} : s \in DOMAIN segments} :
        n >= first}
Precedes(line, next) == line[1] < next[1] \/ (line[1] = next[1] /\ line[2] < next[2])
Alarmed == \E i \in 1..journal.safe : journal.data[i] = "critical"
PostmortemIsSound ==
    monitor = "cut" =>
        /\ Owed \subseteq {Sample(line) : line \in Read}
        /\ \A line, next \in Read :
              Precedes(line, next) /\ {Sample(line), Sample(next)} \subseteq Owed
                => Sample(line) < Sample(next)
        /\ Verdict = "clean" => cleanAt = written
        /\ Verdict = "steady or unknown" => ~Alarmed /\ Owed \cap dips = {}
=============================================================================
