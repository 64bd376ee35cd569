----------------------------- MODULE ZonesStore -----------------------------
(***************************************************************************)
(* zones_manager.py: the keepout zones as a document in memory, its file,  *)
(* the mask files drawn from it, the mask the map server serves and the    *)
(* one the costmap has taken.  A document is the set of its enabled        *)
(* polygons; a mask is the set of the polygons drawn.  Services run one at *)
(* a time; the calls to the map server and the costmap may time out and be *)
(* served later; files may fail to be written; the node may crash at any   *)
(* moment and loads the file when it starts again.                         *)
(***************************************************************************)
EXTENDS Naturals, Sequences, FiniteSets

CONSTANTS
    Docs,      \* documents an operator sets
    Outside,   \* polygons beside the grid of the mask
    MaxTrouble \* requests and crashes (a bound)

\* A file that does not parse; no file.
Torn    == {"torn"}
Missing == {"missing"}

ASSUME ZonesAssumption == Torn \notin Docs /\ Missing \notin Docs

VARIABLES
    doc,     \* _geojson_doc
    ready,   \* _mask_ready
    file,    \* geojson_file
    mask,    \* the mask files
    served,  \* the mask of the map server
    costmap, \* the mask in the global costmap
    calls,   \* calls that wait for the map server or the costmap
    todo,    \* what is left of the service or of the start
    work,    \* its document, what failed to convert, who asked, how far it got
    lastAnswer, \* the last request that was taken up: ok or not (yet), its document and
                \* what failed to convert
    trouble

zones == <<doc, ready, file, mask, served, costmap, calls, todo, work, lastAnswer, trouble>>

Task(d, persist, asked) ==
    [doc |-> d, failed |-> {}, persist |-> persist, asked |-> asked,
     loaded |-> FALSE, cleared |-> FALSE]
Nothing == Task({}, FALSE, FALSE)
Steps == <<"convert", "write", "load", "clear", "save", "adopt">>

\* _apply_geojson begins.
BeginApply(d, persist, asked) ==
    todo' = Steps /\ work' = Task(d, persist, asked)

\* A start takes a file that does not parse, and no file, for an empty one,
\* and writes a file where there is none.
Content(f) == IF f \in {Torn, Missing} THEN {} ELSE f
StartTask(f) == Task(Content(f), f = Missing, FALSE)

ZonesInit ==
    /\ file \in {Missing, {}}
    /\ doc = {} /\ ready = FALSE
    /\ mask = {} /\ served = {} /\ costmap = {} /\ calls = <<>>
    /\ todo = Steps /\ work = StartTask(file)
    /\ lastAnswer = [ok |-> FALSE, doc |-> {}, failed |-> {}] /\ trouble = 0

Bother == trouble < MaxTrouble /\ trouble' = trouble + 1
TakenUp == lastAnswer' = [lastAnswer EXCEPT !.ok = FALSE]

(* _on_set_geojson of a document that parses.                              *)
SetGeojson(d) ==
    /\ todo = <<>> /\ Bother
    /\ BeginApply(d, TRUE, TRUE) /\ TakenUp
    /\ UNCHANGED <<doc, ready, file, mask, served, costmap, calls>>

(* _on_reload_from_disk: of a file that does not parse, an error.          *)
Reload ==
    /\ todo = <<>> /\ Bother
    /\ IF file = Torn THEN UNCHANGED <<todo, work, lastAnswer>>
                      ELSE BeginApply(Content(file), FALSE, TRUE) /\ TakenUp
    /\ UNCHANGED <<doc, ready, file, mask, served, costmap, calls>>

Doing(step) == todo # <<>> /\ Head(todo) = step

(* The node crashes, and begins _load_initial_state.  A write in progress  *)
(* leaves a file that does not parse.                                      *)
Crash ==
    /\ Bother
    /\ \/ UNCHANGED file
       \/ Doing("save") /\ work.persist /\ file' = Torn
    /\ doc' = {} /\ ready' = FALSE
    /\ todo' = Steps /\ work' = StartTask(file')
    /\ UNCHANGED <<mask, served, costmap, calls, lastAnswer>>

----------------------------------------------------------------------------
(* _apply_geojson                                                          *)
Done == todo' = Tail(todo) /\ UNCHANGED lastAnswer
Fails == todo' = <<>> /\ work' = Nothing /\ UNCHANGED lastAnswer

\* Polygons that fromLL fails for are left out with a warning; only when it
\* fails for all is that an error.  The node that starts is not spun yet and
\* gets no answer, so it converts none.
Convert ==
    /\ Doing("convert")
    /\ \E failed \in SUBSET work.doc :
          /\ ~work.asked => failed = work.doc
          /\ IF failed = work.doc /\ work.doc # {} THEN Fails
             ELSE Done /\ work' = [work EXCEPT !.failed = failed]
    /\ UNCHANGED <<doc, ready, file, mask, served, costmap, calls, trouble>>

\* Polygons beside the grid are skipped, again with a warning.
Drawn(w) == (w.doc \ w.failed) \ Outside
WriteMask ==
    /\ Doing("write")
    /\ \/ mask' = Drawn(work) /\ Done /\ UNCHANGED work
       \/ mask' \in {mask, Drawn(work)} /\ Fails
    /\ UNCHANGED <<doc, ready, file, served, costmap, calls, trouble>>

\* A service that is not there, or a call that is made, and answered or not.
LoadMap ==
    /\ Doing("load")
    /\ \/ calls' = Append(calls, "load") /\ todo' = [todo EXCEPT ![1] = "wait load"]
       \/ calls' = calls /\ todo' = Tail(Tail(todo))
    /\ UNCHANGED <<doc, ready, file, mask, served, costmap, work, lastAnswer, trouble>>
ClearCostmap ==
    /\ Doing("clear")
    /\ \/ calls' = Append(calls, "clear") /\ todo' = [todo EXCEPT ![1] = "wait clear"]
       \/ calls' = calls /\ Done
    /\ UNCHANGED <<doc, ready, file, mask, served, costmap, work, lastAnswer, trouble>>

\* The map server reads the mask files when it gets to the call, and may
\* fail; the costmap takes the mask that is served.
ServeCall ==
    /\ calls # <<>>
    /\ calls' = Tail(calls)
    /\ LET fine == CASE Head(calls) = "load" -> served' = mask /\ UNCHANGED costmap
                     [] OTHER -> costmap' = served /\ UNCHANGED served
       IN  \/ fine /\ (IF ~work.asked \/ Len(calls) > 1 THEN UNCHANGED work
                       ELSE IF Doing("wait load") THEN work' = [work EXCEPT !.loaded = TRUE]
                       ELSE IF Doing("wait clear") THEN work' = [work EXCEPT !.cleared = TRUE]
                       ELSE UNCHANGED work)
           \/ UNCHANGED <<served, costmap, work>>
    /\ UNCHANGED <<doc, ready, file, mask, todo, lastAnswer, trouble>>

\* The answer is there, or the wait for it is over.
Waited ==
    /\ todo # <<>> /\ Head(todo) \in {"wait load", "wait clear"}
    /\ todo' = IF Head(todo) = "wait load" /\ ~work.loaded THEN Tail(Tail(todo)) ELSE Tail(todo)
    /\ UNCHANGED <<doc, ready, file, mask, served, costmap, calls, work, lastAnswer, trouble>>

SaveDoc ==
    /\ Doing("save")
    /\ \/ file' = (IF work.persist THEN work.doc ELSE file) /\ Done /\ UNCHANGED work
       \/ work.persist /\ file' \in {file, Torn} /\ Fails
    /\ UNCHANGED <<doc, ready, mask, served, costmap, calls, trouble>>

\* Variant: a mask that is loaded is applied.
AppliedOnceLoaded == work.loaded
Applied == work.loaded /\ work.cleared
Adopt ==
    /\ Doing("adopt")
    /\ doc' = work.doc
    /\ ready' = Applied
    /\ todo' = <<>> /\ work' = Nothing
    /\ lastAnswer' = IF work.asked THEN [ok |-> Applied, doc |-> work.doc, failed |-> work.failed]
                     ELSE lastAnswer
    /\ UNCHANGED <<file, mask, served, costmap, calls, trouble>>

ZonesNext ==
    \/ \E d \in Docs \cup {{}} : SetGeojson(d)
    \/ Reload \/ Crash
    \/ Convert \/ WriteMask \/ LoadMap \/ ClearCostmap \/ Waited \/ SaveDoc \/ Adopt
    \/ ServeCall
ZonesSpec == ZonesInit /\ [][ZonesNext]_zones

----------------------------------------------------------------------------
(* An answer "ok" means, until something else is asked, that the robot     *)
(* keeps out of every zone of the document that fromLL converted and that  *)
(* lies on the grid, and out of nothing else: the map server and the       *)
(* costmap have these zones and a start finds the document in the file,    *)
(* whatever failed or came late before and however often the node crashes  *)
(* since.  The node shows that document as ready or, once it was started   *)
(* again, an empty one as not ready.                                       *)
OkMeansApplied ==
    lastAnswer.ok =>
        /\ lastAnswer.doc # {} => lastAnswer.failed # lastAnswer.doc
        /\ served = lastAnswer.doc \ (lastAnswer.failed \cup Outside)
        /\ costmap = served
        /\ Content(file) = lastAnswer.doc
        /\ <<ready, doc>> \in {<<TRUE, lastAnswer.doc>>, <<FALSE, {}>>}
=============================================================================
