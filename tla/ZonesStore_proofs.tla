------------------------- MODULE ZonesStore_proofs -------------------------
(***************************************************************************)
(* Proofs about ZonesStore, for any documents and any amount of trouble.   *)
(*                                                                         *)
(* What a service has still to do says what it has done: the mask is drawn *)
(* from what was converted of its document once it asks the map server,    *)
(* the map server has it when the call was answered, the costmap when that *)
(* call was.  A call that was given up and is served late repeats what is  *)
(* there already.  A start loads nothing: it fails for a file with zones,  *)
(* and draws what is drawn for one without.                                *)
(***************************************************************************)
EXTENDS ZonesStore, SequenceTheorems, TLAPS

\* What may be left of a service.
FromWrite == <<"write", "load", "clear", "save", "adopt">>
FromLoad  == <<"load", "clear", "save", "adopt">>
WaitLoad  == [FromLoad EXCEPT ![1] = "wait load"]
FromClear == <<"clear", "save", "adopt">>
WaitClear == [FromClear EXCEPT ![1] = "wait clear"]
FromSave  == <<"save", "adopt">>
FromAdopt == <<"adopt">>

Written == {FromLoad, WaitLoad, FromClear, WaitClear, FromSave, FromAdopt}
Todos == {<<>>, Steps, FromWrite} \cup Written

Doc     == Docs \cup {{}}
AnyFile == Doc \cup {Torn, Missing}
Failed  == SUBSET UNION Docs
Work    == [doc : Doc, failed : Failed, persist : BOOLEAN, asked : BOOLEAN,
            loaded : BOOLEAN, cleared : BOOLEAN]
Answers == [ok : BOOLEAN, doc : Doc, failed : Failed]

TypeInv ==
    /\ doc \in Doc
    /\ file \in AnyFile
    /\ work \in Work
    /\ todo \in Todos
    /\ calls \in Seq({"load", "clear"})
    /\ ready \in BOOLEAN
    /\ lastAnswer \in Answers

DrawnInv ==
    /\ todo \notin {<<>>, Steps} /\ work.doc # {} => work.failed # work.doc
    /\ todo \in Written => mask = Drawn(work)
LoadedInv ==
    /\ todo \in {FromClear, WaitClear} => work.loaded
    /\ todo # <<>> /\ work.loaded => todo \in Written /\ served = Drawn(work)
    /\ todo # <<>> /\ work.cleared => work.loaded /\ costmap = Drawn(work)
FileInv ==
    /\ todo # <<>> /\ ~(work.asked /\ work.persist) => Content(file) = work.doc
    /\ todo = FromAdopt /\ work.persist => file = work.doc
\* The start gets on only without zones, and hears no answer.
StartInv ==
    todo # <<>> /\ ~work.asked =>
        /\ doc = {} /\ ready = FALSE /\ ~work.loaded
        /\ todo # Steps => work.doc = {}
        /\ work.persist => work.doc = {}
\* The call waited for is the last one made.
CallInv ==
    calls # <<>> => /\ todo = WaitLoad => calls[Len(calls)] = "load"
                    /\ todo = WaitClear => calls[Len(calls)] = "clear"
OkInv ==
    lastAnswer.ok => /\ todo = <<>> \/ ~work.asked
                     /\ mask = served
                     /\ OkMeansApplied

IInv == TypeInv /\ DrawnInv /\ LoadedInv /\ FileInv /\ StartInv /\ CallInv /\ OkInv

(* A step is replaced by the wait for its answer.                          *)
LEMMA FirstReplaced ==
  ASSUME NEW S, NEW s \in Seq(S), s # <<>>, NEW e \in S, NEW r, r = [s EXCEPT ![1] = e]
  PROVE  r # <<>> /\ Head(r) = e /\ Tail(r) = Tail(s)
  <1>1. Len(s) \in Nat \ {0} /\ 1 \in 1..Len(s)
    BY EmptySeq
  <1>2. /\ r \in Seq(S) /\ Len(r) = Len(s)
        /\ \A j \in 1..Len(s) : r[j] = IF j = 1 THEN e ELSE s[j]
    BY <1>1, ExceptSeq
  <1>3. r # <<>> /\ Head(r) = e
    BY <1>1, <1>2, EmptySeq
  <1>4. /\ Tail(r) \in Seq(S) /\ Tail(s) \in Seq(S)
        /\ Len(Tail(r)) = Len(s) - 1 /\ Len(Tail(s)) = Len(s) - 1
        /\ \A i \in 1..Len(s) - 1 : Tail(r)[i] = r[i + 1] /\ Tail(s)[i] = s[i + 1]
    BY <1>1, <1>2, <1>3, HeadTailProperties
  <1>5. \A i \in 1..Len(s) - 1 : Tail(r)[i] = Tail(s)[i]
    BY <1>1, <1>2, <1>4
  <1>6. Tail(r) = Tail(s)
    BY <1>4, <1>5, SeqEqual
  <1>7. QED
    BY <1>3, <1>6

(* The steps, one by one.                                                  *)
LEMMA TodoSteps ==
  /\ Steps # <<>> /\ Head(Steps) = "convert" /\ Tail(Steps) = FromWrite
  /\ FromWrite # <<>> /\ Head(FromWrite) = "write" /\ Tail(FromWrite) = FromLoad
  /\ FromLoad # <<>> /\ Head(FromLoad) = "load" /\ Tail(FromLoad) = FromClear
  /\ WaitLoad # <<>> /\ Head(WaitLoad) = "wait load" /\ Tail(WaitLoad) = FromClear
  /\ FromClear # <<>> /\ Head(FromClear) = "clear" /\ Tail(FromClear) = FromSave
  /\ WaitClear # <<>> /\ Head(WaitClear) = "wait clear" /\ Tail(WaitClear) = FromSave
  /\ FromSave # <<>> /\ Head(FromSave) = "save" /\ Tail(FromSave) = FromAdopt
  /\ FromAdopt # <<>> /\ Head(FromAdopt) = "adopt"
  <1>1. Steps # <<>> /\ Head(Steps) = "convert" /\ Tail(Steps) = FromWrite
    BY DEF Steps, FromWrite
  <1>2. FromWrite # <<>> /\ Head(FromWrite) = "write" /\ Tail(FromWrite) = FromLoad
    BY DEF FromWrite, FromLoad
  <1>3. FromLoad # <<>> /\ Head(FromLoad) = "load" /\ Tail(FromLoad) = FromClear
    BY DEF FromLoad, FromClear
  <1> DEFINE Names == {"load", "wait load", "wait clear", "clear", "save", "adopt"}
  <1>9. FromLoad \in Seq(Names) /\ FromClear \in Seq(Names)
    BY DEF FromLoad, FromClear
  <1>10. "wait load" \in Names /\ "wait clear" \in Names
    OBVIOUS
  <1> HIDE DEF Names
  <1>4. WaitLoad # <<>> /\ Head(WaitLoad) = "wait load" /\ Tail(WaitLoad) = FromClear
    <2>1. FromLoad \in Seq(Names) /\ FromLoad # <<>> /\ "wait load" \in Names
      BY <1>3, <1>9, <1>10
    <2>0. WaitLoad = [FromLoad EXCEPT ![1] = "wait load"]
      BY DEF WaitLoad
    <2>3. ASSUME NEW e \in Names, WaitLoad = [FromLoad EXCEPT ![1] = e]
          PROVE  WaitLoad # <<>> /\ Head(WaitLoad) = e /\ Tail(WaitLoad) = Tail(FromLoad)
      BY <2>1, <2>3, FirstReplaced
    <2>2. WaitLoad # <<>> /\ Head(WaitLoad) = "wait load" /\ Tail(WaitLoad) = Tail(FromLoad)
      BY <2>0, <2>1, <2>3
    <2>4. QED
      BY <1>3, <2>2
  <1>5. FromClear # <<>> /\ Head(FromClear) = "clear" /\ Tail(FromClear) = FromSave
    BY DEF FromClear, FromSave
  <1>6. WaitClear # <<>> /\ Head(WaitClear) = "wait clear" /\ Tail(WaitClear) = FromSave
    <2>1. FromClear \in Seq(Names) /\ FromClear # <<>> /\ "wait clear" \in Names
      BY <1>5, <1>9, <1>10
    <2>0. WaitClear = [FromClear EXCEPT ![1] = "wait clear"]
      BY DEF WaitClear
    <2>3. ASSUME NEW e \in Names, WaitClear = [FromClear EXCEPT ![1] = e]
          PROVE  WaitClear # <<>> /\ Head(WaitClear) = e /\ Tail(WaitClear) = Tail(FromClear)
      BY <2>1, <2>3, FirstReplaced
    <2>2. WaitClear # <<>> /\ Head(WaitClear) = "wait clear" /\ Tail(WaitClear) = Tail(FromClear)
      BY <2>0, <2>1, <2>3
    <2>4. QED
      BY <1>5, <2>2
  <1>7. FromSave # <<>> /\ Head(FromSave) = "save" /\ Tail(FromSave) = FromAdopt
    BY DEF FromSave, FromAdopt
  <1>8. FromAdopt # <<>> /\ Head(FromAdopt) = "adopt"
    BY DEF FromAdopt
  <1>11. QED
    BY <1>1, <1>2, <1>3, <1>4, <1>5, <1>6, <1>7, <1>8

(* What is to be done next says what is left.                              *)
LEMMA NextTodo ==
  ASSUME todo \in Todos
  PROVE  /\ Doing("convert") => todo = Steps
         /\ Doing("write") => todo = FromWrite
         /\ Doing("load") => todo = FromLoad
         /\ Doing("clear") => todo = FromClear
         /\ Doing("save") => todo = FromSave
         /\ Doing("adopt") => todo = FromAdopt
         /\ Doing("wait load") => todo = WaitLoad
         /\ Doing("wait clear") => todo = WaitClear
  BY TodoSteps DEF Todos, Written, Doing

LEMMA NoneWritten == <<>> \notin Written /\ Steps \notin Written /\ FromWrite \notin Written
  BY TodoSteps DEF Written

(* What is read of a file.                                                 *)
LEMMA ContentIs ==
  /\ \A d \in Doc : Content(d) = d /\ d # Torn /\ d # Missing
  /\ Content(Torn) = {} /\ Content(Missing) = {}
  /\ \A f \in AnyFile : Content(f) \in Doc
  <1>1. {} # Torn /\ {} # Missing
    BY DEF Torn, Missing
  <1>2. \A d \in Doc : d # Torn /\ d # Missing
    BY <1>1, ZonesAssumption DEF Doc
  <1>3. QED
    BY <1>2 DEF Content, AnyFile, Doc

(* What a service or a start begins with.                                  *)
LEMMA TaskIs ==
  ASSUME NEW d \in Doc, NEW persist \in BOOLEAN, NEW asked \in BOOLEAN
  PROVE  /\ Task(d, persist, asked) \in Work
         /\ Task(d, persist, asked).doc = d
         /\ Task(d, persist, asked).persist = persist
         /\ Task(d, persist, asked).asked = asked
         /\ ~Task(d, persist, asked).loaded /\ ~Task(d, persist, asked).cleared
  <1>1. Task(d, persist, asked) \in Work
    BY DEF Task, Work, Doc, Failed
  <1>2. Task(d, persist, asked).doc = d
    BY DEF Task
  <1>3. Task(d, persist, asked).persist = persist /\ Task(d, persist, asked).asked = asked
    BY Zenon DEF Task
  <1>4. ~Task(d, persist, asked).loaded /\ ~Task(d, persist, asked).cleared
    BY Zenon DEF Task
  <1>5. QED
    BY <1>1, <1>2, <1>3, <1>4

LEMMA StartTaskIs ==
  ASSUME NEW f \in AnyFile
  PROVE  /\ StartTask(f) \in Work /\ StartTask(f).doc = Content(f)
         /\ StartTask(f).persist = (f = Missing) /\ StartTask(f).asked = FALSE
         /\ ~StartTask(f).loaded /\ ~StartTask(f).cleared
  <1>1. Content(f) \in Doc /\ (f = Missing) \in BOOLEAN /\ FALSE \in BOOLEAN
    BY ContentIs
  <1>2. QED
    BY <1>1, TaskIs, Zenon DEF StartTask

LEMMA NothingIs == Nothing \in Work
  BY TaskIs DEF Nothing, Doc

(* A start, with an answer ok that is kept or none.                        *)
LEMMA StartKeeps ==
  ASSUME file' \in AnyFile, doc' = {}, ready' = FALSE, todo' = Steps, work' = StartTask(file)',
         calls' \in Seq({"load", "clear"}), lastAnswer' \in Answers,
         lastAnswer'.ok => mask' = served' /\ OkMeansApplied'
  PROVE  IInv'
  <1>0. work' = StartTask(file')
    BY DEF StartTask, Task, Content, Torn, Missing
  <1>1. /\ work' \in Work /\ work'.doc = Content(file') /\ work'.asked = FALSE
        /\ work'.persist = (file' = Missing) /\ ~work'.loaded /\ ~work'.cleared
    BY <1>0, StartTaskIs
  <1>2. TypeInv'
    <2>1. doc' \in Doc
      BY DEF Doc
    <2>2. ready' \in BOOLEAN
      OBVIOUS
    <2>3. QED
      BY <1>1, <2>1, <2>2 DEF TypeInv, Todos
  <1>3. Steps \notin {<<>>, FromClear, WaitLoad, WaitClear, FromAdopt}
    BY TodoSteps
  <1>4. DrawnInv' /\ LoadedInv' /\ CallInv'
    BY <1>1, <1>3, NoneWritten DEF DrawnInv, LoadedInv, CallInv
  <1>5. FileInv'
    <2>1. Content(file)' = Content(file')
      BY DEF Content, Torn, Missing
    <2>2. QED
      BY <1>1, <1>3, <2>1 DEF FileInv
  <1>6. StartInv'
    BY <1>1, ContentIs DEF StartInv
  <1>7. OkInv'
    BY <1>1 DEF OkInv
  <1>8. QED
    BY <1>2, <1>4, <1>5, <1>6, <1>7 DEF IInv

(* The first start.                                                        *)
LEMMA InitIInv == ZonesInit => IInv
  <1> SUFFICES ASSUME ZonesInit PROVE IInv
    OBVIOUS
  <1>1. file \in AnyFile /\ work = StartTask(file)
    BY DEF ZonesInit, AnyFile, Doc
  <1>2. /\ work \in Work /\ work.doc = Content(file) /\ work.asked = FALSE
        /\ work.persist = (file = Missing) /\ ~work.loaded /\ ~work.cleared
    BY <1>1, StartTaskIs
  <1>3. TypeInv
    <2>1. doc \in Doc /\ calls \in Seq({"load", "clear"}) /\ todo \in Todos
      BY DEF ZonesInit, Doc, Todos
    <2>2. ready \in BOOLEAN
      BY Zenon DEF ZonesInit
    <2>3. lastAnswer \in Answers
      BY DEF ZonesInit, Answers, Doc, Failed
    <2>4. QED
      BY <1>1, <1>2, <2>1, <2>2, <2>3 DEF TypeInv
  <1>4. Steps \notin {<<>>, FromClear, WaitLoad, WaitClear, FromAdopt} /\ todo = Steps
    BY TodoSteps DEF ZonesInit
  <1>5. DrawnInv /\ LoadedInv /\ CallInv
    BY <1>2, <1>4, NoneWritten DEF DrawnInv, LoadedInv, CallInv
  <1>6. FileInv
    BY <1>2, <1>4 DEF FileInv
  <1>7. StartInv
    <2>1. doc = {} /\ ready = FALSE
      BY DEF ZonesInit
    <2>2. QED
      BY <1>2, <1>4, <2>1, ContentIs DEF StartInv
  <1>8. OkInv
    <2>1. lastAnswer.ok = FALSE
      BY DEF ZonesInit
    <2>2. QED
      BY <2>1 DEF OkInv
  <1>9. QED
    BY <1>3, <1>5, <1>6, <1>7, <1>8 DEF IInv

(* A request that is taken up takes the word of the last answer back.      *)
LEMMA TakenBack ==
  ASSUME TypeInv, TakenUp
  PROVE  lastAnswer' \in Answers /\ ~lastAnswer'.ok
  BY DEF TypeInv, TakenUp, Answers

(* A service begins with a document.                                       *)
LEMMA BeginKeeps ==
  ASSUME IInv, NEW d \in Doc, NEW persist \in BOOLEAN,
         BeginApply(d, persist, TRUE), TakenUp, ~persist => Content(file) = d,
         UNCHANGED <<doc, ready, file, calls>>
  PROVE  IInv'
  <1>1. /\ work' \in Work /\ work'.doc = d /\ work'.persist = persist /\ work'.asked = TRUE
        /\ ~work'.loaded /\ ~work'.cleared
    <2>1. TRUE \in BOOLEAN /\ work' = Task(d, persist, TRUE)
      BY DEF BeginApply
    <2>2. QED
      BY <2>1, TaskIs
  <1>2. lastAnswer' \in Answers /\ ~lastAnswer'.ok
    BY TakenBack DEF IInv
  <1>3. todo' = Steps
    BY DEF BeginApply
  <1>4. TypeInv'
    BY <1>1, <1>2, <1>3 DEF IInv, TypeInv, Todos
  <1>5. Steps \notin {<<>>, FromClear, WaitLoad, WaitClear, FromAdopt}
    BY TodoSteps
  <1>6. DrawnInv' /\ LoadedInv' /\ CallInv' /\ StartInv'
    BY <1>1, <1>3, <1>5, NoneWritten DEF DrawnInv, LoadedInv, CallInv, StartInv
  <1>7. FileInv'
    <2>1. Content(file)' = Content(file)
      BY DEF Content, Torn, Missing
    <2>2. QED
      BY <1>1, <1>3, <1>5, <2>1 DEF FileInv
  <1>8. OkInv'
    BY <1>2 DEF OkInv
  <1>9. QED
    BY <1>4, <1>6, <1>7, <1>8 DEF IInv

(* A service that fails takes nothing back and promises nothing.           *)
LEMMA FailsKeeps ==
  ASSUME IInv, Fails, file' \in AnyFile, UNCHANGED <<doc, ready, calls>>,
         lastAnswer.ok => mask' = served' /\ OkMeansApplied'
  PROVE  IInv'
  <1>1. todo' = <<>> /\ work' = Nothing /\ lastAnswer' = lastAnswer
    BY DEF Fails
  <1>2. TypeInv'
    BY <1>1, NothingIs DEF IInv, TypeInv, Todos
  <1>3. QED
    BY <1>1, <1>2, NoneWritten, TodoSteps
       DEF IInv, DrawnInv, LoadedInv, FileInv, StartInv, CallInv, OkInv

(* What is left of a service that goes on.                                 *)
LEMMA WhatIsLeft ==
  /\ FromLoad \in Written /\ WaitLoad \in Written /\ FromClear \in Written
  /\ WaitClear \in Written /\ FromSave \in Written /\ FromAdopt \in Written
  /\ \A s \in {Steps, FromWrite, FromLoad, WaitLoad, FromSave, FromAdopt} :
        s \notin {FromClear, WaitClear}
  /\ \A s \in {Steps, FromWrite, FromLoad, WaitLoad, FromClear, WaitClear, FromSave} : s # FromAdopt
  BY TodoSteps DEF Todos, Written

(* An answer ok, while a step leaves alone what it is about.               *)
LEMMA OkStays ==
  ASSUME IInv, lastAnswer.ok, UNCHANGED <<doc, ready, file, mask, served, costmap, lastAnswer>>
  PROVE  mask' = served' /\ OkMeansApplied'
  BY DEF IInv, OkInv, OkMeansApplied, Content, Torn, Missing

LEMMA ConvertKeeps == IInv /\ Convert => IInv'
  <1> SUFFICES ASSUME IInv, Convert PROVE IInv'
    OBVIOUS
  <1>1. PICK failed \in SUBSET work.doc :
          /\ ~work.asked => failed = work.doc
          /\ IF failed = work.doc /\ work.doc # {} THEN Fails
             ELSE Done /\ work' = [work EXCEPT !.failed = failed]
    BY DEF Convert
  <1>2. todo = Steps /\ UNCHANGED <<doc, ready, file, mask, served, costmap, calls>>
    BY NextTodo DEF IInv, TypeInv, Convert
  <1>3. CASE failed = work.doc /\ work.doc # {}
    <2>1. Fails /\ file' \in AnyFile
      BY <1>1, <1>2, <1>3 DEF IInv, TypeInv
    <2>2. lastAnswer' = lastAnswer
      BY <2>1 DEF Fails
    <2>3. QED
      BY <1>2, <2>1, <2>2, FailsKeeps, OkStays
  <1>4. CASE ~(failed = work.doc /\ work.doc # {})
    <2>1. todo' = FromWrite /\ lastAnswer' = lastAnswer /\ work' = [work EXCEPT !.failed = failed]
      BY <1>1, <1>2, <1>4, TodoSteps DEF Done
    <2>2. failed \in Failed
      BY DEF IInv, TypeInv, Work, Doc, Failed
    <2>3. /\ work' \in Work /\ work'.doc = work.doc /\ work'.failed = failed
          /\ work'.asked = work.asked /\ work'.persist = work.persist
          /\ work'.loaded = work.loaded /\ work'.cleared = work.cleared
      BY <2>1, <2>2 DEF IInv, TypeInv, Work
    <2>4. ~work.loaded /\ ~work.cleared
      BY <1>2, TodoSteps, NoneWritten DEF IInv, LoadedInv
    <2>5. TypeInv'
      BY <1>2, <2>1, <2>3 DEF IInv, TypeInv, Todos
    <2>6. FromWrite \notin {<<>>, Steps, FromClear, WaitLoad, WaitClear, FromAdopt} /\ Steps # <<>>
      BY TodoSteps
    <2>7. DrawnInv' /\ LoadedInv' /\ CallInv'
      BY <1>4, <2>1, <2>3, <2>4, <2>6, NoneWritten DEF DrawnInv, LoadedInv, CallInv
    <2>8. FileInv'
      BY <1>2, <2>1, <2>3, <2>6 DEF IInv, FileInv, Content, Torn, Missing
    <2>9. StartInv'
      <3>1. ~work.asked => work.doc = {}
        BY <1>1, <1>4
      <3>2. QED
        BY <1>2, <2>1, <2>3, <2>6, <3>1 DEF IInv, StartInv
    <2>10. OkInv'
      BY <1>2, <2>1, <2>3, <2>6, OkStays DEF IInv, OkInv
    <2>11. QED
      BY <2>5, <2>7, <2>8, <2>9, <2>10 DEF IInv
  <1>5. QED
    BY <1>3, <1>4

(* A start behind an answer ok has a document without zones.               *)
LEMMA StartOfNone ==
  ASSUME IInv, lastAnswer.ok, todo \notin {<<>>, Steps}
  PROVE  /\ ~work.asked /\ work.doc = {} /\ Drawn(work) = {} /\ lastAnswer.doc = {}
         /\ served = {} /\ costmap = {} /\ mask = {} /\ doc = {} /\ ready = FALSE
  <1>1. ~work.asked /\ work.doc = {} /\ doc = {} /\ ready = FALSE
    BY DEF IInv, OkInv, StartInv
  <1>2. Drawn(work) = {}
    BY <1>1 DEF Drawn
  <1>3. Content(file) = {}
    BY <1>1 DEF IInv, FileInv
  <1>4. lastAnswer.doc = {}
    BY <1>3 DEF IInv, OkInv, OkMeansApplied
  <1>5. QED
    BY <1>1, <1>2, <1>4 DEF IInv, OkInv, OkMeansApplied

LEMMA WriteKeeps == IInv /\ WriteMask => IInv'
  <1> SUFFICES ASSUME IInv, WriteMask PROVE IInv'
    OBVIOUS
  <1>1. /\ todo = FromWrite /\ todo \notin {<<>>, Steps}
        /\ UNCHANGED <<doc, ready, file, served, costmap, calls>>
    BY NextTodo, TodoSteps DEF IInv, TypeInv, WriteMask
  <1>2. mask' \in {mask, Drawn(work)} /\ lastAnswer' = lastAnswer
    BY DEF WriteMask, Done, Fails
  <1>3. ASSUME lastAnswer.ok PROVE mask' = served' /\ OkMeansApplied'
    <2>1. mask' = {} /\ served = {} /\ mask = {}
      BY <1>1, <1>2, <1>3, StartOfNone
    <2>2. UNCHANGED <<doc, ready, file, mask, served, costmap, lastAnswer>>
      BY <1>1, <1>2, <2>1
    <2>3. QED
      BY <1>3, <2>2, OkStays
  <1>4. CASE mask' = Drawn(work) /\ Done /\ UNCHANGED work
    <2>1. todo' = FromLoad
      BY <1>1, <1>4, TodoSteps DEF Done
    <2>2. TypeInv'
      BY <1>1, <1>2, <1>4, <2>1 DEF IInv, TypeInv, Todos, Written
    <2>3. ~work.loaded /\ ~work.cleared
      BY <1>1, TodoSteps, NoneWritten DEF IInv, LoadedInv
    <2>4. /\ FromLoad \notin {<<>>, Steps, FromClear, WaitLoad, WaitClear, FromAdopt}
          /\ FromLoad \in Written
      BY TodoSteps, WhatIsLeft
    <2>5. DrawnInv'
      <3>1. Drawn(work)' = Drawn(work)
        BY <1>4 DEF Drawn
      <3>2. QED
        BY <1>1, <1>4, <2>1, <2>4, <3>1 DEF IInv, DrawnInv
    <2>6. LoadedInv' /\ CallInv' /\ StartInv'
      BY <1>1, <1>4, <2>1, <2>3, <2>4 DEF IInv, LoadedInv, CallInv, StartInv
    <2>7. FileInv'
      BY <1>1, <1>4, <2>1, <2>4 DEF IInv, FileInv, Content, Torn, Missing
    <2>8. OkInv'
      BY <1>1, <1>2, <1>3, <1>4, <2>1, <2>4 DEF IInv, OkInv
    <2>9. QED
      BY <2>2, <2>5, <2>6, <2>7, <2>8 DEF IInv
  <1>5. CASE Fails
    <2>1. file' \in AnyFile
      BY <1>1 DEF IInv, TypeInv
    <2>2. QED
      BY <1>1, <1>3, <1>5, <2>1, FailsKeeps
  <1>6. QED
    BY <1>4, <1>5 DEF WriteMask

(* A service that gets on to the next call, with the mask it drew.         *)
LEMMA GoesOn ==
  ASSUME IInv, todo \in Written, todo' \in Written, todo' # FromAdopt,
         todo' \in {FromClear, WaitClear} => work.loaded,
         calls' \in Seq({"load", "clear"}), CallInv',
         UNCHANGED <<doc, file, mask, served, costmap, ready, work, lastAnswer>>
  PROVE  IInv'
  <1>1. todo \notin {<<>>, Steps} /\ todo' \notin {<<>>, Steps}
    BY NoneWritten
  <1>2. TypeInv'
    BY DEF IInv, TypeInv, Todos
  <1>3. Drawn(work)' = Drawn(work) /\ Content(file)' = Content(file)
    BY DEF Drawn, Content, Torn, Missing
  <1>4. DrawnInv' /\ LoadedInv' /\ FileInv' /\ StartInv'
    BY <1>1, <1>3 DEF IInv, DrawnInv, LoadedInv, FileInv, StartInv
  <1>5. OkInv'
    BY <1>1, OkStays DEF IInv, OkInv
  <1>6. QED
    BY <1>2, <1>4, <1>5 DEF IInv

LEMMA LoadKeeps == IInv /\ LoadMap => IInv'
  <1> SUFFICES ASSUME IInv, LoadMap PROVE IInv'
    OBVIOUS
  <1>1. todo = FromLoad
    BY NextTodo DEF IInv, TypeInv, LoadMap
  <1>2. todo' \in {WaitLoad, FromSave}
    BY <1>1, TodoSteps DEF LoadMap, WaitLoad
  <1>3. Append(calls, "load") \in Seq({"load", "clear"})
    BY DEF IInv, TypeInv
  <1>4. calls' \in Seq({"load", "clear"})
    BY <1>3 DEF LoadMap, IInv, TypeInv
  <1>5. todo' \notin {FromClear, WaitClear} /\ todo' # FromAdopt
    BY <1>2, WhatIsLeft
  <1>6. CallInv'
    <2>1. CASE calls' = Append(calls, "load") /\ todo' = WaitLoad
      <3>1. calls'[Len(calls')] = "load"
        BY <2>1 DEF IInv, TypeInv
      <3>2. todo' # WaitClear
        BY <2>1, TodoSteps
      <3>3. QED
        BY <2>1, <3>1, <3>2 DEF CallInv
    <2>2. CASE todo' = FromSave
      BY <2>2, TodoSteps DEF CallInv
    <2>3. QED
      BY <1>1, <2>1, <2>2, TodoSteps DEF LoadMap, WaitLoad
  <1>7. QED
    BY <1>1, <1>2, <1>4, <1>5, <1>6, GoesOn, WhatIsLeft DEF LoadMap

LEMMA ClearKeeps == IInv /\ ClearCostmap => IInv'
  <1> SUFFICES ASSUME IInv, ClearCostmap PROVE IInv'
    OBVIOUS
  <1>1. todo = FromClear
    BY NextTodo DEF IInv, TypeInv, ClearCostmap
  <1>2. todo' \in {WaitClear, FromSave}
    BY <1>1, TodoSteps DEF ClearCostmap, WaitClear, Done
  <1>3. Append(calls, "clear") \in Seq({"load", "clear"})
    BY DEF IInv, TypeInv
  <1>4. calls' \in Seq({"load", "clear"}) /\ UNCHANGED lastAnswer
    BY <1>3 DEF ClearCostmap, Done, IInv, TypeInv
  <1>5. todo' # FromAdopt /\ work.loaded
    BY <1>1, <1>2, WhatIsLeft, TodoSteps DEF IInv, LoadedInv
  <1>6. CallInv'
    <2>1. CASE calls' = Append(calls, "clear") /\ todo' = WaitClear
      <3>1. calls'[Len(calls')] = "clear"
        BY <2>1 DEF IInv, TypeInv
      <3>2. todo' # WaitLoad
        BY <2>1, TodoSteps
      <3>3. QED
        BY <2>1, <3>1, <3>2 DEF CallInv
    <2>2. CASE todo' = FromSave
      BY <2>2, TodoSteps DEF CallInv
    <2>3. QED
      BY <1>1, <2>1, <2>2, TodoSteps DEF ClearCostmap, WaitClear, Done
  <1>7. QED
    BY <1>1, <1>2, <1>4, <1>5, <1>6, GoesOn, WhatIsLeft DEF ClearCostmap

LEMMA WaitedKeeps == IInv /\ Waited => IInv'
  <1> SUFFICES ASSUME IInv, Waited PROVE IInv'
    OBVIOUS
  <1>1. todo = WaitLoad \/ todo = WaitClear
    BY NextTodo DEF IInv, TypeInv, Waited, Doing
  <1>2. calls' \in Seq({"load", "clear"})
    BY DEF IInv, TypeInv, Waited
  <1>3. \/ todo' = FromClear /\ work.loaded
        \/ todo' = FromSave
    BY <1>1, TodoSteps DEF Waited
  <1>4. todo' # FromAdopt /\ (todo' \in {FromClear, WaitClear} => work.loaded)
    BY <1>3, WhatIsLeft
  <1>5. CallInv'
    BY <1>3, TodoSteps DEF CallInv
  <1>6. QED
    BY <1>1, <1>2, <1>3, <1>4, <1>5, GoesOn, WhatIsLeft DEF Waited

LEMMA SaveKeeps == IInv /\ SaveDoc => IInv'
  <1> SUFFICES ASSUME IInv, SaveDoc PROVE IInv'
    OBVIOUS
  <1>1. /\ todo = FromSave /\ todo \notin {<<>>, Steps} /\ todo # FromAdopt
        /\ UNCHANGED <<doc, ready, mask, served, costmap, calls>>
    BY NextTodo, TodoSteps DEF IInv, TypeInv, SaveDoc
  <1>2. /\ lastAnswer' = lastAnswer
        /\ file' = file \/ (work.persist /\ file' \in {work.doc, Torn})
    BY DEF SaveDoc, Done, Fails
  <1>3. work.doc \in Doc /\ file' \in AnyFile
    BY <1>2 DEF IInv, TypeInv, Work, AnyFile
  <1>4. ASSUME lastAnswer.ok PROVE mask' = served' /\ OkMeansApplied'
    <2>1. work.doc = {} /\ lastAnswer.doc = {}
      BY <1>1, <1>4, StartOfNone
    <2>2. Content(file') = {}
      <3>1. CASE file' = file
        BY <2>1, <1>4, <3>1 DEF IInv, OkInv, OkMeansApplied
      <3>2. CASE file' \in {work.doc, Torn}
        BY <1>3, <2>1, <3>2, ContentIs
      <3>3. QED
        BY <1>2, <3>1, <3>2
    <2>3. Content(file)' = Content(file')
      BY DEF Content, Torn, Missing
    <2>4. OkMeansApplied'
      BY <1>1, <1>2, <1>4, <2>1, <2>2, <2>3 DEF IInv, OkInv, OkMeansApplied
    <2>5. QED
      BY <1>1, <1>4, <2>4 DEF IInv, OkInv
  <1>5. CASE /\ file' = IF work.persist THEN work.doc ELSE file
             /\ Done /\ UNCHANGED work
    <2>1. todo' = FromAdopt
      BY <1>1, <1>5, TodoSteps DEF Done
    <2>2. TypeInv'
      BY <1>1, <1>2, <1>3, <1>5, <2>1 DEF IInv, TypeInv, Todos, Written
    <2>3. FromAdopt \notin {<<>>, Steps, FromClear, WaitLoad, WaitClear} /\ FromAdopt \in Written
      BY TodoSteps, WhatIsLeft
    <2>4. Drawn(work)' = Drawn(work)
      BY <1>5 DEF Drawn
    <2>5. DrawnInv' /\ LoadedInv' /\ CallInv' /\ StartInv'
      BY <1>1, <1>5, <2>1, <2>3, <2>4, WhatIsLeft
         DEF IInv, DrawnInv, LoadedInv, CallInv, StartInv
    <2>6. FileInv'
      <3>1. Content(file)' = Content(file')
        BY DEF Content, Torn, Missing
      <3>2. CASE work.persist
        BY <1>3, <1>5, <3>1, <3>2, ContentIs DEF FileInv
      <3>3. CASE ~work.persist
        BY <1>1, <1>5, <3>1, <3>3 DEF IInv, FileInv
      <3>4. QED
        BY <3>2, <3>3
    <2>7. OkInv'
      BY <1>1, <1>2, <1>4, <1>5, <2>1 DEF IInv, OkInv
    <2>8. QED
      BY <2>2, <2>5, <2>6, <2>7 DEF IInv
  <1>6. CASE Fails
    BY <1>1, <1>3, <1>4, <1>6, FailsKeeps
  <1>7. QED
    BY <1>5, <1>6 DEF SaveDoc

(* An answer ok is given by the service that got through.                  *)
LEMMA AdoptKeeps == IInv /\ Adopt => IInv'
  <1> SUFFICES ASSUME IInv, Adopt PROVE IInv'
    OBVIOUS
  <1>1. todo = FromAdopt /\ todo \notin {<<>>, Steps} /\ FromAdopt \in Written
    BY NextTodo, TodoSteps, WhatIsLeft DEF IInv, TypeInv, Adopt
  <1>2. /\ todo' = <<>> /\ work' = Nothing /\ doc' = work.doc
        /\ UNCHANGED <<file, mask, served, costmap, calls>>
    BY DEF Adopt
  <1>3. /\ work.asked \in BOOLEAN /\ work.loaded \in BOOLEAN /\ work.cleared \in BOOLEAN
        /\ work.doc \in Doc /\ work.failed \in Failed
    BY DEF IInv, TypeInv, Work
  <1>4. Applied \in BOOLEAN
    BY <1>3 DEF Applied
  <1>5. ready' = Applied
    BY Zenon DEF Adopt
  <1>6. ready' \in BOOLEAN
    BY <1>4, <1>5, Zenon
  <1>7. lastAnswer' = IF work.asked THEN [ok |-> Applied, doc |-> work.doc, failed |-> work.failed]
                      ELSE lastAnswer
    BY DEF Adopt
  <1>8. TypeInv'
    <2>1. [ok |-> Applied, doc |-> work.doc, failed |-> work.failed] \in Answers
      BY <1>3, <1>4 DEF Answers
    <2>2. lastAnswer' \in Answers
      BY <1>7, <2>1 DEF IInv, TypeInv
    <2>3. QED
      BY <1>2, <1>3, <1>6, <2>2, NothingIs DEF IInv, TypeInv, Todos
  <1>9. ASSUME lastAnswer'.ok PROVE mask' = served' /\ OkMeansApplied'
    <2>1. CASE work.asked
      <3>1. lastAnswer'.doc = work.doc /\ lastAnswer'.failed = work.failed /\ Applied
        <4>1. lastAnswer' = [ok |-> Applied, doc |-> work.doc, failed |-> work.failed]
          BY <1>7, <2>1
        <4>2. lastAnswer'.ok = Applied
          BY <4>1, Zenon
        <4>3. QED
          BY <1>4, <1>9, <4>1, <4>2
      <3>2. work.loaded /\ work.cleared
        BY <3>1 DEF Applied
      <3>3. mask = Drawn(work) /\ served = Drawn(work) /\ costmap = Drawn(work)
        BY <1>1, <3>2 DEF IInv, DrawnInv, LoadedInv
      <3>4. work.doc # {} => work.failed # work.doc
        BY <1>1 DEF IInv, DrawnInv
      <3>5. Content(file') = work.doc
        <4>1. CASE work.persist
          BY <1>1, <1>2, <1>3, <4>1, ContentIs DEF IInv, FileInv
        <4>2. CASE ~work.persist
          BY <1>1, <1>2, <4>2 DEF IInv, FileInv
        <4>3. QED
          BY <4>1, <4>2
      <3>6. ready' = TRUE
        <4>1. Applied = TRUE
          BY <1>4, <3>1, Zenon
        <4>2. QED
          BY <1>5, <4>1, Zenon
      <3>7. Content(file)' = Content(file')
        BY DEF Content, Torn, Missing
      <3>8. Drawn(work) = lastAnswer'.doc \ (lastAnswer'.failed \cup Outside)
        BY <3>1 DEF Drawn
      <3>9. QED
        BY <1>2, <3>1, <3>3, <3>4, <3>5, <3>6, <3>7, <3>8 DEF OkMeansApplied
    <2>2. CASE ~work.asked
      <3>1. lastAnswer' = lastAnswer
        BY <1>7, <2>2
      <3>2. doc = {} /\ work.doc = {} /\ ready = FALSE /\ ~work.loaded
        BY <1>1, <2>2 DEF IInv, StartInv
      <3>3. ready' = FALSE
        <4>1. Applied = FALSE
          BY <1>4, <3>2, Zenon DEF Applied
        <4>2. QED
          BY <1>5, <4>1, Zenon
      <3>4. UNCHANGED <<doc, ready, file, mask, served, costmap, lastAnswer>>
        BY <1>2, <3>1, <3>2, <3>3
      <3>5. QED
        BY <1>9, <3>1, <3>4, OkStays
    <2>3. QED
      BY <1>3, <2>1, <2>2
  <1>10. DrawnInv' /\ LoadedInv' /\ FileInv' /\ StartInv' /\ CallInv'
    BY <1>2, NoneWritten, TodoSteps DEF DrawnInv, LoadedInv, FileInv, StartInv, CallInv
  <1>11. OkInv'
    BY <1>2, <1>9 DEF OkInv
  <1>12. QED
    BY <1>8, <1>10, <1>11 DEF IInv

(* What is served again is there already.                                  *)
LEMMA ServedAgain ==
  ASSUME IInv, calls # <<>>, calls' = Tail(calls),
         UNCHANGED <<doc, ready, file, mask, todo, work, lastAnswer>>,
         \/ served' = mask /\ UNCHANGED costmap
         \/ costmap' = served /\ UNCHANGED served
         \/ UNCHANGED <<served, costmap>>
  PROVE  IInv'
  <1>1. /\ calls' \in Seq({"load", "clear"})
        /\ calls' # <<>> => calls'[Len(calls')] = calls[Len(calls)]
    <2>1. calls \in Seq({"load", "clear"}) /\ Len(calls) \in Nat \ {0}
      BY EmptySeq DEF IInv, TypeInv
    <2>2. /\ Tail(calls) \in Seq({"load", "clear"}) /\ Len(Tail(calls)) = Len(calls) - 1
          /\ \A i \in 1..Len(calls) - 1 : Tail(calls)[i] = calls[i + 1]
      BY <2>1, HeadTailProperties
    <2>3. Tail(calls) # <<>> => Len(calls) - 1 \in 1..Len(calls) - 1
      BY <2>1, <2>2, EmptySeq
    <2>4. QED
      BY <2>1, <2>2, <2>3
  <1>2. TypeInv' /\ CallInv'
    BY <1>1 DEF IInv, TypeInv, CallInv
  <1>3. Drawn(work)' = Drawn(work) /\ Content(file)' = Content(file)
    BY DEF Drawn, Content, Torn, Missing
  <1>4. DrawnInv' /\ FileInv' /\ StartInv'
    BY <1>3 DEF IInv, DrawnInv, FileInv, StartInv
  <1>5. LoadedInv'
    BY <1>3 DEF IInv, DrawnInv, LoadedInv
  <1>6. OkInv'
    <2>1. lastAnswer.ok => served' = served /\ costmap' = costmap
      BY DEF IInv, OkInv, OkMeansApplied
    <2>2. QED
      BY <2>1, OkStays DEF IInv, OkInv
  <1>7. QED
    BY <1>2, <1>4, <1>5, <1>6 DEF IInv

LEMMA ServeKeeps == IInv /\ ServeCall => IInv'
  <1> SUFFICES ASSUME IInv, ServeCall PROVE IInv'
    OBVIOUS
  <1>1. /\ calls # <<>> /\ calls' = Tail(calls)
        /\ UNCHANGED <<doc, ready, file, mask, todo, lastAnswer>>
    BY DEF ServeCall
  <1>2. \/ Head(calls) = "load" /\ served' = mask /\ UNCHANGED costmap
        \/ Head(calls) # "load" /\ costmap' = served /\ UNCHANGED served
        \/ UNCHANGED <<served, costmap, work>>
    BY DEF ServeCall
  <1>3. CASE UNCHANGED work
    BY <1>1, <1>2, <1>3, ServedAgain
  <1>4. CASE work' # work
    <2>0. calls \in Seq({"load", "clear"}) /\ Len(calls) \in Nat \ {0}
      BY <1>1, EmptySeq DEF IInv, TypeInv
    <2>1. calls \in Seq({"load", "clear"}) /\ Len(calls) = 1
      <3>1. ~(Len(calls) > 1)
        BY <1>4 DEF ServeCall
      <3>2. \A n \in Nat \ {0} : ~(n > 1) => n = 1
        OBVIOUS
      <3>3. QED
        BY <2>0, <3>1, <3>2
    <2>2. Head(calls) = calls[Len(calls)] /\ Tail(calls) = <<>>
      <3>1. Head(calls) = calls[1]
        BY <1>1, <2>1
      <3>2. Len(Tail(calls)) = 0 /\ Tail(calls) \in Seq({"load", "clear"})
        BY <1>1, <2>1, HeadTailProperties
      <3>3. QED
        BY <2>1, <3>1, <3>2, EmptySeq
    <2>3. \/ todo = WaitLoad /\ work' = [work EXCEPT !.loaded = TRUE]
          \/ todo = WaitClear /\ work' = [work EXCEPT !.cleared = TRUE]
      BY <1>4, NextTodo DEF ServeCall, IInv, TypeInv
    <2>4. /\ work' \in Work /\ work'.doc = work.doc /\ work'.persist = work.persist
          /\ work'.asked = work.asked /\ work'.failed = work.failed
      BY <2>3 DEF IInv, TypeInv, Work
    <2>9. work.asked
      BY <1>4, <2>3 DEF ServeCall, IInv, TypeInv, Work
    <2>10. Drawn(work)' = Drawn(work) /\ Content(file)' = Content(file)
      BY <1>1, <2>4 DEF Drawn, Content, Torn, Missing
    <2>5. todo \in Written /\ todo # <<>> /\ mask = Drawn(work) /\ ~lastAnswer.ok
      BY <2>3, <2>9, WhatIsLeft, TodoSteps DEF IInv, DrawnInv, OkInv
    <2>6. TypeInv' /\ CallInv' /\ DrawnInv' /\ FileInv' /\ StartInv' /\ OkInv'
      <3>1. TypeInv' /\ CallInv'
        BY <1>1, <2>2, <2>4 DEF IInv, TypeInv, CallInv
      <3>2. DrawnInv' /\ FileInv'
        BY <1>1, <2>4, <2>10 DEF IInv, DrawnInv, FileInv
      <3>3. StartInv' /\ OkInv'
        BY <1>1, <2>4, <2>5, <2>9 DEF StartInv, OkInv
      <3>4. QED
        BY <3>1, <3>2, <3>3
    <2>7. LoadedInv'
      <3>1. CASE todo = WaitLoad /\ work' = [work EXCEPT !.loaded = TRUE]
        <4>1. served' = mask /\ UNCHANGED costmap
          BY <1>1, <1>2, <1>4, <2>2, <3>1 DEF IInv, CallInv
        <4>2. work'.loaded /\ work'.cleared = work.cleared
          BY <3>1 DEF IInv, TypeInv, Work
        <4>3. QED
          BY <1>1, <2>4, <2>5, <2>10, <4>1, <4>2 DEF IInv, LoadedInv
      <3>2. CASE todo = WaitClear /\ work' = [work EXCEPT !.cleared = TRUE]
        <4>1. Head(calls) = "clear"
          BY <1>1, <2>2, <3>2 DEF IInv, CallInv
        <4>2. costmap' = served /\ UNCHANGED served
          BY <1>2, <1>4, <4>1
        <4>3. work'.loaded = work.loaded /\ work.loaded
          BY <3>2 DEF IInv, TypeInv, Work, LoadedInv
        <4>4. QED
          BY <1>1, <2>4, <2>5, <2>10, <4>2, <4>3 DEF IInv, LoadedInv
      <3>3. QED
        BY <2>3, <3>1, <3>2
    <2>8. QED
      BY <2>6, <2>7 DEF IInv
  <1>5. QED
    BY <1>3, <1>4

(* The services and the crash.                                             *)
LEMMA ServicesKeep ==
  ASSUME IInv, (\E d \in Docs \cup {{}} : SetGeojson(d)) \/ Reload \/ Crash
  PROVE  IInv'
  <1>1. ASSUME NEW d \in Docs \cup {{}}, SetGeojson(d) PROVE IInv'
    BY <1>1, BeginKeeps DEF SetGeojson, Doc
  <1>2. CASE Reload
    <2>1. UNCHANGED <<doc, ready, file, mask, served, costmap, calls>>
      BY <1>2 DEF Reload
    <2>2. CASE file = Torn
      <3>1. UNCHANGED <<todo, work, lastAnswer>>
        BY <1>2, <2>2 DEF Reload
      <3>2. Drawn(work)' = Drawn(work) /\ Content(file)' = Content(file)
        BY <2>1, <3>1 DEF Drawn, Content, Torn, Missing
      <3>3. TypeInv' /\ DrawnInv' /\ LoadedInv' /\ FileInv' /\ StartInv' /\ CallInv'
        BY <2>1, <3>1, <3>2
           DEF IInv, TypeInv, DrawnInv, LoadedInv, FileInv, StartInv, CallInv
      <3>4. OkInv'
        BY <2>1, <3>1, OkStays DEF IInv, OkInv
      <3>5. QED
        BY <3>3, <3>4 DEF IInv
    <2>3. CASE file # Torn
      <3>1. Content(file) \in Doc
        BY ContentIs DEF IInv, TypeInv
      <3>2. QED
        BY <1>2, <2>1, <2>3, <3>1, BeginKeeps DEF Reload
    <2>4. QED
      BY <2>2, <2>3
  <1>3. CASE Crash
    <2>1. /\ doc' = {} /\ ready' = FALSE /\ todo' = Steps /\ work' = StartTask(file)'
          /\ UNCHANGED <<mask, served, costmap, calls, lastAnswer>>
          /\ file' = file \/ (todo = FromSave /\ work.persist /\ file' = Torn)
      <3>1. StartTask(file)' = StartTask(file')
        BY DEF StartTask, Task, Content, Torn, Missing
      <3>2. /\ doc' = {} /\ ready' = FALSE /\ todo' = Steps /\ work' = StartTask(file')
            /\ UNCHANGED <<mask, served, costmap, calls, lastAnswer>>
        BY <1>3 DEF Crash
      <3>3. file' = file \/ (todo = FromSave /\ work.persist /\ file' = Torn)
        BY <1>3, NextTodo DEF Crash, IInv, TypeInv
      <3>4. QED
        BY <3>1, <3>2, <3>3
    <2>2. file' \in AnyFile /\ lastAnswer' \in Answers /\ calls' \in Seq({"load", "clear"})
      BY <2>1 DEF AnyFile, IInv, TypeInv
    <2>3. ASSUME lastAnswer.ok PROVE mask' = served' /\ OkMeansApplied'
      <3>1. Content(file)' = lastAnswer.doc
        <4>1. Content(file)' = Content(file')
          BY DEF Content, Torn, Missing
        <4>2. CASE file' = file
          BY <2>3, <4>1, <4>2 DEF IInv, OkInv, OkMeansApplied
        <4>3. CASE todo = FromSave /\ work.persist /\ file' = Torn
          BY <2>3, <4>1, <4>3, StartOfNone, ContentIs, TodoSteps
        <4>4. QED
          BY <2>1, <4>2, <4>3
      <3>2. OkMeansApplied'
        BY <2>1, <2>3, <3>1 DEF IInv, OkInv, OkMeansApplied
      <3>3. QED
        BY <2>1, <2>3, <3>2 DEF IInv, OkInv
    <2>4. QED
      BY <2>1, <2>2, <2>3, StartKeeps
  <1>4. QED
    BY <1>1, <1>2, <1>3

LEMMA StepIInv == IInv /\ [ZonesNext]_zones => IInv'
  <1> SUFFICES ASSUME IInv, [ZonesNext]_zones PROVE IInv'
    OBVIOUS
  <1>1. CASE UNCHANGED zones
    <2>1. UNCHANGED <<doc, ready, file, mask, served, costmap, calls, todo, work, lastAnswer>>
      BY <1>1 DEF zones
    <2>2. Drawn(work)' = Drawn(work) /\ Content(file)' = Content(file)
      BY <2>1 DEF Drawn, Content, Torn, Missing
    <2>3. TypeInv' /\ DrawnInv' /\ LoadedInv' /\ FileInv' /\ StartInv' /\ CallInv'
      BY <2>1, <2>2 DEF IInv, TypeInv, DrawnInv, LoadedInv, FileInv, StartInv, CallInv
    <2>4. OkInv'
      BY <2>1, OkStays DEF IInv, OkInv
    <2>5. QED
      BY <2>3, <2>4 DEF IInv
  <1>2. CASE ZonesNext
    BY <1>2, ServicesKeep, ConvertKeeps, WriteKeeps, LoadKeeps, ClearKeeps, WaitedKeeps,
       SaveKeeps, AdoptKeeps, ServeKeeps DEF ZonesNext
  <1>3. QED
    BY <1>1, <1>2

(* _apply_geojson: an answer "ok" means that the map server and the        *)
(* costmap have every polygon of the document that was converted and lies  *)
(* on the grid, and the file the document, also after any number of        *)
(* crashes; for any documents, any failures and any calls left over from   *)
(* earlier services.                                                       *)
THEOREM ZonesSafety == ZonesSpec => []OkMeansApplied
  <1>1. IInv => OkMeansApplied
    BY DEF IInv, OkInv, OkMeansApplied
  <1>2. QED
    BY InitIInv, StepIInv, <1>1, PTL DEF ZonesSpec
=============================================================================
