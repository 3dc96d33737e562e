------------------------ MODULE RunLifecycle_proofs ------------------------
(* Theorems about RunLifecycle, for every number of nodes, polls and        *)
(* reports given up on; about AppSession, for any number of start calls, of *)
(* polls under way at once and of times the page begins to watch; about     *)
(* FlowCheck, for every graph and any number of lines; and that the three   *)
(* modules one instance checks keep their types beside each other.          *)
EXTENDS MCRunLifecycle, FiniteSetTheorems, SequenceTheorems, WellFoundedInduction, TLAPS

(* A set of numbers has a least one: the principle of induction, in the form *)
(* in which it can be cited for a set.                                       *)
LEMMA LeastNumber ==
  ASSUME NEW T \in SUBSET Nat, T # {}
  PROVE  \E x \in T : \A y \in T : x <= y
  <1> DEFINE R == OpToRel(<, Nat)
  <1>1. IsWellFoundedOn(R, Nat)
    BY NatLessThanWellFounded
  <1> HIDE DEF R
  <1>2. PICK x \in T : \A y \in T : ~(<<y, x>> \in R)
    BY <1>1, WFMin, Zenon
  <1>3. \A m, n \in Nat : m < n => <<m, n>> \in R
    BY DEF R, OpToRel
  <1>4. ASSUME NEW y \in T PROVE x <= y
    <2>1. x \in Nat /\ y \in Nat
      OBVIOUS
    <2>2. ~(y < x)
      BY <1>2, <1>3, <2>1
    <2> QED
      BY <2>1, <2>2
  <1> QED
    BY <1>4

-----------------------------------------------------------------------------
(* A run (RunLifecycle).                                                    *)
USE RunLifecycleAssumption

HasStarted  == \E i \in DOMAIN log : log[i] = Started

(* Where the runner is in its walk, and how many nodes that leaves to have  *)
(* begun since a cancel.                                                    *)
RunnerWalks ==
    /\ runner.pc \in {"off", "started"} =>
          /\ runner.node = 1 /\ runner.outcome = "finished" /\ ~runner.waiting
          /\ reports = {} /\ ~HasStarted
    /\ runner.pc \in {"begin", "run", "end"} => runner.node <= NumNodes /\ runner.outcome = "finished"
    /\ runner.pc \in {"off", "started", "begin", "run"} => cancel.nodes <= runner.node - 1
    /\ runner.pc = "end" => cancel.nodes <= runner.node

(* Nothing happens before the row exists, and no runner before the dispatch.*)
RowFirst ==
    /\ dispatch \in {"none", "created"} => runner.pc = "off"
    /\ dispatch = "none" <=> status = "none"
    /\ dispatch = "none" => log = <<>>

(* A poll that has read the log knows no more of it than there is.          *)
ReadsWhatIs == \A tick \in ticks : tick.upTo <= Len(log)

Typed == TypeOK /\ RunnerWalks /\ RowFirst /\ ReadsWhatIs

-----------------------------------------------------------------------------

LEMMA EventsDiffer ==
    /\ Started \in Events /\ NodeEvent \in Events
    /\ \A o \in Outcomes : Finished(o) \in Events /\ Finished(o) # Started /\ Finished(o) # NodeEvent
    /\ Started # NodeEvent
    /\ \A e \in Events : e = Started \/ e = NodeEvent \/ \E o \in Outcomes : e = Finished(o)
    /\ \A e \in Events : /\ e.type = "run.started" <=> e = Started
                         /\ e.type = "run.finished" <=> \E o \in Outcomes : e = Finished(o)
                         /\ e.type = "run.finished" => e.outcome \in Outcomes /\ e = Finished(e.outcome)
  BY DEF Events, Started, NodeEvent, Finished, Event, Outcomes

LEMMA InitTyped == Init => Typed
  <1> SUFFICES ASSUME Init PROVE Typed
    OBVIOUS
  <1> USE DEF Init
  <1>1. runner \in Runner
    BY DEF Runner, Outcomes
  <1>2. log \in Seq(Events) /\ Len(log) = 0
    OBVIOUS
  <1>3. view \in [status : Statuses, shown : SUBSET (1 .. Len(log)), last : 0 .. Len(log)]
    BY <1>2 DEF Statuses
  <1>4. TypeOK
    <2>1. cancel \in [in : {"none", "queued", "running"}, nodes : 0 .. NumNodes] /\ givenUp \in 0 .. MaxGivenUp
      OBVIOUS
    <2>2. status \in Statuses /\ token \in BOOLEAN /\ reports \subseteq Report /\ ticks \subseteq Tick
      BY DEF Statuses
    <2>3. dispatch \in {"none", "created", "waiting", "broken", "done"}
      OBVIOUS
    <2> HIDE DEF Init
    <2> QED
      BY <1>1, <1>2, <1>3, <2>1, <2>2, <2>3 DEF TypeOK
  <1>5. RunnerWalks
    BY DEF RunnerWalks, HasStarted
  <1> QED
    BY <1>4, <1>5 DEF Typed, RowFirst, ReadsWhatIs

(* What appending an event does to the log and to what is known of it.      *)
LEMMA Appended ==
    ASSUME Typed, NEW e \in Events, AppendEvent(e)
    PROVE  /\ log \in Seq(Events) /\ log' \in Seq(Events) /\ Len(log) \in Nat
           /\ Len(log') = Len(log) + 1
           /\ DOMAIN log' = DOMAIN log \union {Len(log) + 1} /\ DOMAIN log = 1 .. Len(log)
           /\ \A i \in DOMAIN log : log'[i] = log[i]
           /\ log'[Len(log) + 1] = e
           /\ status' \in (Statuses \ {"none"}) \union {status}
           /\ token' \in BOOLEAN
  <1>1. log \in Seq(Events) /\ log' = Append(log, e)
    BY DEF AppendEvent, Typed, TypeOK
  <1>2. /\ log' \in Seq(Events) /\ Len(log) \in Nat /\ Len(log') = Len(log) + 1
        /\ DOMAIN log = 1 .. Len(log) /\ DOMAIN log' = 1 .. (Len(log) + 1)
        /\ \A i \in DOMAIN log : log'[i] = log[i]
        /\ log'[Len(log) + 1] = e
    BY <1>1
  <1>3. status' \in (Statuses \ {"none"}) \union {status} /\ token' \in BOOLEAN
    BY EventsDiffer DEF AppendEvent, Typed, TypeOK, Statuses, Outcomes
  <1>4. DOMAIN log' = DOMAIN log \union {Len(log) + 1}
    BY <1>2
  <1> QED
    BY <1>1, <1>2, <1>3, <1>4

(* The page knows of a longer log what it knew of the shorter one.          *)
LEMMA LogGrows ==
    ASSUME Typed, NEW e \in Events, AppendEvent(e)
    PROVE  /\ view \in [status : Statuses, shown : SUBSET (1 .. Len(log')), last : 0 .. Len(log')]
           /\ \A tick \in ticks : tick.upTo <= Len(log')
           /\ ~HasStarted /\ e # Started => ~HasStarted'
  <1>1. Len(log) \in Nat /\ Len(log') = Len(log) + 1
    BY Appended
  <1>2. view.shown \subseteq 1 .. Len(log') /\ view.last \in 0 .. Len(log')
    BY <1>1 DEF Typed, TypeOK
  <1>3. view \in [status : Statuses, shown : SUBSET (1 .. Len(log')), last : 0 .. Len(log')]
    BY <1>2 DEF Typed, TypeOK
  <1>4. \A tick \in ticks : tick.upTo <= Len(log')
    BY <1>1 DEF Typed, TypeOK, ReadsWhatIs, Tick
  <1>5. ~HasStarted /\ e # Started => ~HasStarted'
    BY Appended DEF HasStarted
  <1> QED
    BY <1>3, <1>4, <1>5

-----------------------------------------------------------------------------
(* The API.                                                                 *)

LEMMA DispatchTyped ==
    ASSUME Typed,
           CreateRun \/ NoRunner \/ Unhydrated \/ Dispatch \/ Answered \/ AccountForBreak \/ Breaks \/ Cancel
    PROVE  Typed'
  <1> USE DEF Typed, TypeOK, RunnerWalks, RowFirst, ReadsWhatIs, HasStarted
  <1>1. CASE CreateRun
    BY <1>1 DEF CreateRun, Statuses
  <1>2. CASE Unhydrated \/ Answered \/ Breaks
    BY <1>2 DEF Unhydrated, Answered, Breaks
  <1>3. CASE Dispatch
    <2>1. runner' \in Runner /\ runner' \in {runner, [runner EXCEPT !.pc = "started"]} /\ runner.pc = "off"
      BY <1>3 DEF Dispatch, Runner
    <2>2. view' \in [status : Statuses, shown : SUBSET (1 .. Len(log)), last : 0 .. Len(log)]
      BY <1>3 DEF Dispatch, Statuses
    <2> QED
      BY <1>3, <2>1, <2>2 DEF Dispatch, Runner
  <1>4. CASE Cancel
    <2>1. cancel' \in [in : {"none", "queued", "running"}, nodes : 0 .. NumNodes] /\ cancel'.nodes <= cancel.nodes
      BY <1>4 DEF Cancel
    <2> QED
      BY <1>4, <2>1 DEF Cancel, Statuses, Outcomes, Runner
  <1>5. ASSUME NoRunner \/ AccountForBreak PROVE Typed'
    <2>1. Finished("failed") \in Events /\ Finished("failed") # Started
      BY EventsDiffer DEF Outcomes
    <2>2. AppendEvent(Finished("failed"))
      BY <1>5 DEF NoRunner, AccountForBreak
    <2> HIDE DEF Typed, TypeOK, RunnerWalks, RowFirst, ReadsWhatIs, HasStarted
    <2>3. /\ log' \in Seq(Events) /\ token' \in BOOLEAN /\ status' \in Statuses \ {"none"}
          /\ ~HasStarted => ~HasStarted'
          /\ \A tick \in ticks : tick.upTo <= Len(log')
          /\ view \in [status : Statuses, shown : SUBSET (1 .. Len(log')), last : 0 .. Len(log')]
      <3>1. status # "none"
        BY <1>5 DEF NoRunner, AccountForBreak, Typed, RowFirst
      <3> QED
        BY <3>1, <2>1, <2>2, Appended, LogGrows DEF Typed, TypeOK
    <2>4. view' \in [status : Statuses, shown : SUBSET (1 .. Len(log')), last : 0 .. Len(log')]
      BY <1>5, <2>3 DEF NoRunner, AccountForBreak, Statuses, Outcomes
    <2>5. TypeOK'
      BY <1>5, <2>3, <2>4 DEF NoRunner, AccountForBreak, Typed, TypeOK
    <2>6. RunnerWalks' /\ RowFirst' /\ ReadsWhatIs'
      BY <1>5, <2>3 DEF NoRunner, AccountForBreak, Typed, RunnerWalks, RowFirst, ReadsWhatIs
    <2> QED
      BY <2>5, <2>6 DEF Typed
  <1> QED
    BY <1>1, <1>2, <1>3, <1>4, <1>5

(* The reports.                                                             *)

(* A handler goes on; whose report it is does not change.                   *)
LEMMA HandlerGoesOn ==
    ASSUME Typed, NEW report \in reports, NEW pc \in {"append", "answer"}, NEW run \in Statuses
    PROVE  /\ [report EXCEPT !.pc = pc] \in Report /\ [report EXCEPT !.pc = pc, !.run = run] \in Report
           /\ [report EXCEPT !.pc = pc].no = report.no /\ [report EXCEPT !.pc = pc].event = report.event
           /\ [report EXCEPT !.pc = pc].pc = pc
           /\ [report EXCEPT !.pc = pc, !.run = run].no = report.no
           /\ [report EXCEPT !.pc = pc, !.run = run].event = report.event
           /\ [report EXCEPT !.pc = pc, !.run = run].pc = pc
  BY DEF Typed, TypeOK, Report

LEMMA AuthoriseTyped ==
    ASSUME Typed, NEW report \in reports, Authorise(report)
    PROVE  Typed'
  <1> USE DEF Authorise
  <1>1. runner' \in Runner /\ runner' \in {runner, [runner EXCEPT !.waiting = FALSE]}
    BY DEF Typed, TypeOK, Runner
  <1>2. reports' \subseteq Report
    <2>1. status \in Statuses /\ [report EXCEPT !.pc = "append", !.run = status] \in Report
      BY HandlerGoesOn DEF Typed, TypeOK
    <2> QED
      BY <2>1 DEF Typed, TypeOK, Step
  <1>3. TypeOK'
    BY <1>1, <1>2 DEF Typed, TypeOK
  <1>4. reports # {}
    OBVIOUS
  <1> QED
    BY <1>1, <1>3, <1>4 DEF Typed, TypeOK, Runner, RunnerWalks, RowFirst, ReadsWhatIs, HasStarted

LEMMA RecordTyped ==
    ASSUME Typed, NEW report \in reports, Record(report)
    PROVE  Typed'
  <1> USE DEF Record
  <1>1. report.event \in Events /\ AppendEvent(report.event)
    BY DEF Typed, TypeOK, Report
  <1>2. runner.pc \notin {"off", "started"} /\ status # "none"
    BY DEF Typed, RunnerWalks, RowFirst
  <1>3. reports' \subseteq Report
    <2>1. [report EXCEPT !.pc = "answer"] \in Report
      BY HandlerGoesOn DEF Typed, TypeOK
    <2> QED
      BY <2>1 DEF Typed, TypeOK
  <1>4. log' \in Seq(Events) /\ token' \in BOOLEAN /\ status' \in Statuses \ {"none"}
    BY <1>1, <1>2, Appended DEF Typed, TypeOK
  <1>5. /\ \A tick \in ticks : tick.upTo <= Len(log')
        /\ view \in [status : Statuses, shown : SUBSET (1 .. Len(log')), last : 0 .. Len(log')]
    BY <1>1, LogGrows
  <1>6. TypeOK'
    BY <1>3, <1>4, <1>5 DEF Typed, TypeOK
  <1> QED
    BY <1>2, <1>4, <1>5, <1>6 DEF Typed, RunnerWalks, RowFirst, ReadsWhatIs

LEMMA AnswerTyped ==
    ASSUME Typed, NEW report \in reports, Answer(report)
    PROVE  Typed'
  <1> USE DEF Answer
  <1>1. /\ runner' \in Runner
        /\ \/ runner' \in {runner, [runner EXCEPT !.waiting = FALSE]}
           \/ runner'.pc = "finish"
    BY DEF Typed, TypeOK, Runner, Stopped, Outcomes
  <1>2. TypeOK'
    BY <1>1 DEF Typed, TypeOK
  <1>3. reports # {}
    OBVIOUS
  <1> QED
    BY <1>1, <1>2, <1>3 DEF Typed, TypeOK, Runner, RunnerWalks, RowFirst, ReadsWhatIs, HasStarted

-----------------------------------------------------------------------------
(* The runner.                                                              *)

(* What a report that is sent leaves behind.                                *)
LEMMA Sent ==
    ASSUME Typed, NEW e \in Events, NEW pc \in {"begin", "run", "finish", "done"},
           runner.pc = "end" => runner.node <= NumNodes, Send(e, pc)
    PROVE  /\ reports' \subseteq Report
           /\ runner' \in Runner /\ runner'.pc = pc /\ runner'.outcome = runner.outcome
           /\ runner'.node = IF runner.pc = "end" THEN runner.node + 1 ELSE runner.node
  <1>1. [no |-> runner.next, event |-> e, pc |-> "arriving", run |-> "none"] \in Report
    BY DEF Typed, TypeOK, Report, Runner, Statuses
  <1>2. (IF runner.pc = "end" THEN runner.node + 1 ELSE runner.node) \in 1 .. NumNodes + 1
    BY DEF Typed, TypeOK, Runner
  <1>3. reports' \subseteq Report
    BY <1>1 DEF Send, Typed, TypeOK
  <1> DEFINE node == IF runner.pc = "end" THEN runner.node + 1 ELSE runner.node
  <1>4. runner' = [runner EXCEPT !.waiting = TRUE, !.next = runner.next + 1, !.pc = pc, !.node = node]
    BY DEF Send
  <1>5. runner \in Runner /\ runner.next + 1 \in Nat /\ node \in 1 .. NumNodes + 1
    BY <1>2 DEF Typed, TypeOK, Runner
  <1> HIDE DEF node
  <1>6. runner' \in Runner /\ runner'.pc = pc /\ runner'.outcome = runner.outcome /\ runner'.node = node
    BY <1>4, <1>5 DEF Runner
  <1> QED
    BY <1>3, <1>6 DEF node

LEMMA RunnerTyped ==
    ASSUME Typed, ReportStarted \/ ReportNodeStarted \/ ReportNodeFinished \/ ReportFinished
    PROVE  Typed'
  <1>1. PICK e \in Events, pc \in {"begin", "run", "finish", "done"} :
           /\ Send(e, pc)
           /\ UNCHANGED <<status, token, log, dispatch, givenUp, view, ticks, cancel>>
           /\ runner.pc \notin {"off", "dead", "run"}
           /\ pc = "begin" => /\ runner.pc \in {"started", "end"}
                              /\ runner.pc = "started" => 1 <= NumNodes
                              /\ runner.pc = "end" => runner.node + 1 <= NumNodes
           /\ pc = "run" => runner.pc = "begin"
    <2>1. CASE ReportStarted
      BY <2>1, EventsDiffer DEF ReportStarted, Alive, Begun
    <2>2. CASE ReportNodeStarted
      BY <2>2, EventsDiffer DEF ReportNodeStarted, Alive
    <2>3. CASE ReportNodeFinished
      BY <2>3, EventsDiffer DEF ReportNodeFinished, Alive, Begun, Typed, TypeOK, Runner
    <2>4. CASE ReportFinished
      BY <2>4, EventsDiffer DEF ReportFinished, Alive, Typed, TypeOK, Runner
    <2> QED
      BY <2>1, <2>2, <2>3, <2>4
  <1>2. /\ reports' \subseteq Report
        /\ runner' \in Runner /\ runner'.pc = pc /\ runner'.outcome = runner.outcome
        /\ runner'.node = IF runner.pc = "end" THEN runner.node + 1 ELSE runner.node
    BY <1>1, Sent DEF Typed, RunnerWalks
  <1>3. TypeOK'
    BY <1>1, <1>2 DEF Typed, TypeOK
  <1>4. RunnerWalks'
    BY <1>1, <1>2, <1>3 DEF Typed, TypeOK, RunnerWalks, Runner
  <1> QED
    BY <1>1, <1>2, <1>3, <1>4 DEF Typed, RowFirst, ReadsWhatIs

LEMMA RunNodeTyped ==
    ASSUME Typed, RunNode
    PROVE  Typed'
  <1> USE DEF RunNode
  <1>1. runner.pc = "run" /\ runner.node \in 1 .. NumNodes /\ cancel.nodes \in 0 .. NumNodes
        /\ cancel.nodes <= runner.node - 1
    BY DEF Typed, TypeOK, Runner, RunnerWalks
  <1>2. /\ cancel' \in [in : {"none", "queued", "running"}, nodes : 0 .. NumNodes]
        /\ cancel'.nodes <= runner.node
    BY <1>1 DEF Typed, TypeOK
  <1>3. /\ runner' \in Runner /\ reports' \subseteq Report /\ runner'.node = runner.node
        /\ runner'.pc \in {"end", "finish"} /\ (runner'.pc = "end" => runner'.outcome = runner.outcome)
    <2>1. CASE runner' = [runner EXCEPT !.pc = "end"] /\ UNCHANGED reports
      BY <2>1 DEF Typed, TypeOK, Runner
    <2>2. CASE /\ reports' = reports \cup {[no |-> runner.next, event |-> NodeEvent,
                                            pc |-> "arriving", run |-> "none"]}
               /\ runner' = [runner EXCEPT !.waiting = TRUE, !.next = @ + 1,
                                           !.pc = "finish", !.outcome = "failed"]
      <3>1. [no |-> runner.next, event |-> NodeEvent, pc |-> "arriving", run |-> "none"] \in Report
        BY EventsDiffer DEF Typed, TypeOK, Report, Runner, Statuses
      <3>2. runner \in Runner /\ runner.next + 1 \in Nat
        BY DEF Typed, TypeOK, Runner
      <3>3. reports' \subseteq Report
        BY <2>2, <3>1 DEF Typed, TypeOK
      <3> QED
        BY <2>2, <3>2, <3>3 DEF Runner, Outcomes
    <2> QED
      BY <2>1, <2>2
  <1>4. TypeOK'
    BY <1>2, <1>3 DEF Typed, TypeOK
  <1> QED
    BY <1>1, <1>2, <1>3, <1>4 DEF Typed, RunnerWalks, RowFirst, ReadsWhatIs

LEMMA RunnerLostTyped ==
    ASSUME Typed, GiveUp \/ Die
    PROVE  Typed'
  <1>1. runner' \in Runner /\ reports' \subseteq reports
    BY DEF GiveUp, Die, Typed, TypeOK, Runner
  <1>2. \/ runner' = [runner EXCEPT !.waiting = FALSE] /\ runner.waiting
        \/ runner'.pc = "dead"
    BY DEF GiveUp, Die, Typed, TypeOK, Runner
  <1>3. TypeOK'
    BY <1>1 DEF GiveUp, Die, Typed, TypeOK
  <1>4. UNCHANGED <<status, token, log, dispatch, view, ticks, cancel>> /\ runner.pc # "off"
    BY DEF GiveUp, Die, Typed, RunnerWalks
  <1> QED
    BY <1>1, <1>2, <1>3, <1>4 DEF Typed, TypeOK, Runner, RunnerWalks, RowFirst, ReadsWhatIs, HasStarted

-----------------------------------------------------------------------------
(* The page.                                                                *)

LEMMA PageTyped ==
    ASSUME Typed, Page
    PROVE  Typed'
  <1>0. Len(log) \in Nat /\ view.last \in Nat /\ \A tick \in ticks : tick.upTo \in Nat /\ tick.after \in Nat
    BY DEF Typed, TypeOK, Tick
  <1>1. CASE StartTick
    <2>1. PICK no \in 1 .. MaxTicks :
             ticks' = ticks \cup {[no |-> no, pc |-> "status", after |-> view.last, status |-> "none", upTo |-> 0]}
      BY <1>1 DEF StartTick
    <2>2. [no |-> no, pc |-> "status", after |-> view.last, status |-> "none", upTo |-> 0] \in Tick
      BY <1>0 DEF Tick, Statuses
    <2>3. ticks' \subseteq Tick
      BY <2>1, <2>2 DEF Typed, TypeOK
    <2>4. ReadsWhatIs'
      BY <1>0, <1>1, <2>1 DEF StartTick, Typed, ReadsWhatIs
    <2> QED
      BY <1>1, <2>3, <2>4 DEF StartTick, Typed, TypeOK, RunnerWalks, RowFirst, HasStarted
  <1>2. ASSUME NEW tick \in ticks, ReadStatus(tick) \/ ReadEvents(tick) PROVE Typed'
    <2> DEFINE end == IF Len(log) > tick.after + Limit THEN tick.after + Limit ELSE Len(log)
    <2>1. end \in Nat /\ end <= Len(log)
      BY <1>0
    <2>2. PICK read \in Tick :
             ticks' = (ticks \ {tick}) \cup {read} /\ read.upTo <= Len(log)
      <3>1. CASE ReadStatus(tick)
        <4>1. [tick EXCEPT !.pc = "events", !.status = status] \in Tick
          BY DEF Typed, TypeOK, Tick
        <4>2. [tick EXCEPT !.pc = "events", !.status = status].upTo = tick.upTo
          BY DEF Typed, TypeOK, Tick
        <4> QED
          BY <3>1, <4>1, <4>2 DEF ReadStatus, Typed, ReadsWhatIs
      <3>2. CASE ReadEvents(tick)
        <4>1. ticks' = (ticks \ {tick}) \cup {[tick EXCEPT !.pc = "answer", !.upTo = end]}
          BY <3>2 DEF ReadEvents
        <4> HIDE DEF end
        <4>2. [tick EXCEPT !.pc = "answer", !.upTo = end] \in Tick
          BY <2>1 DEF Typed, TypeOK, Tick
        <4>3. [tick EXCEPT !.pc = "answer", !.upTo = end].upTo = end
          BY DEF Typed, TypeOK, Tick
        <4> QED
          BY <4>1, <4>2, <4>3, <2>1
      <3> QED
        BY <1>2, <3>1, <3>2
    <2>3. UNCHANGED <<status, token, log, dispatch, runner, reports, givenUp, view, cancel>>
      BY <1>2 DEF ReadStatus, ReadEvents
    <2> QED
      BY <2>2, <2>3 DEF Typed, TypeOK, RunnerWalks, RowFirst, HasStarted, ReadsWhatIs
  <1>3. ASSUME NEW tick \in ticks, ReceiveTick(tick) PROVE Typed'
    <2>1. tick \in Tick /\ tick.upTo <= Len(log)
      BY DEF Typed, TypeOK, ReadsWhatIs
    <2>2. Shown(tick) \in [status : Statuses, shown : SUBSET (1 .. Len(log)), last : 0 .. Len(log)]
      <3>1. view.shown \cup (tick.after + 1 .. tick.upTo) \subseteq 1 .. Len(log)
        BY <1>0, <2>1 DEF Typed, TypeOK
      <3>2. (IF tick.upTo > tick.after THEN tick.upTo ELSE view.last) \in 0 .. Len(log)
        BY <1>0, <2>1 DEF Typed, TypeOK
      <3> QED
        BY <2>1, <3>1, <3>2 DEF Shown, Typed, TypeOK, Tick
    <2> QED
      BY <1>3, <2>2 DEF ReceiveTick, Typed, TypeOK, RunnerWalks, RowFirst, HasStarted, ReadsWhatIs
  <1> QED
    BY <1>1, <1>2, <1>3 DEF Page

LEMMA NextTyped == Typed /\ [Next]_vars => Typed'
  <1> SUFFICES ASSUME Typed, [Next]_vars PROVE Typed'
    OBVIOUS
  <1>1. CASE CreateRun \/ NoRunner \/ Unhydrated \/ Dispatch \/ Answered \/ AccountForBreak \/ Breaks \/ Cancel
    BY <1>1, DispatchTyped
  <1>2. ASSUME NEW report \in reports, Authorise(report) \/ Record(report) \/ Answer(report) PROVE Typed'
    BY <1>2, AuthoriseTyped, RecordTyped, AnswerTyped
  <1>3. CASE RunnerStep
    BY <1>3, RunnerTyped, RunNodeTyped DEF RunnerStep
  <1>4. CASE GiveUp \/ Die
    BY <1>4, RunnerLostTyped
  <1>5. CASE Page
    BY <1>5, PageTyped
  <1>6. CASE UNCHANGED vars
    BY <1>6 DEF vars, Typed, TypeOK, RunnerWalks, RowFirst, HasStarted, ReadsWhatIs
  <1> QED
    BY <1>1, <1>2, <1>3, <1>4, <1>5, <1>6 DEF Next, Api

LEMMA AlwaysTyped == Spec => []Typed
  BY InitTyped, NextTyped, PTL DEF Spec

(* Whatever breaks, is cancelled or is given up on, every variable keeps    *)
(* its type: the page shows no event the log does not have, and no more     *)
(* nodes begin than the graph has.                                          *)
THEOREM TypeCorrect == Spec => []TypeOK
  <1>1. Typed => TypeOK
    BY DEF Typed
  <1> QED
    BY <1>1, AlwaysTyped, PTL

-----------------------------------------------------------------------------
(* What the page has seen.                                                  *)

(* All that was before a poll, and before the next one, has been shown.     *)
ShownSoFar ==
    /\ 1 .. view.last \subseteq view.shown
    /\ \A tick \in ticks : 1 .. tick.after \subseteq view.shown

Watched == ShownSoFar /\ WatcherSkipsNothing

LEMMA NextWatched == Typed /\ Watched /\ [Next]_vars => Watched'
  <1> SUFFICES ASSUME Typed, Watched, [Next]_vars PROVE Watched'
    OBVIOUS
  <1> USE DEF Watched, ShownSoFar, WatcherSkipsNothing
  <1>0. Len(log) \in Nat /\ view.last \in Nat /\ view.shown \subseteq Nat
        /\ \A tick \in ticks : tick.upTo \in Nat /\ tick.after \in Nat
    BY DEF Typed, TypeOK, Tick
  <1>1. CASE UNCHANGED ticks /\ view' \in {view, [view EXCEPT !.status = "failed"], [view EXCEPT !.status = "queued"]}
    <2>1. view'.shown = view.shown /\ view'.last = view.last
      BY <1>1 DEF Typed, TypeOK
    <2> QED
      BY <1>1, <2>1
  <1>2. CASE StartTick
    BY <1>2 DEF StartTick
  <1>3. ASSUME NEW tick \in ticks, ReadStatus(tick) \/ ReadEvents(tick) PROVE Watched'
    <2>1. PICK read : ticks' = (ticks \ {tick}) \cup {read} /\ read.after = tick.after
      <3>1. \A pc, s, n : /\ [tick EXCEPT !.pc = pc, !.status = s].after = tick.after
                         /\ [tick EXCEPT !.pc = pc, !.upTo = n].after = tick.after
        BY DEF Typed, TypeOK, Tick
      <3>2. CASE ReadStatus(tick)
        BY <3>1, <3>2 DEF ReadStatus
      <3>3. CASE ReadEvents(tick)
        <4> DEFINE end == IF Len(log) > tick.after + Limit THEN tick.after + Limit ELSE Len(log)
        <4>1. ticks' = (ticks \ {tick}) \cup {[tick EXCEPT !.pc = "answer", !.upTo = end]}
          BY <3>3 DEF ReadEvents
        <4> HIDE DEF end
        <4>2. [tick EXCEPT !.pc = "answer", !.upTo = end].after = tick.after
          BY <3>1
        <4> QED
          BY <4>1, <4>2, Zenon
      <3> QED
        BY <1>3, <3>2, <3>3
    <2> QED
      BY <1>3, <2>1 DEF ReadStatus, ReadEvents
  <1>4. ASSUME NEW tick \in ticks, ReceiveTick(tick) PROVE Watched'
    <2>1. /\ view'.shown = view.shown \cup (tick.after + 1 .. tick.upTo)
          /\ view'.last = IF tick.upTo > tick.after THEN tick.upTo ELSE view.last
      BY <1>4 DEF ReceiveTick, Shown, Typed, TypeOK
    <2>2. ticks' \subseteq ticks
      BY <1>4 DEF ReceiveTick
    <2>3. 1 .. tick.after \subseteq view.shown
      OBVIOUS
    <2>4. \A i \in 1 .. tick.upTo : i \in view'.shown
      <3> SUFFICES ASSUME NEW i \in 1 .. tick.upTo PROVE i \in view'.shown
        OBVIOUS
      <3>1. CASE i <= tick.after
        BY <1>0, <2>1, <2>3, <3>1
      <3>2. CASE ~(i <= tick.after)
        BY <1>0, <2>1, <3>2
      <3> QED
        BY <3>1, <3>2
    <2>5. 1 .. view'.last \subseteq view'.shown
      BY <1>0, <2>1, <2>4
    <2>6. ASSUME NEW i \in view'.shown, NEW j \in 1 .. i PROVE j \in view'.shown
      <3>1. CASE i \in view.shown
        BY <2>1, <2>6, <3>1
      <3>2. CASE i \in tick.after + 1 .. tick.upTo
        <4>1. j \in 1 .. tick.upTo
          BY <1>0, <2>6, <3>2
        <4> QED
          BY <4>1, <2>4
      <3> QED
        BY <2>1, <2>6, <3>1, <3>2
    <2> QED
      BY <2>1, <2>2, <2>5, <2>6
  <1>5. \/ UNCHANGED ticks /\ view' \in {view, [view EXCEPT !.status = "failed"], [view EXCEPT !.status = "queued"]}
        \/ StartTick
        \/ \E tick \in ticks : ReadStatus(tick) \/ ReadEvents(tick) \/ ReceiveTick(tick)
    <2>1. CASE Api
      BY <2>1 DEF Api, NoRunner, Unhydrated, Dispatch, Answered, AccountForBreak, Breaks, Authorise, Record, Answer
    <2>2. CASE RunnerStep
      BY <2>2 DEF RunnerStep, ReportStarted, ReportNodeStarted, RunNode, ReportNodeFinished, ReportFinished
    <2>3. CASE CreateRun \/ Breaks \/ Cancel \/ GiveUp \/ Die \/ UNCHANGED vars
      BY <2>3 DEF CreateRun, Breaks, Cancel, GiveUp, Die, vars
    <2> QED
      BY <2>1, <2>2, <2>3 DEF Next, Page
  <1> QED
    BY <1>1, <1>2, <1>3, <1>4, <1>5

-----------------------------------------------------------------------------
(* The row and the log.                                                     *)

Says(event) == IF event = Started THEN "running" ELSE event.outcome

(* The choice of the last of some numbers is no choice.                     *)
LEMMA TheLast ==
    ASSUME NEW S \in SUBSET Nat, NEW i \in S, \A j \in S : j <= i
    PROVE  (CHOOSE k \in S : \A j \in S : j <= k) = i
  <1>1. \A k \in S : (\A j \in S : j <= k) => k = i
    OBVIOUS
  <1> QED
    BY <1>1

(* There is a last one.                                                     *)
LEMMA ThereIsALast ==
    ASSUME log \in Seq(Events), Lifecycle # {}
    PROVE  \E i \in Lifecycle : \A j \in Lifecycle : j <= i
  <1>1. Lifecycle \subseteq 1 .. Len(log) /\ Len(log) \in Nat
    BY DEF Lifecycle
  <1> DEFINE Back == {Len(log) - i : i \in Lifecycle}
  <1>2. Back \in SUBSET Nat /\ Back # {}
    <2>1. \A i \in 1 .. Len(log) : Len(log) - i \in Nat
      BY <1>1
    <2> QED
      BY <1>1, <2>1
  <1>3. PICK b \in Back : \A c \in Back : b <= c
    BY <1>2, LeastNumber
  <1>4. PICK i \in Lifecycle : b = Len(log) - i
    OBVIOUS
  <1>5. ASSUME NEW j \in Lifecycle PROVE j <= i
    <2>1. Len(log) - i <= Len(log) - j
      BY <1>3, <1>4
    <2>2. i \in Int /\ j \in Int /\ Len(log) \in Int
      BY <1>1
    <2> QED
      BY <2>1, <2>2
  <1> QED
    BY <1>5

LEMMA AppendSays ==
    ASSUME Typed, NEW e \in Events, AppendEvent(e)
    PROVE  LogSays' = IF e = NodeEvent THEN LogSays ELSE Says(e)
  <1> DEFINE L == Lifecycle
             M == Lifecycle'
             new == Len(log) + 1
  <1>1. /\ log \in Seq(Events) /\ log' \in Seq(Events) /\ Len(log) \in Nat
        /\ DOMAIN log' = DOMAIN log \union {new} /\ DOMAIN log = 1 .. Len(log)
        /\ \A i \in DOMAIN log : log'[i] = log[i]
        /\ log'[new] = e
    BY Appended
  <1>2. L \subseteq 1 .. Len(log) /\ M = IF e = NodeEvent THEN L ELSE L \union {new}
    BY <1>1 DEF Lifecycle
  <1>3. CASE e # NodeEvent
    <2>1. new \in M /\ \A j \in M : j <= new
      BY <1>1, <1>2, <1>3
    <2>2. LastLifecycle' = new
      <3> HIDE DEF M
      <3>1. M \in SUBSET Nat
        <4>1. new \in Nat /\ L \subseteq Nat
          BY <1>1, <1>2
        <4> HIDE DEF L, new
        <4> QED
          BY <4>1, <1>2
      <3>2. (CHOOSE k \in M : \A j \in M : j <= k) = new
        BY <2>1, <3>1, TheLast
      <3> QED
        BY <3>2 DEF M, LastLifecycle
    <2> QED
      BY <2>1, <2>2, <1>1, <1>3 DEF LogSays, Says
  <1>4. CASE e = NodeEvent /\ L = {}
    BY <1>2, <1>4 DEF LogSays
  <1>5. CASE e = NodeEvent /\ L # {}
    <2>1. PICK i \in L : \A j \in L : j <= i
      BY <1>1, <1>5, ThereIsALast
    <2>2. M = L /\ L \in SUBSET Nat
      BY <1>1, <1>2, <1>5
    <2>3. LastLifecycle = i
      BY <2>1, <2>2, TheLast DEF LastLifecycle
    <2>4. LastLifecycle' = i
      BY <2>2, <2>3 DEF LastLifecycle
    <2> QED
      BY <2>1, <2>2, <2>3, <2>4, <1>1, <1>2, <1>5 DEF LogSays
  <1> QED
    BY <1>3, <1>4, <1>5

(* The row follows the log, but for a cancel.                               *)
LEMMA NextMirrors == Typed /\ MirrorsTheLog /\ [Next]_vars => MirrorsTheLog'
  <1> SUFFICES ASSUME Typed, MirrorsTheLog, [Next]_vars PROVE MirrorsTheLog'
    OBVIOUS
  <1>1. ASSUME NEW e \in Events, AppendEvent(e), UNCHANGED cancel, status # "none" PROVE MirrorsTheLog'
    <2>1. LogSays' = IF e = NodeEvent THEN LogSays ELSE Says(e)
      BY <1>1, AppendSays
    <2>2. CASE e = NodeEvent
      BY <1>1, <2>1, <2>2 DEF AppendEvent, MirrorsTheLog, NodeEvent, Event
    <2>3. CASE e = Started
      BY <1>1, <2>1, <2>3 DEF AppendEvent, MirrorsTheLog, NodeEvent, Started, Event, Says
    <2>4. CASE \E o \in Outcomes : e = Finished(o)
      BY <1>1, <2>1, <2>4, EventsDiffer DEF AppendEvent, MirrorsTheLog, Finished, Event, Says
    <2> QED
      BY <2>2, <2>3, <2>4, EventsDiffer
  <1>2. CASE UNCHANGED <<log, status, cancel>>
    BY <1>2 DEF MirrorsTheLog, LogSays, LastLifecycle, Lifecycle
  <1>3. CASE CreateRun
    <2>1. Lifecycle' = {}
      BY <1>3 DEF CreateRun, Typed, RowFirst, Lifecycle
    <2> QED
      BY <1>3, <2>1 DEF CreateRun, MirrorsTheLog, LogSays
  <1>4. CASE Cancel
    <2>1. LogSays' = LogSays
      BY <1>4 DEF Cancel, LogSays, LastLifecycle, Lifecycle
    <2>2. cancel'.in # "none"
      BY <1>4 DEF Cancel, Typed, TypeOK
    <2> QED
      BY <1>4, <2>1, <2>2 DEF Cancel, MirrorsTheLog, Over, Outcomes
  <1>5. CASE RunNode
    <2>1. cancel'.in = cancel.in /\ LogSays' = LogSays /\ status' = status
      BY <1>5 DEF RunNode, LogSays, LastLifecycle, Lifecycle, Typed, TypeOK
    <2> QED
      BY <2>1 DEF MirrorsTheLog
  <1>6. CASE NoRunner \/ AccountForBreak
    BY <1>1, <1>6, EventsDiffer DEF NoRunner, AccountForBreak, Outcomes, Typed, RowFirst
  <1>7. ASSUME NEW report \in reports, Record(report) PROVE MirrorsTheLog'
    <2>1. report.event \in Events /\ status # "none"
      BY DEF Typed, TypeOK, Report, RunnerWalks, RowFirst
    <2> QED
      BY <1>1, <1>7, <2>1 DEF Record
  <1>8. \/ UNCHANGED <<log, status, cancel>> \/ CreateRun \/ Cancel \/ RunNode \/ NoRunner \/ AccountForBreak
        \/ \E report \in reports : Record(report)
    BY DEF Next, Api, RunnerStep, Page, Unhydrated, Dispatch, Answered, Breaks, Authorise, Answer,
           ReportStarted, ReportNodeStarted, ReportNodeFinished, ReportFinished, GiveUp, Die,
           StartTick, ReadStatus, ReadEvents, ReceiveTick, vars
  <1> QED
    BY <1>2, <1>3, <1>4, <1>5, <1>6, <1>7, <1>8

(* The row says what the last lifecycle event of the log says, or that a    *)
(* cancel was accepted after it; and a page that watches, however its polls *)
(* overlap and however many events one answer carries, skips none.          *)
THEOREM TheLogIsTold == Spec => []LogIsTold
  <1>1. Init => Watched /\ MirrorsTheLog
    BY DEF Init, Watched, ShownSoFar, WatcherSkipsNothing, MirrorsTheLog
  <1>2. Typed /\ (Watched /\ MirrorsTheLog) /\ [Next]_vars => (Watched /\ MirrorsTheLog)'
    BY NextWatched, NextMirrors
  <1>3. Watched /\ MirrorsTheLog => LogIsTold
    BY DEF Watched, LogIsTold
  <1> QED
    BY <1>1, <1>2, <1>3, AlwaysTyped, PTL DEF Spec

-----------------------------------------------------------------------------
(* How much may still come after a run's end.                               *)

HasFinished == \E i \in DOMAIN log : log[i].type = "run.finished"
Appending   == {report \in reports : report.pc = "append"}

(* The report whose answer the runner waits for, or died waiting for.       *)
AwaitedOne == IF runner.waiting \/ runner.pc = "dead" THEN 1 ELSE 0

(* The dispatch may still have a run.finished of its own to add.            *)
MayAccount == IF dispatch = "done" THEN 0 ELSE 1

FewReports == IsFiniteSet(reports) /\ Cardinality(reports) <= givenUp + AwaitedOne

(* After the end of the run no report is let in, and those that were in are *)
(* counted.                                                                 *)
EndsSoon ==
    /\ HasFinished => ~token /\ dispatch # "none"
    /\ \A i \in DOMAIN log : log[i].type = "run.finished" =>
          (Len(log) - i) + Cardinality(Appending) + MayAccount <= 2 + givenUp

LEMMA InitFew == Init => FewReports /\ EndsSoon
  BY FS_EmptySet DEF Init, FewReports, EndsSoon, HasFinished, AwaitedOne

(* The handlers at work are finitely many, of which some append.            *)
LEMMA Counts ==
    ASSUME Typed, FewReports
    PROVE  /\ IsFiniteSet(Appending) /\ Cardinality(Appending) \in Nat /\ Cardinality(reports) \in Nat
           /\ Cardinality(Appending) <= Cardinality(reports)
           /\ givenUp \in Nat /\ AwaitedOne \in {0, 1} /\ Len(log) \in Nat
  <1>1. Appending \in SUBSET reports
    BY DEF Appending
  <1> QED
    BY <1>1, FS_Subset, FS_CardinalityType DEF FewReports, AwaitedOne, Typed, TypeOK

(* One handler goes on to another step, or ends.                            *)
LEMMA StaysFew ==
    ASSUME IsFiniteSet(reports), NEW report \in reports, NEW next
    PROVE  /\ IsFiniteSet((reports \ {report}) \cup {next})
           /\ Cardinality((reports \ {report}) \cup {next}) <= Cardinality(reports)
           /\ IsFiniteSet(reports \ {report})
           /\ Cardinality(reports \ {report}) = Cardinality(reports) - 1
           /\ Cardinality(reports) \in Nat
  <1>1. /\ IsFiniteSet(reports \ {report})
        /\ Cardinality(reports \ {report}) = Cardinality(reports) - 1
    BY FS_RemoveElement
  <1>2. /\ IsFiniteSet((reports \ {report}) \cup {next})
        /\ Cardinality((reports \ {report}) \cup {next}) =
               IF next \in reports \ {report} THEN Cardinality(reports \ {report}) ELSE Cardinality(reports \ {report}) + 1
    BY <1>1, FS_AddElement
  <1>3. Cardinality(reports) \in Nat
    BY FS_CardinalityType
  <1> QED
    BY <1>1, <1>2, <1>3

LEMMA NextFew == Typed /\ FewReports /\ [Next]_vars => FewReports'
  <1> SUFFICES ASSUME Typed, FewReports, [Next]_vars PROVE FewReports'
    OBVIOUS
  <1>0. Cardinality(reports) \in Nat /\ givenUp \in Nat /\ AwaitedOne \in {0, 1} /\ IsFiniteSet(reports)
        /\ Cardinality(reports) <= givenUp + AwaitedOne
    BY Counts DEF FewReports
  <1>1. ASSUME NEW report \in reports, Authorise(report) \/ Record(report) \/ Answer(report) PROVE FewReports'
    <2>1. \/ \E next : reports' = (reports \ {report}) \cup {next} /\ UNCHANGED runner
          \/ reports' = reports \ {report}
      BY <1>1 DEF Authorise, Record, Answer, Step
    <2>2. IsFiniteSet(reports') /\ Cardinality(reports') <= Cardinality(reports)
      <3>1. CASE \E next : reports' = (reports \ {report}) \cup {next}
        BY <3>1, <1>0, StaysFew
      <3>2. CASE reports' = reports \ {report}
        <4>1. IsFiniteSet(reports') /\ Cardinality(reports') = Cardinality(reports) - 1
          BY <3>2, <1>0, FS_RemoveElement
        <4> QED
          BY <4>1, <1>0
      <3> QED
        BY <2>1, <3>1, <3>2
    <2>3. Cardinality(reports') = Cardinality(reports) - 1 \/ UNCHANGED runner
      BY <2>1, <1>0, StaysFew
    <2>4. UNCHANGED givenUp /\ Cardinality(reports') \in Nat
      BY <1>1, <2>2, FS_CardinalityType DEF Authorise, Record, Answer
    <2>5. AwaitedOne' \in {0, 1}
      BY DEF AwaitedOne
    <2>6. UNCHANGED runner => AwaitedOne' = AwaitedOne
      BY DEF AwaitedOne
    <2> QED
      BY <2>2, <2>3, <2>4, <2>5, <2>6, <1>0 DEF FewReports
  <1>2. ASSUME NEW new, reports' = reports \cup {new}, UNCHANGED givenUp,
               ~runner.waiting, runner.pc # "dead", runner'.waiting
        PROVE  FewReports'
    <2>1. IsFiniteSet(reports') /\ Cardinality(reports') <= Cardinality(reports) + 1
      BY <1>2, <1>0, FS_AddElement
    <2>2. AwaitedOne = 0 /\ AwaitedOne' = 1
      BY <1>2 DEF AwaitedOne
    <2> QED
      BY <2>1, <2>2, <1>0, <1>2, FS_CardinalityType DEF FewReports
  <1>3. ASSUME NEW e, NEW pc, Alive, Send(e, pc), UNCHANGED givenUp PROVE FewReports'
    <2>1. runner'.waiting
      BY <1>3 DEF Send, Typed, TypeOK, Runner
    <2> QED
      BY <2>1, <1>2, <1>3 DEF Send, Alive
  <1>4. CASE ReportStarted \/ ReportNodeStarted \/ ReportNodeFinished \/ ReportFinished
    BY <1>3, <1>4 DEF ReportStarted, ReportNodeStarted, ReportNodeFinished, ReportFinished
  <1>5. CASE RunNode
    <2>1. CASE runner' = [runner EXCEPT !.pc = "end"] /\ UNCHANGED reports
      <3>1. AwaitedOne' = AwaitedOne
        BY <1>5, <2>1 DEF RunNode, AwaitedOne, Typed, TypeOK, Runner
      <3> QED
        BY <1>5, <2>1, <3>1, <1>0 DEF RunNode, FewReports
    <2>2. CASE /\ reports' = reports \cup {[no |-> runner.next, event |-> NodeEvent,
                                            pc |-> "arriving", run |-> "none"]}
               /\ runner' = [runner EXCEPT !.waiting = TRUE, !.next = @ + 1,
                                           !.pc = "finish", !.outcome = "failed"]
      <3>1. runner'.waiting
        BY <2>2 DEF Typed, TypeOK, Runner
      <3> QED
        BY <1>5, <2>2, <3>1, <1>2 DEF RunNode, Alive
    <2> QED
      BY <1>5, <2>1, <2>2 DEF RunNode
  <1>6. CASE GiveUp
    <2>1. reports' \in SUBSET reports /\ givenUp' = givenUp + 1
      BY <1>6 DEF GiveUp
    <2>2. IsFiniteSet(reports') /\ Cardinality(reports') <= Cardinality(reports) /\ Cardinality(reports') \in Nat
      BY <2>1, <1>0, FS_Subset, FS_CardinalityType
    <2>3. AwaitedOne' = 0
      BY <1>6 DEF GiveUp, AwaitedOne, Typed, TypeOK, Runner
    <2> QED
      BY <2>1, <2>2, <2>3, <1>0 DEF FewReports
  <1>7. CASE Die
    <2>1. AwaitedOne' = 1
      BY <1>7 DEF Die, AwaitedOne, Typed, TypeOK, Runner
    <2> QED
      BY <1>7, <2>1, <1>0 DEF Die, FewReports
  <1>8. CASE UNCHANGED <<reports, givenUp, runner>>
    BY <1>8 DEF FewReports, AwaitedOne
  <1>9. CASE Dispatch
    <2>1. UNCHANGED <<reports, givenUp>> /\ (AwaitedOne' = AwaitedOne \/ AwaitedOne = 0)
      BY <1>9 DEF Dispatch, AwaitedOne, Typed, RunnerWalks, RowFirst
    <2>2. AwaitedOne' \in {0, 1}
      BY DEF AwaitedOne
    <2> QED
      BY <2>1, <2>2, <1>0 DEF FewReports
  <1>10. \/ UNCHANGED <<reports, givenUp, runner>> \/ Dispatch \/ Die \/ GiveUp \/ RunNode
         \/ ReportStarted \/ ReportNodeStarted \/ ReportNodeFinished \/ ReportFinished
         \/ \E report \in reports : Authorise(report) \/ Record(report) \/ Answer(report)
    BY DEF Next, Api, RunnerStep, Page, CreateRun, NoRunner, Unhydrated, Answered, AccountForBreak, Breaks, Cancel,
           StartTick, ReadStatus, ReadEvents, ReceiveTick, vars
  <1> QED
    BY <1>1, <1>4, <1>5, <1>6, <1>7, <1>8, <1>9, <1>10

(* An event is appended by what was counted as still to append.             *)
LEMMA AppendEndsSoon ==
    ASSUME Typed, FewReports, FewReports', EndsSoon, NEW e \in Events, AppendEvent(e), UNCHANGED givenUp,
           Cardinality(Appending') + MayAccount' <= Cardinality(Appending) + MayAccount - 1,
           Cardinality(Appending') + MayAccount' <= 2 + givenUp,
           Cardinality(Appending') \in Nat, dispatch' # "none"
    PROVE  EndsSoon'
  <1>0. /\ Len(log) \in Nat /\ Len(log') = Len(log) + 1
        /\ DOMAIN log' = DOMAIN log \union {Len(log) + 1} /\ DOMAIN log = 1 .. Len(log)
        /\ \A i \in DOMAIN log : log'[i] = log[i]
        /\ log'[Len(log) + 1] = e
    BY Appended
  <1>1. givenUp \in Nat /\ Cardinality(Appending) \in Nat /\ MayAccount \in {0, 1} /\ MayAccount' \in {0, 1}
    BY Counts DEF MayAccount
  <1>2. ASSUME NEW i \in DOMAIN log', log'[i].type = "run.finished"
        PROVE  (Len(log') - i) + Cardinality(Appending') + MayAccount' <= 2 + givenUp'
    <2>1. CASE i = Len(log) + 1
      BY <2>1, <1>0, <1>1
    <2>2. CASE i # Len(log) + 1
      <3>1. i \in 1 .. Len(log) /\ log[i].type = "run.finished"
        BY <2>2, <1>0, <1>2
      <3>2. (Len(log) - i) + Cardinality(Appending) + MayAccount <= 2 + givenUp
        BY <3>1, <1>0 DEF EndsSoon
      <3> QED
        BY <3>1, <3>2, <1>0, <1>1
    <2> QED
      BY <2>1, <2>2
  <1>3. HasFinished' => ~token'
    <2>1. CASE e.type = "run.finished"
      BY <2>1, EventsDiffer DEF AppendEvent, Started, Event
    <2>2. CASE e.type # "run.finished"
      <3>1. HasFinished' => HasFinished
        BY <2>2, <1>0 DEF HasFinished
      <3> QED
        BY <3>1, <2>2 DEF AppendEvent, EndsSoon
    <2> QED
      BY <2>1, <2>2
  <1> QED
    BY <1>2, <1>3 DEF EndsSoon

LEMMA RecordEndsSoon ==
    ASSUME Typed, FewReports, FewReports', EndsSoon, NEW report \in reports, Record(report)
    PROVE  EndsSoon'
  <1> DEFINE answering == [report EXCEPT !.pc = "answer"]
  <1>1. reports' = (reports \ {report}) \cup {answering} /\ report \in Appending
    BY DEF Record, Appending
  <1>2. answering.pc = "answer"
    BY HandlerGoesOn DEF Typed, TypeOK
  <1> HIDE DEF answering
  <1>3. Appending' = Appending \ {report}
    BY <1>1, <1>2 DEF Appending
  <1>4. Cardinality(Appending') = Cardinality(Appending) - 1
    BY <1>1, <1>3, Counts, FS_RemoveElement
  <1>5. /\ Cardinality(Appending) \in Nat /\ Cardinality(Appending) <= givenUp + AwaitedOne
        /\ givenUp \in Nat /\ AwaitedOne \in {0, 1}
    BY Counts DEF FewReports
  <1>6. Cardinality(Appending') \in Nat
    <2>1. IsFiniteSet(Appending \ {report})
      BY Counts, FS_RemoveElement
    <2> QED
      BY <1>3, <2>1, FS_CardinalityType
  <1>7. MayAccount' = MayAccount /\ MayAccount \in {0, 1} /\ UNCHANGED <<givenUp, dispatch>>
    BY DEF Record, MayAccount
  <1>8. report.event \in Events /\ AppendEvent(report.event) /\ dispatch # "none"
    BY DEF Record, Typed, TypeOK, Report, RunnerWalks, RowFirst
  <1>9. Cardinality(Appending') + MayAccount' <= Cardinality(Appending) + MayAccount - 1
    BY <1>4, <1>5, <1>7
  <1>10. Cardinality(Appending') + MayAccount' <= 2 + givenUp
    BY <1>4, <1>5, <1>6, <1>7
  <1> QED
    BY <1>6, <1>7, <1>8, <1>9, <1>10, AppendEndsSoon

LEMMA DispatchEndsSoon ==
    ASSUME Typed, FewReports, FewReports', EndsSoon, NoRunner \/ AccountForBreak
    PROVE  EndsSoon'
  <1>1. Finished("failed") \in Events /\ AppendEvent(Finished("failed")) /\ UNCHANGED <<reports, givenUp>>
    BY EventsDiffer DEF NoRunner, AccountForBreak, Outcomes
  <1>2. MayAccount = 1 /\ MayAccount' = 0 /\ dispatch' # "none" /\ Appending' = Appending
    BY DEF NoRunner, AccountForBreak, MayAccount, Appending
  <1>3. /\ Cardinality(Appending) \in Nat /\ Cardinality(Appending) <= givenUp + AwaitedOne
        /\ givenUp \in Nat /\ AwaitedOne \in {0, 1}
    BY Counts DEF FewReports
  <1> QED
    BY <1>1, <1>2, <1>3, AppendEndsSoon

(* Of the other steps none adds to the log, and none lets a report in after *)
(* the end.                                                                 *)
LEMMA OthersEndSoon ==
    ASSUME Typed, FewReports, FewReports', EndsSoon, UNCHANGED log,
           HasFinished => /\ ~token' /\ dispatch' # "none"
                          /\ Appending' \subseteq Appending /\ givenUp <= givenUp'
                          /\ dispatch = "done" => dispatch' = "done",
           givenUp' \in Nat
    PROVE  EndsSoon'
  <1> SUFFICES ASSUME HasFinished PROVE EndsSoon'
    BY DEF EndsSoon, HasFinished
  <1>1. Cardinality(Appending') <= Cardinality(Appending) /\ Cardinality(Appending') \in Nat
    BY Counts, FS_Subset, FS_CardinalityType
  <1>2. MayAccount' <= MayAccount /\ MayAccount \in {0, 1} /\ MayAccount' \in {0, 1}
    BY DEF MayAccount
  <1>3. givenUp \in Nat /\ Cardinality(Appending) \in Nat /\ Len(log) \in Nat /\ DOMAIN log = 1 .. Len(log)
    BY Counts DEF Typed, TypeOK
  <1>4. ASSUME NEW i \in DOMAIN log, log[i].type = "run.finished"
        PROVE  (Len(log) - i) + Cardinality(Appending') + MayAccount' <= 2 + givenUp'
    <2>1. (Len(log) - i) + Cardinality(Appending) + MayAccount <= 2 + givenUp
      BY <1>4 DEF EndsSoon
    <2> QED
      BY <2>1, <1>1, <1>2, <1>3
  <1> QED
    BY <1>4 DEF EndsSoon, HasFinished

LEMMA NextEndsSoon == Typed /\ FewReports /\ FewReports' /\ EndsSoon /\ [Next]_vars => EndsSoon'
  <1> SUFFICES ASSUME Typed, FewReports, FewReports', EndsSoon, [Next]_vars PROVE EndsSoon'
    OBVIOUS
  <1>0. givenUp \in Nat /\ (HasFinished => ~token /\ dispatch # "none")
    BY Counts DEF EndsSoon
  <1>1. CASE NoRunner \/ AccountForBreak
    BY <1>1, DispatchEndsSoon
  <1>2. ASSUME NEW report \in reports, Record(report) PROVE EndsSoon'
    BY <1>2, RecordEndsSoon
  <1>3. ASSUME NEW report \in reports, Authorise(report) \/ Answer(report) PROVE EndsSoon'
    <2>1. HasFinished => reports' \subseteq reports
      BY <1>0, <1>3 DEF Authorise, Answer
    <2>2. UNCHANGED <<log, token, dispatch, givenUp>>
      BY <1>3 DEF Authorise, Answer
    <2> QED
      BY <2>1, <2>2, <1>0, OthersEndSoon DEF Appending
  <1>4. ASSUME NEW new, new.pc = "arriving", reports' \in {reports, reports \cup {new}},
               UNCHANGED <<log, token, dispatch, givenUp>>
        PROVE  EndsSoon'
    <2>1. Appending' = Appending
      BY <1>4 DEF Appending
    <2> QED
      BY <2>1, <1>0, <1>4, OthersEndSoon
  <1>5. CASE RunnerStep
    <2>1. ASSUME NEW e, NEW pc, Send(e, pc), UNCHANGED <<log, token, dispatch, givenUp>> PROVE EndsSoon'
      <3> DEFINE new == [no |-> runner.next, event |-> e, pc |-> "arriving", run |-> "none"]
      <3>1. new.pc = "arriving" /\ reports' = reports \cup {new}
        BY <2>1 DEF Send
      <3> HIDE DEF new
      <3> QED
        BY <3>1, <2>1, <1>4
    <2>2. CASE RunNode
      <3> DEFINE new == [no |-> runner.next, event |-> NodeEvent, pc |-> "arriving", run |-> "none"]
      <3>1. /\ new.pc = "arriving" /\ reports' \in {reports, reports \cup {new}}
            /\ UNCHANGED <<log, token, dispatch, givenUp>>
        BY <2>2 DEF RunNode
      <3> HIDE DEF new
      <3> QED
        BY <3>1, <1>4
    <2> QED
      BY <1>5, <2>1, <2>2 DEF RunnerStep, ReportStarted, ReportNodeStarted, ReportNodeFinished, ReportFinished
  <1>6. CASE GiveUp
    <2>1. reports' \subseteq reports /\ givenUp' = givenUp + 1 /\ UNCHANGED <<log, token, dispatch>>
      BY <1>6 DEF GiveUp
    <2> QED
      BY <2>1, <1>0, OthersEndSoon DEF Appending
  <1>7. CASE CreateRun
    BY <1>7, <1>0, OthersEndSoon DEF CreateRun
  <1>8. CASE Unhydrated \/ Dispatch \/ Answered \/ Breaks \/ Cancel \/ Die \/ Page \/ UNCHANGED vars
    <2>1. UNCHANGED <<log, token, reports, givenUp>> /\ (dispatch' # "none" \/ dispatch = "none")
          /\ (dispatch = "done" => dispatch' = "done")
      BY <1>8 DEF Unhydrated, Dispatch, Answered, Breaks, Cancel, Die, Page, StartTick, ReadStatus, ReadEvents,
                  ReceiveTick, vars
    <2> QED
      BY <2>1, <1>0, OthersEndSoon DEF Appending
  <1> QED
    BY <1>1, <1>2, <1>3, <1>5, <1>6, <1>7, <1>8 DEF Next, Api

-----------------------------------------------------------------------------
(* What a cancel stops.                                                     *)

(* A number is one report's, and the runner has given out no later ones.    *)
Numbered ==
    /\ \A r \in reports : r.no < runner.next
    /\ \A r, s \in reports : r.no = s.no => r = s

(* run.started is the first report and is recorded once: a cancel that came *)
(* after it is not undone by it.                                            *)
StartedOnce ==
    /\ runner.pc \in {"off", "started"} => runner.next = 1
    /\ \A r \in reports : r.event = Started => r.no = 1
    /\ HasStarted => \A r \in reports : r.event = Started => r.pc = "answer"
    /\ status = "running" => HasStarted

CancelStands == cancel.in = "running" => HasStarted /\ (token => status = "cancelled")

(* Before a node's code the runner waits for the answer that would stop it. *)
AsksFirst == runner.pc = "run" => \A r \in reports : r.no = runner.next - 1 => r.event = NodeEvent

(* The node whose boundary has been passed is one of those that may begin.  *)
Passed == IF runner.pc = "run" /\ ~runner.waiting THEN 1 ELSE 0
FewBegin == cancel.in = "running" /\ token => cancel.nodes + Passed <= 1 + givenUp

Heard == Numbered /\ StartedOnce /\ CancelStands /\ AsksFirst /\ FewBegin

LEMMA InitHeard == Init => Heard
  BY DEF Init, Heard, Numbered, StartedOnce, CancelStands, AsksFirst, FewBegin, HasStarted

(* A report that is sent has a number of its own.                           *)
LEMMA SentHeard ==
    ASSUME Typed, Heard, NEW e \in Events, NEW new,
           new.no = runner.next, new.event = e, new.pc = "arriving",
           reports' = reports \cup {new},
           runner' \in Runner, runner'.next = runner.next + 1, runner'.waiting,
           e = Started => runner.pc = "started",
           runner'.pc = "run" => e = NodeEvent, runner'.pc \notin {"off", "started"},
           UNCHANGED <<status, token, log, givenUp>>,
           cancel'.in = cancel.in,
           cancel'.nodes \in Nat, cancel.in # "none" => cancel'.nodes <= cancel.nodes + Passed
    PROVE  Heard'
  <1>0. runner.next \in Nat /\ \A r \in reports : r.no \in Nat /\ r.no < runner.next
    BY DEF Typed, TypeOK, Runner, Report, Heard, Numbered
  <1>1. Numbered'
    BY <1>0 DEF Heard, Numbered
  <1>2. StartedOnce'
    BY <1>0 DEF Heard, StartedOnce, Typed, RunnerWalks, HasStarted
  <1>3. CancelStands'
    BY DEF Heard, CancelStands, HasStarted
  <1>4. AsksFirst'
    BY <1>0 DEF AsksFirst
  <1>5. FewBegin'
    <2>1. cancel.nodes \in Nat /\ givenUp \in Nat
      BY DEF Typed, TypeOK
    <2>2. Passed \in {0, 1} /\ Passed' = 0
      BY DEF Passed
    <2> QED
      BY <2>1, <2>2 DEF Heard, FewBegin
  <1> QED
    BY <1>1, <1>2, <1>3, <1>4, <1>5 DEF Heard

LEMMA RunnerHeard ==
    ASSUME Typed, Typed', Heard, ReportStarted \/ ReportNodeStarted \/ ReportNodeFinished \/ ReportFinished
    PROVE  Heard'
  <1>1. PICK e \in Events, pc \in {"begin", "run", "finish", "done"} :
           /\ Send(e, pc)
           /\ UNCHANGED <<status, token, log, givenUp, cancel>>
           /\ e = Started => runner.pc = "started"
           /\ pc = "run" => e = NodeEvent
    <2>1. CASE ReportStarted
      BY <2>1, EventsDiffer DEF ReportStarted, Begun
    <2>2. CASE ReportNodeStarted
      BY <2>2, EventsDiffer DEF ReportNodeStarted
    <2>3. CASE ReportNodeFinished
      BY <2>3, EventsDiffer DEF ReportNodeFinished, Begun
    <2>4. CASE ReportFinished
      BY <2>4, EventsDiffer DEF ReportFinished, Typed, TypeOK, Runner
    <2> QED
      BY <2>1, <2>2, <2>3, <2>4
  <1> DEFINE new == [no |-> runner.next, event |-> e, pc |-> "arriving", run |-> "none"]
             node == IF runner.pc = "end" THEN runner.node + 1 ELSE runner.node
  <1>2. new.no = runner.next /\ new.event = e /\ new.pc = "arriving" /\ reports' = reports \cup {new}
    BY <1>1 DEF Send
  <1>3. runner' = [runner EXCEPT !.waiting = TRUE, !.next = runner.next + 1, !.pc = pc, !.node = node]
    BY <1>1 DEF Send
  <1>4. runner \in Runner /\ runner' \in Runner
    BY DEF Typed, TypeOK
  <1> HIDE DEF new, node
  <1>5. runner'.next = runner.next + 1 /\ runner'.waiting /\ runner'.pc = pc
    BY <1>3, <1>4 DEF Runner
  <1>6. cancel'.nodes \in Nat /\ cancel'.nodes <= cancel.nodes + Passed /\ cancel' = cancel
    BY <1>1 DEF Typed, TypeOK, Passed
  <1> QED
    BY <1>1, <1>2, <1>4, <1>5, <1>6, SentHeard

LEMMA RunNodeHeard ==
    ASSUME Typed, Typed', Heard, RunNode
    PROVE  Heard'
  <1>1. /\ runner.pc = "run" /\ ~runner.waiting /\ Passed = 1 /\ runner \in Runner /\ runner' \in Runner
        /\ UNCHANGED <<status, token, log, givenUp>>
    BY DEF RunNode, Alive, Passed, Typed, TypeOK
  <1>2. /\ cancel.nodes \in Nat /\ cancel'.nodes \in Nat /\ cancel'.in = cancel.in
        /\ cancel.in # "none" => cancel'.nodes <= cancel.nodes + 1
    BY DEF RunNode, Typed, TypeOK
  <1>3. CASE runner' = [runner EXCEPT !.pc = "end"] /\ UNCHANGED reports
    <2>1. runner'.pc = "end" /\ runner'.next = runner.next /\ Passed' = 0
      BY <1>1, <1>3 DEF Runner, Passed
    <2>2. FewBegin'
      BY <2>1, <1>1, <1>2 DEF Heard, FewBegin, Typed, TypeOK
    <2> QED
      BY <2>1, <2>2, <1>1, <1>2, <1>3 DEF Heard, Numbered, StartedOnce, CancelStands, AsksFirst, HasStarted
  <1>4. CASE /\ reports' = reports \cup {[no |-> runner.next, event |-> NodeEvent,
                                          pc |-> "arriving", run |-> "none"]}
             /\ runner' = [runner EXCEPT !.waiting = TRUE, !.next = @ + 1,
                                         !.pc = "finish", !.outcome = "failed"]
    <2> DEFINE new == [no |-> runner.next, event |-> NodeEvent, pc |-> "arriving", run |-> "none"]
    <2>1. new.no = runner.next /\ new.event = NodeEvent /\ new.pc = "arriving" /\ reports' = reports \cup {new}
      BY <1>4
    <2>2. runner'.next = runner.next + 1 /\ runner'.waiting /\ runner'.pc = "finish"
      BY <1>1, <1>4 DEF Runner
    <2> HIDE DEF new
    <2> QED
      BY <1>1, <1>2, <2>1, <2>2, EventsDiffer, SentHeard
  <1> QED
    BY <1>3, <1>4 DEF RunNode

(* An answer that a runner before a node's code waits for ends the walk when *)
(* the run is cancelled.                                                     *)
LEMMA AnswerHeard ==
    ASSUME Typed, Typed', Heard, NEW report \in reports, Answer(report)
    PROVE  Heard'
  <1> DEFINE awaited == runner.waiting /\ runner.next = report.no + 1
  <1>1. UNCHANGED <<status, token, log, givenUp, cancel>> /\ reports' \subseteq reports
    BY DEF Answer
  <1>2. runner \in Runner /\ report.no \in Nat /\ Passed \in {0, 1} /\ cancel.nodes \in Nat /\ givenUp \in Nat
    BY DEF Typed, TypeOK, Report, Passed
  <1>3. CASE ~awaited
    <2>1. runner' = runner
      BY <1>3 DEF Answer
    <2> QED
      BY <2>1, <1>1 DEF Heard, Numbered, StartedOnce, CancelStands, AsksFirst, FewBegin, Passed, HasStarted
  <1>4. CASE awaited
    <2>1. runner' \in {Stopped, [runner EXCEPT !.waiting = FALSE]}
      BY <1>4 DEF Answer
    <2>2. /\ runner'.next = runner.next
          /\ runner'.pc = "finish" \/ (runner'.pc = runner.pc /\ runner' = [runner EXCEPT !.waiting = FALSE])
      BY <2>1, <1>2 DEF Stopped, Runner
    <2>3. FewBegin'
      <3> SUFFICES ASSUME cancel.in = "running", token PROVE cancel.nodes + Passed' <= 1 + givenUp
        BY <1>1 DEF FewBegin
      <3>1. status = "cancelled" /\ cancel.nodes + Passed <= 1 + givenUp
        BY DEF Heard, CancelStands, FewBegin
      <3>2. CASE runner.pc = "run"
        <4>1. report.event = NodeEvent
          BY <3>2, <1>2, <1>4 DEF Heard, AsksFirst, Runner
        <4>2. Heeds /\ Cancelled(report)
          BY <3>1, <3>2 DEF Heeds, Cancelled, Typed, RunnerWalks
        <4>3. runner' = Stopped
          BY <4>1, <4>2, <1>4 DEF Answer
        <4>4. runner'.pc = "finish"
          BY <4>3, <1>2 DEF Stopped, Runner
        <4>5. Passed' = 0
          BY <4>4 DEF Passed
        <4> QED
          BY <4>5, <3>1, <1>2
      <3>3. CASE runner.pc # "run"
        <4>1. Passed' = 0
          BY <3>3, <2>2 DEF Passed
        <4> QED
          BY <4>1, <3>1, <1>2
      <3> QED
        BY <3>2, <3>3
    <2> QED
      BY <2>2, <2>3, <1>1 DEF Heard, Numbered, StartedOnce, CancelStands, AsksFirst, HasStarted
  <1> QED
    BY <1>3, <1>4

LEMMA AuthoriseHeard ==
    ASSUME Typed, Typed', Heard, NEW report \in reports, Authorise(report)
    PROVE  Heard'
  <1>1. UNCHANGED <<status, token, log, givenUp, cancel>> /\ runner \in Runner /\ report \in Report
    BY DEF Authorise, Typed, TypeOK
  <1>2. CASE token
    <2> DEFINE next == [report EXCEPT !.pc = "append", !.run = status]
    <2>1. reports' = (reports \ {report}) \cup {next} /\ UNCHANGED runner
      BY <1>2 DEF Authorise, Step
    <2>2. next.no = report.no /\ next.event = report.event /\ report.pc = "arriving"
      BY <1>1 DEF Report, Authorise
    <2> HIDE DEF next
    <2>3. HasStarted => report.event # Started
      BY <2>2 DEF Heard, StartedOnce
    <2>4. Numbered'
      BY <2>1, <2>2 DEF Heard, Numbered
    <2>5. StartedOnce'
      BY <2>1, <2>2, <2>3, <1>1 DEF Heard, StartedOnce, HasStarted
    <2>6. CancelStands' /\ FewBegin'
      BY <2>1, <1>1 DEF Heard, CancelStands, FewBegin, Passed, HasStarted
    <2>7. AsksFirst'
      BY <2>1, <2>2 DEF Heard, AsksFirst
    <2> QED
      BY <2>4, <2>5, <2>6, <2>7 DEF Heard
  <1>3. CASE ~token
    <2>1. reports' \subseteq reports /\ runner'.pc = runner.pc /\ runner'.next = runner.next
      BY <1>1, <1>3 DEF Authorise, Runner
    <2> QED
      BY <2>1, <1>1, <1>3 DEF Heard, Numbered, StartedOnce, CancelStands, AsksFirst, FewBegin, HasStarted
  <1> QED
    BY <1>2, <1>3

LEMMA RecordHeard ==
    ASSUME Typed, Typed', Heard, NEW report \in reports, Record(report)
    PROVE  Heard'
  <1> DEFINE next == [report EXCEPT !.pc = "answer"]
  <1>1. /\ reports' = (reports \ {report}) \cup {next} /\ UNCHANGED <<runner, givenUp, cancel>>
        /\ report.event \in Events /\ AppendEvent(report.event) /\ report.pc = "append"
    BY DEF Record, Typed, TypeOK, Report
  <1>2. next.no = report.no /\ next.event = report.event /\ next.pc = "answer"
    BY HandlerGoesOn DEF Typed, TypeOK
  <1> HIDE DEF next
  <1>3. HasStarted' <=> HasStarted \/ report.event = Started
    <2>1. /\ DOMAIN log' = DOMAIN log \union {Len(log) + 1}
          /\ \A i \in DOMAIN log : log'[i] = log[i]
          /\ log'[Len(log) + 1] = report.event
      BY <1>1, Appended
    <2> QED
      BY <2>1 DEF HasStarted
  <1>4. HasStarted => report.event # Started
    BY <1>1 DEF Heard, StartedOnce
  <1>5. /\ status' = "running" => report.event = Started \/ status = "running"
        /\ token' => token /\ (report.event = NodeEvent \/ report.event = Started)
        /\ report.event = NodeEvent => status' = status
    BY <1>1, EventsDiffer DEF AppendEvent, Outcomes, Finished, Event, NodeEvent, Started
  <1>6. Numbered' /\ AsksFirst'
    BY <1>1, <1>2 DEF Heard, Numbered, AsksFirst
  <1>7. StartedOnce'
    <2>1. \A r \in reports' : r.event = Started => r.no = 1
      BY <1>1, <1>2 DEF Heard, StartedOnce
    <2>2. ASSUME HasStarted', NEW r \in reports', r.event = Started PROVE r.pc = "answer"
      <3>1. CASE HasStarted
        BY <2>2, <3>1, <1>1, <1>2 DEF Heard, StartedOnce
      <3>2. CASE report.event = Started
        <4>1. report.no = 1 /\ \A s \in reports : s.event = Started => s = report
          BY <3>2 DEF Heard, StartedOnce, Numbered
        <4> QED
          BY <4>1, <2>2, <1>1, <1>2
      <3> QED
        BY <2>2, <3>1, <3>2, <1>3
    <2>3. status' = "running" => HasStarted'
      BY <1>3, <1>5 DEF Heard, StartedOnce
    <2> QED
      BY <2>1, <2>2, <2>3, <1>1 DEF Heard, StartedOnce
  <1>8. CancelStands' /\ FewBegin'
    <2>1. cancel.in = "running" => report.event # Started /\ HasStarted
      BY <1>4 DEF Heard, CancelStands
    <2> QED
      BY <2>1, <1>1, <1>3, <1>5 DEF Heard, CancelStands, FewBegin, Passed
  <1> QED
    BY <1>6, <1>7, <1>8 DEF Heard

LEMMA NextHeard == Typed /\ Typed' /\ Heard /\ [Next]_vars => Heard'
  <1> SUFFICES ASSUME Typed, Typed', Heard, [Next]_vars PROVE Heard'
    OBVIOUS
  <1>1. ASSUME NEW report \in reports, Authorise(report) \/ Record(report) \/ Answer(report) PROVE Heard'
    BY <1>1, AuthoriseHeard, RecordHeard, AnswerHeard
  <1>2. CASE RunnerStep
    BY <1>2, RunnerHeard, RunNodeHeard DEF RunnerStep
  <1>3. CASE NoRunner \/ AccountForBreak
    <2>1. Finished("failed") \in Events /\ Finished("failed") # Started /\ AppendEvent(Finished("failed"))
      BY <1>3, EventsDiffer DEF NoRunner, AccountForBreak, Outcomes
    <2>2. HasStarted' <=> HasStarted
      <3>1. /\ DOMAIN log' = DOMAIN log \union {Len(log) + 1}
            /\ \A i \in DOMAIN log : log'[i] = log[i]
            /\ log'[Len(log) + 1] = Finished("failed")
        BY <2>1, Appended
      <3> QED
        BY <3>1, <2>1 DEF HasStarted
    <2>3. ~token' /\ status' = "failed" /\ UNCHANGED <<runner, reports, givenUp, cancel>>
      BY <1>3, <2>1 DEF NoRunner, AccountForBreak, AppendEvent, Finished, Event
    <2> QED
      BY <2>2, <2>3 DEF Heard, Numbered, StartedOnce, CancelStands, AsksFirst, FewBegin
  <1>4. CASE CreateRun
    <2>1. ~HasStarted /\ UNCHANGED <<log, runner, reports, givenUp, cancel>> /\ status' = "queued"
      BY <1>4 DEF CreateRun, Typed, RowFirst, HasStarted
    <2> QED
      BY <2>1 DEF Heard, Numbered, StartedOnce, CancelStands, AsksFirst, FewBegin, HasStarted
  <1>5. CASE Cancel
    <2>1. /\ UNCHANGED <<log, token, runner, reports, givenUp>> /\ status' = "cancelled"
          /\ status \in {"queued", "running"}
          /\ cancel' = IF cancel.in = "none" THEN [in |-> status, nodes |-> 0] ELSE cancel
      BY <1>5 DEF Cancel
    <2>2. cancel'.in = "running" => \/ /\ cancel.in = "none" /\ status = "running" /\ cancel'.nodes = 0
                                    \/ /\ cancel.in = "running" /\ ~token
      BY <2>1 DEF Heard, CancelStands, Typed, TypeOK
    <2>3. Passed \in {0, 1} /\ Passed' = Passed /\ givenUp \in Nat
      BY <2>1 DEF Passed, Typed, TypeOK
    <2>4. CancelStands' /\ FewBegin'
      BY <2>1, <2>2, <2>3 DEF Heard, CancelStands, FewBegin, StartedOnce, HasStarted
    <2> QED
      BY <2>1, <2>4 DEF Heard, Numbered, StartedOnce, AsksFirst, HasStarted
  <1>6. CASE GiveUp
    <2>1. /\ UNCHANGED <<status, token, log, cancel>> /\ givenUp' = givenUp + 1 /\ reports' \subseteq reports
          /\ runner.waiting /\ givenUp \in Nat /\ cancel.nodes \in Nat
      BY <1>6 DEF GiveUp, Typed, TypeOK
    <2>2. runner'.pc = runner.pc /\ runner'.next = runner.next
      BY <1>6 DEF GiveUp, Typed, TypeOK, Runner
    <2>3. Passed = 0 /\ Passed' \in {0, 1}
      BY <2>1 DEF Passed
    <2>4. FewBegin'
      BY <2>1, <2>3 DEF Heard, FewBegin
    <2> QED
      BY <2>1, <2>2, <2>4 DEF Heard, Numbered, StartedOnce, CancelStands, AsksFirst, HasStarted
  <1>7. CASE Die
    <2>1. UNCHANGED <<status, token, log, cancel, givenUp, reports>> /\ cancel.nodes \in Nat /\ givenUp \in Nat
      BY <1>7 DEF Die, Typed, TypeOK
    <2>2. runner'.pc = "dead" /\ runner'.next = runner.next
      BY <1>7 DEF Die, Typed, TypeOK, Runner
    <2>3. Passed \in {0, 1} /\ Passed' = 0
      BY <2>2 DEF Passed
    <2> QED
      BY <2>1, <2>2, <2>3 DEF Heard, Numbered, StartedOnce, CancelStands, AsksFirst, FewBegin, HasStarted
  <1>8. CASE Dispatch
    <2>1. UNCHANGED <<status, token, log, cancel, givenUp, reports>> /\ runner.pc = "off"
      BY <1>8 DEF Dispatch, Typed, RowFirst
    <2>2. runner'.pc \in {"off", "started"} /\ runner'.next = runner.next
      BY <1>8, <2>1 DEF Dispatch, Typed, TypeOK, Runner
    <2>3. Passed = 0 /\ Passed' = 0
      BY <2>1, <2>2 DEF Passed
    <2> QED
      BY <2>1, <2>2, <2>3 DEF Heard, Numbered, StartedOnce, CancelStands, AsksFirst, FewBegin, HasStarted
  <1>9. CASE Unhydrated \/ Answered \/ Breaks \/ Page \/ UNCHANGED vars
    <2>1. UNCHANGED <<status, token, log, runner, reports, givenUp, cancel>>
      BY <1>9 DEF Unhydrated, Answered, Breaks, Page, StartTick, ReadStatus, ReadEvents, ReceiveTick, vars
    <2> QED
      BY <2>1 DEF Heard, Numbered, StartedOnce, CancelStands, AsksFirst, FewBegin, Passed, HasStarted
  <1> QED
    BY <1>1, <1>2, <1>3, <1>4, <1>5, <1>6, <1>7, <1>8, <1>9 DEF Next, Api

(* What stops a run stops it soon, however many nodes it has and whatever   *)
(* reports go missing: its end takes its token away, so that what comes     *)
(* after was let in before it and is counted; and a cancel heard while it   *)
(* runs lets one node more begin, and one for each report given up on,      *)
(* because a runner that was not stopped has not been answered since.       *)
THEOREM ARunStops == Spec => []RunStops
  <1> DEFINE Inv == FewReports /\ EndsSoon /\ Heard
  <1>1. Init => Inv
    BY InitFew, InitHeard
  <1>2. Typed /\ Typed' /\ Inv /\ [Next]_vars => Inv'
    BY NextFew, NextEndsSoon, NextHeard
  <1>3. Typed /\ Inv => RunStops
    <2> SUFFICES ASSUME Typed, Inv PROVE RunStops
      OBVIOUS
    <2>1. ASSUME NEW i \in DOMAIN log, log[i].type = "run.finished" PROVE Len(log) - i <= 2 + givenUp
      <3>1. (Len(log) - i) + Cardinality(Appending) + MayAccount <= 2 + givenUp
        BY <2>1 DEF EndsSoon
      <3>2. Cardinality(Appending) \in Nat /\ MayAccount \in {0, 1} /\ Len(log) \in Nat /\ i \in Nat /\ givenUp \in Nat
        BY Counts DEF MayAccount, Typed, TypeOK
      <3> QED
        BY <3>1, <3>2
    <2>2. RunningStopsAtBoundary
      <3>1. cancel.nodes \in Nat /\ Passed \in {0, 1} /\ givenUp \in Nat
        BY DEF Passed, Typed, TypeOK
      <3> QED
        BY <3>1 DEF Heard, FewBegin, RunningStopsAtBoundary
    <2> QED
      BY <2>1, <2>2 DEF RunStops, TokenEndsWithTheRun
  <1> HIDE DEF Inv
  <1> QED
    BY <1>1, <1>2, <1>3, AlwaysTyped, PTL DEF Spec

-----------------------------------------------------------------------------
(* The page and its app session.                                            *)
USE AppSessionAssumption

(* What says that a process has run: the page, or what it was told of and   *)
(* has not heard yet.                                                       *)
SaysItRan ==
  /\ page.phase = "live" => ran
  /\ service \in {"running", "exited"} => ran
  /\ probe = "running" => ran
  /\ \A s \in Starts : start[s] = "running" => ran
  /\ \A p \in Polls : poll[p].pc = "answered" /\ poll[p].saw \in {"running", "exited"} => ran

(* A poll that will be heard was sent since the page last began to watch.   *)
HeardIsOfNow == \A p \in Polls : poll[p].pc # "idle" /\ poll[p].heard => poll[p].of = watch

AppInv == AppSessionTypeOK /\ SaysItRan /\ HeardIsOfNow

Pages == [phase : {"idle", "starting", "live", "error"}, open : BOOLEAN]
Asked == [pc : {"idle", "sent", "answered"}, saw : Sessions \cup {NoSession},
          heard : BOOLEAN, of : 0..MaxWatches]
Called == {"unmade", "sent", "made", "answered", "failed", "gone", "done"} \cup Sessions
PagePhases == {"idle", "starting", "live", "error"}

-----------------------------------------------------------------------------
LEMMA InitAppInv == AppSessionInit => AppInv
  <1> SUFFICES ASSUME AppSessionInit PROVE AppInv
    OBVIOUS
  <1>1. NoPoll \in Asked /\ NoPoll.pc = "idle"
    BY DEF NoPoll, Asked
  <1>2. AppSessionTypeOK
    BY <1>1 DEF AppSessionInit, AppSessionTypeOK, Asked, Sessions
  <1>3. SaysItRan /\ HeardIsOfNow
    BY <1>1 DEF AppSessionInit, SaysItRan, HeardIsOfNow, NoSession
  <1> QED
    BY <1>2, <1>3 DEF AppInv

(* What becoming another page makes of the polls: they are told, or nothing *)
(* changed for them.                                                        *)
LEMMA PageBecomes ==
  ASSUME NEW p \in Pages, NEW polls \in [Polls -> Asked], watch \in 0..MaxWatches, Becomes(p, polls)
  PROVE  /\ page' = p /\ poll' \in [Polls -> Asked] /\ watch' \in 0..MaxWatches
         /\ \A q \in Polls : poll'[q].pc = polls[q].pc /\ poll'[q].saw = polls[q].saw /\ poll'[q].of = polls[q].of
         /\ \/ poll' = polls /\ watch' = watch
            \/ \A q \in Polls : ~poll'[q].heard
  <1> USE DEF Becomes
  <1>1. CASE WatchesApp(p) = WatchesApp(page)
    BY <1>1
  <1>2. CASE WatchesApp(p) # WatchesApp(page)
    <2>1. poll' = [q \in Polls |-> [polls[q] EXCEPT !.heard = FALSE]]
      BY <1>2 DEF Unheard
    <2>2. ASSUME NEW q \in Polls
          PROVE  /\ poll'[q] = [polls[q] EXCEPT !.heard = FALSE]
                 /\ poll'[q] \in Asked /\ poll'[q].pc = polls[q].pc
                 /\ poll'[q].saw = polls[q].saw /\ poll'[q].of = polls[q].of /\ poll'[q].heard = FALSE
      <3>1. polls[q] \in Asked
        OBVIOUS
      <3>2. poll'[q] = [polls[q] EXCEPT !.heard = FALSE]
        BY <2>1
      <3> QED
        BY <3>1, <3>2 DEF Asked
    <2>3. poll' \in [Polls -> Asked]
      BY <2>1, <2>2
    <2>4. watch' \in 0..MaxWatches
      BY <1>2
    <2> QED
      BY <2>2, <2>3, <2>4
  <1> QED
    BY <1>1, <1>2

(* The page becomes another one, and no poll ends.                          *)
LEMMA BecomesKeeps ==
  ASSUME AppInv, NEW p \in Pages, Becomes(p, poll), p.phase = "live" => ran,
         service' \in Sessions \cup {NoSession}, service' \in {"running", "exited"} => ran,
         start' \in [Starts -> Called],
         \A s \in Starts : start'[s] = "running" => ran,
         stop' \in {"idle", "sent", "answered"}, probe' \in {"sent", "done"} \cup Sessions,
         probe' = "running" => ran, UNCHANGED ran
  PROVE  AppInv'
  <1>1. poll \in [Polls -> Asked] /\ watch \in 0..MaxWatches
    BY DEF AppInv, AppSessionTypeOK, Asked
  <1>2. /\ page' = p /\ poll' \in [Polls -> Asked] /\ watch' \in 0..MaxWatches
        /\ \A q \in Polls : poll'[q].pc = poll[q].pc /\ poll'[q].saw = poll[q].saw /\ poll'[q].of = poll[q].of
        /\ \/ poll' = poll /\ watch' = watch
           \/ \A q \in Polls : ~poll'[q].heard
    BY <1>1, PageBecomes
  <1>3. AppSessionTypeOK'
    BY <1>2 DEF AppInv, AppSessionTypeOK, Asked, Pages, Called
  <1>4. SaysItRan' /\ HeardIsOfNow'
    BY <1>2 DEF AppInv, SaysItRan, HeardIsOfNow
  <1> QED
    BY <1>3, <1>4 DEF AppInv

LEMMA PhasesArePages ==
  ASSUME AppInv
  PROVE  /\ page \in Pages
         /\ \A became \in {"idle", "starting", "live", "error"} :
               Phase(became) \in Pages /\ Phase(became).phase = became /\ Phase(became).open = page.open
         /\ \A open \in BOOLEAN :
               [page EXCEPT !.open = open] \in Pages /\ [page EXCEPT !.open = open].phase = page.phase
  BY DEF AppInv, AppSessionTypeOK, Pages, Phase

-----------------------------------------------------------------------------
(* The steps of the page that open, start, stop and attach.                 *)
LEMMA PageKeeps ==
  ASSUME AppInv, TogglePreview \/ StopLands \/ ProbeLands \/ (\E s \in Starts : BeginSession(s) \/ StartLands(s) \/ StartFails(s))
  PROVE  AppInv'
  <1>0. /\ service \in Sessions \cup {NoSession} /\ (service \in {"running", "exited"} => ran)
        /\ page \in Pages /\ (page.phase = "live" => ran)
        /\ stop \in {"idle", "sent", "answered"} /\ probe \in {"sent", "done"} \cup Sessions
        /\ probe = "running" => ran
        /\ start \in [Starts -> Called]
        /\ \A s \in Starts : start[s] = "running" => ran
    BY DEF AppInv, AppSessionTypeOK, SaysItRan, Pages, Called
  <1>a. ASSUME NEW p \in Pages, Becomes(p, poll), p.phase = "live" => ran, UNCHANGED <<service, ran>>,
               start' \in [Starts -> Called], \A s \in Starts : start'[s] = "running" => ran,
               stop' \in {"idle", "sent", "answered"}, probe' = probe \/ probe' = "done"
        PROVE  AppInv'
    <2>1. /\ service' \in Sessions \cup {NoSession} /\ (service' \in {"running", "exited"} => ran)
          /\ probe' \in {"sent", "done"} \cup Sessions /\ (probe' = "running" => ran) /\ UNCHANGED ran
      BY <1>0, <1>a
    <2> QED
      BY <1>a, <2>1, BecomesKeeps
  <1>1. CASE TogglePreview
    <2> DEFINE p == [page EXCEPT !.open = ~page.open]
    <2>1. p \in Pages /\ p.phase = page.phase
      BY <1>0 DEF Pages
    <2>2. Becomes(p, poll) /\ UNCHANGED <<service, start, stop, probe, ran>>
      BY <1>1 DEF TogglePreview
    <2> HIDE DEF p
    <2> QED
      BY <1>0, <1>a, <2>1, <2>2
  <1>b. ASSUME NEW became \in PagePhases, Becomes(Phase(became), poll), became = "live" => ran,
               UNCHANGED <<service, ran>>,
               start' \in [Starts -> Called], \A s \in Starts : start'[s] = "running" => ran,
               stop' \in {"idle", "sent", "answered"}, probe' = probe \/ probe' = "done"
        PROVE  AppInv'
    <2> DEFINE p == Phase(became)
    <2>1. p \in Pages /\ p.phase = became
      BY PhasesArePages DEF PagePhases
    <2>2. Becomes(p, poll)
      BY <1>b
    <2> HIDE DEF p
    <2> QED
      BY <1>a, <1>b, <2>1, <2>2
  <1>2. CASE StopLands
    <2>1. Becomes(Phase("idle"), poll) /\ UNCHANGED <<service, start, probe, ran>> /\ stop' = "idle"
      BY <1>2 DEF StopLands
    <2> QED
      BY <1>0, <1>b, <2>1 DEF PagePhases
  <1>3. CASE ProbeLands
    <2>1. Attached(probe) \in PagePhases /\ (Attached(probe) = "live" => ran)
      BY <1>0 DEF Attached, PagePhases
    <2>2. Becomes(Phase(Attached(probe)), poll) /\ UNCHANGED <<service, start, stop, ran>> /\ probe' = "done"
      BY <1>3 DEF ProbeLands
    <2> QED
      BY <1>0, <1>b, <2>1, <2>2
  <1>4. ASSUME NEW s \in Starts, BeginSession(s) PROVE AppInv'
    <2>1. start' = start \/ start' = [start EXCEPT ![s] = "sent"]
      BY <1>4 DEF BeginSession
    <2>2. start' \in [Starts -> Called] /\ \A t \in Starts : start'[t] = "running" => ran
      BY <1>0, <2>1 DEF Called
    <2>3. UNCHANGED <<service, stop, probe, ran>>
      BY <1>4 DEF BeginSession
    <2>4. CASE Becomes([page EXCEPT !.open = TRUE], poll)
      <3> DEFINE p == [page EXCEPT !.open = TRUE]
      <3>1. p \in Pages /\ p.phase = page.phase
        BY <1>0 DEF Pages
      <3>2. Becomes(p, poll)
        BY <2>4
      <3> HIDE DEF p
      <3> QED
        BY <1>0, <1>a, <2>2, <2>3, <3>1, <3>2
    <2>5. CASE Becomes([phase |-> "starting", open |-> TRUE], poll)
      <3> DEFINE p == [phase |-> "starting", open |-> TRUE]
      <3>1. p \in Pages /\ p.phase = "starting"
        BY DEF Pages
      <3>2. Becomes(p, poll)
        BY <2>5
      <3> HIDE DEF p
      <3> QED
        BY <1>0, <1>a, <2>2, <2>3, <3>1, <3>2
    <2> QED
      BY <1>4, <2>4, <2>5 DEF BeginSession
  <1>5. ASSUME NEW s \in Starts, StartLands(s) \/ StartFails(s) PROVE AppInv'
    <2>1. start' = [start EXCEPT ![s] = "done"]
      BY <1>5 DEF StartLands, StartFails
    <2>2. start' \in [Starts -> Called] /\ \A t \in Starts : start'[t] = "running" => ran
      BY <1>0, <2>1 DEF Called
    <2>3. \E became \in PagePhases : Becomes(Phase(became), poll) /\ (became = "live" => ran)
      <3>1. CASE StartLands(s)
        <4>1. Becomes(Phase(page.phase), poll)
          BY <3>1 DEF StartLands, AfterStart
        <4>2. page.phase \in PagePhases
          BY <1>0 DEF Pages, PagePhases
        <4> QED
          BY <1>0, <4>1, <4>2
      <3>2. CASE StartFails(s) /\ start[s] = "gone"
        BY <3>2 DEF StartFails, PagePhases
      <3>3. CASE StartFails(s) /\ start[s] # "gone"
        <4>1. Attached(start[s]) \in PagePhases /\ (Attached(start[s]) = "live" => ran)
          BY <1>0 DEF Attached, PagePhases
        <4>2. Becomes(Phase(Attached(start[s])), poll)
          BY <3>3 DEF StartFails
        <4> QED
          BY <4>1, <4>2
      <3> QED
        BY <1>5, <3>1, <3>2, <3>3
    <2>4. UNCHANGED <<service, stop, probe, ran>>
      BY <1>5 DEF StartLands, StartFails
    <2> QED
      BY <1>0, <1>b, <2>2, <2>3, <2>4
  <1> QED
    BY <1>1, <1>2, <1>3, <1>4, <1>5

(* The polls.                                                               *)
LEMMA PollKeeps ==
  ASSUME AppInv, NEW p \in Polls, Tick_(p) \/ PollReads(p) \/ PollFails(p) \/ PollLands(p)
  PROVE  AppInv'
  <1>0. poll \in [Polls -> Asked] /\ watch \in 0..MaxWatches /\ NoPoll \in Asked /\ NoPoll.pc = "idle"
    BY DEF AppInv, AppSessionTypeOK, Asked, NoPoll
  <1>1. ASSUME NEW next \in Asked, poll' = [poll EXCEPT ![p] = next],
               UNCHANGED <<service, page, start, stop, probe, watch, ran>>,
               next.pc = "answered" /\ next.saw \in {"running", "exited"} => ran,
               next.pc # "idle" /\ next.heard => next.of = watch
        PROVE  AppInv'
    <2>1. AppSessionTypeOK'
      BY <1>0, <1>1 DEF AppInv, AppSessionTypeOK, Asked
    <2>2. SaysItRan' /\ HeardIsOfNow'
      BY <1>0, <1>1 DEF AppInv, SaysItRan, HeardIsOfNow
    <2> QED
      BY <2>1, <2>2 DEF AppInv
  <1>2. CASE Tick_(p)
    <2>1. [NoPoll EXCEPT !.pc = "sent", !.of = watch] \in Asked
      BY <1>0 DEF NoPoll, Asked
    <2>2. [NoPoll EXCEPT !.pc = "sent", !.of = watch].pc = "sent" /\ [NoPoll EXCEPT !.pc = "sent", !.of = watch].of = watch
      BY DEF NoPoll
    <2> QED
      BY <1>1, <1>2, <2>1, <2>2 DEF Tick_
  <1>3. CASE PollReads(p)
    <2> DEFINE next == [poll[p] EXCEPT !.pc = "answered", !.saw = service]
    <2>1. poll[p] \in Asked /\ service \in Sessions \cup {NoSession}
      BY <1>0 DEF AppInv, AppSessionTypeOK
    <2>2. next \in Asked /\ next.saw = service /\ next.of = poll[p].of /\ next.heard = poll[p].heard
      BY <2>1 DEF Asked
    <2>3. poll' = [poll EXCEPT ![p] = next] /\ poll[p].pc = "sent"
      BY <1>0, <1>3 DEF PollReads
    <2>4. UNCHANGED <<service, page, start, stop, probe, watch, ran>>
      BY <1>3 DEF PollReads
    <2> HIDE DEF next
    <2> QED
      BY <1>1, <2>2, <2>3, <2>4 DEF AppInv, SaysItRan, HeardIsOfNow
  <1>4. CASE PollFails(p)
    BY <1>0, <1>1, <1>4 DEF PollFails
  <1>5. CASE PollLands(p) /\ ~poll[p].heard
    BY <1>0, <1>1, <1>5 DEF PollLands
  <1>6. CASE PollLands(p) /\ poll[p].heard
    <2> DEFINE idle == [poll EXCEPT ![p] = NoPoll]
               became == AfterPoll(page.phase, poll[p].saw)
    <2>1. idle \in [Polls -> Asked] /\ \A q \in Polls : idle[q] = IF q = p THEN NoPoll ELSE poll[q]
      BY <1>0
    <2>2. became \in {"idle", "starting", "live", "error"} /\ (became = "live" => ran)
      BY <1>6 DEF AfterPoll, PollLands, AppInv, SaysItRan, AppSessionTypeOK, Active
    <2>3. Becomes(Phase(became), idle) /\ UNCHANGED <<service, start, stop, probe, ran>>
      BY <1>6 DEF PollLands
    <2> HIDE DEF idle, became
    <2>4. Phase(became) \in Pages /\ Phase(became).phase = became
      BY <2>2, PhasesArePages
    <2>5. /\ page' = Phase(became) /\ poll' \in [Polls -> Asked] /\ watch' \in 0..MaxWatches
          /\ \A q \in Polls : poll'[q].pc = idle[q].pc /\ poll'[q].saw = idle[q].saw /\ poll'[q].of = idle[q].of
          /\ \/ poll' = idle /\ watch' = watch
             \/ \A q \in Polls : ~poll'[q].heard
      BY <1>0, <2>1, <2>3, <2>4, PageBecomes
    <2>6. AppSessionTypeOK'
      BY <2>3, <2>4, <2>5 DEF AppInv, AppSessionTypeOK, Asked, Pages
    <2>7. SaysItRan'
      BY <1>0, <2>1, <2>2, <2>3, <2>4, <2>5 DEF AppInv, SaysItRan
    <2>8. HeardIsOfNow'
      BY <1>0, <2>1, <2>5 DEF AppInv, HeardIsOfNow
    <2> QED
      BY <2>6, <2>7, <2>8 DEF AppInv
  <1> QED
    BY <1>2, <1>3, <1>4, <1>5, <1>6

(* The API and the session service.                                         *)
LEMMA ServiceKeeps ==
  ASSUME AppInv, Stop \/ StopServed \/ ProbeReads \/ Runs \/ Exits \/ Ended
              \/ (\E s \in Starts : Refused(s) \/ Materialised(s) \/ StartAnswers(s) \/ ProbeAfter(s))
  PROVE  AppInv'
  <1>1. UNCHANGED <<page, poll, watch>> /\ (ran' = ran \/ ran')
    BY DEF Stop, StopServed, ProbeReads, Runs, Exits, Ended, Refused, Materialised, StartAnswers, ProbeAfter
  <1>2. /\ service' \in Sessions \cup {NoSession} /\ ran' \in BOOLEAN
        /\ service' \in {"running", "exited"} => ran'
    BY DEF AppInv, AppSessionTypeOK, SaysItRan, Stop, StopServed, ProbeReads, Runs, Exits, Ended, Refused,
           Materialised, StartAnswers, ProbeAfter, Sessions, NoSession
  <1>3. /\ stop' \in {"idle", "sent", "answered"} /\ probe' \in {"sent", "done"} \cup Sessions
        /\ probe' = "running" => ran'
    BY DEF AppInv, AppSessionTypeOK, SaysItRan, Stop, StopServed, ProbeReads, Runs, Exits, Ended, Refused,
           Materialised, StartAnswers, ProbeAfter, Sessions, NoSession
  <1>4. start' \in [Starts -> Called] /\ \A t \in Starts : start'[t] = "running" => ran'
    <2>0. /\ start \in [Starts -> Called] /\ \A t \in Starts : start[t] = "running" => ran
          /\ service \in Called \cup {NoSession} /\ (service = "running" => ran)
      BY DEF AppInv, AppSessionTypeOK, SaysItRan, Called
    <2>1. CASE UNCHANGED start
      BY <1>1, <2>0, <2>1
    <2>2. ASSUME NEW s \in Starts, Refused(s) \/ Materialised(s) \/ StartAnswers(s) \/ ProbeAfter(s)
          PROVE  start' \in [Starts -> Called] /\ \A t \in Starts : start'[t] = "running" => ran'
      <3>1. \E c \in Called : start' = [start EXCEPT ![s] = c] /\ (c = "running" => ran)
        BY <2>0, <2>2 DEF Refused, Materialised, StartAnswers, ProbeAfter, Called
      <3>2. ran' = ran
        BY <2>2 DEF Refused, Materialised, StartAnswers, ProbeAfter
      <3> QED
        BY <2>0, <3>1, <3>2
    <2> QED
      BY <2>1, <2>2 DEF Stop, StopServed, ProbeReads, Runs, Exits, Ended
  <1>5. AppSessionTypeOK'
    BY <1>1, <1>2, <1>3, <1>4 DEF AppInv, AppSessionTypeOK, Called
  <1>6. SaysItRan' /\ HeardIsOfNow'
    BY <1>1, <1>2, <1>3, <1>4 DEF AppInv, SaysItRan, HeardIsOfNow
  <1> QED
    BY <1>5, <1>6 DEF AppInv

LEMMA NextAppInv == AppInv /\ [AppSessionNext]_appSessionVars => AppInv'
  <1> SUFFICES ASSUME AppInv, [AppSessionNext]_appSessionVars PROVE AppInv'
    OBVIOUS
  <1>1. CASE UNCHANGED appSessionVars
    BY <1>1 DEF appSessionVars, AppInv, AppSessionTypeOK, SaysItRan, HeardIsOfNow
  <1>2. CASE AppSessionNext
    BY <1>2, PageKeeps, PollKeeps, ServiceKeeps DEF AppSessionNext, StartSteps
  <1> QED
    BY <1>1, <1>2

LEMMA AlwaysAppInv == AppSessionInit /\ [][AppSessionNext]_appSessionVars => []AppInv
  BY InitAppInv, NextAppInv, PTL

(* Every variable keeps its type.                                           *)
THEOREM AppSessionTypesStay == AppSessionSpec => []AppSessionTypeOK
  <1>1. AppInv => AppSessionTypeOK
    BY DEF AppInv
  <1> QED
    BY <1>1, AlwaysAppInv, PTL DEF AppSessionSpec

-----------------------------------------------------------------------------
(* A start's answer leaves the phase as it is.                                *)
LEMMA StopStandsStep ==
  AppInv /\ [AppSessionNext]_appSessionVars =>
    [\A s \in Starts : start[s] = "answered" /\ start'[s] = "done" =>
         Active(page'.phase) = Active(page.phase)]_appSessionVars
  <1> SUFFICES ASSUME AppInv, AppSessionNext, NEW s \in Starts, start[s] = "answered", start'[s] = "done"
               PROVE  Active(page'.phase) = Active(page.phase)
    OBVIOUS
  <1>0. start \in [Starts -> Called]
    BY DEF AppInv, AppSessionTypeOK, Called
  <1>1. StartLands(s)
    BY <1>0 DEF AppSessionNext, StartSteps, TogglePreview, Stop, StopServed, StopLands, ProbeReads, ProbeLands,
           BeginSession, Refused, Materialised, StartAnswers, StartLands, ProbeAfter, StartFails,
           Tick_, PollReads, PollLands, PollFails, Runs, Exits, Ended, Sessions
  <1>2. page' = Phase(page.phase)
    BY <1>1 DEF StartLands, Becomes, AfterStart
  <1> QED
    BY <1>2 DEF Phase, AppInv, AppSessionTypeOK

(* A poll that is heard is one of now.                                      *)
LEMMA OldPollsStep ==
  AppInv /\ [AppSessionNext]_appSessionVars =>
    [\A p \in Polls : poll[p].pc = "answered" /\ poll'[p] = NoPoll /\ page' # page
         => poll[p].of = watch]_appSessionVars
  <1> SUFFICES ASSUME AppInv, AppSessionNext, NEW p \in Polls,
                      poll[p].pc = "answered", poll'[p] = NoPoll, page' # page
               PROVE  poll[p].of = watch
    OBVIOUS
  <1>0. poll \in [Polls -> Asked] /\ watch \in 0..MaxWatches /\ NoPoll.pc = "idle" /\ page \in Pages
    BY DEF AppInv, AppSessionTypeOK, Asked, NoPoll, Pages
  <1>1. ASSUME NEW q \in Polls, PollLands(q) PROVE poll[p].of = watch
    <2>1. poll[q].heard
      BY <1>1 DEF PollLands
    <2>2. q = p
      <3> SUFFICES ASSUME q # p PROVE FALSE
        OBVIOUS
      <3> DEFINE idle == [poll EXCEPT ![q] = NoPoll]
                 became == AfterPoll(page.phase, poll[q].saw)
      <3>1. idle \in [Polls -> Asked] /\ idle[p] = poll[p]
        BY <1>0 DEF Asked, NoPoll
      <3>2. became \in {"idle", "starting", "live", "error"}
        BY <1>0 DEF AfterPoll, Pages
      <3>3. Becomes(Phase(became), idle)
        BY <1>1, <2>1 DEF PollLands
      <3> HIDE DEF idle, became
      <3>4. Phase(became) \in Pages
        BY <3>2, PhasesArePages
      <3>5. poll'[p].pc = idle[p].pc
        BY <1>0, <3>1, <3>3, <3>4, PageBecomes
      <3> QED
        BY <3>1, <3>5, <1>0
    <2> QED
      BY <2>1, <2>2 DEF AppInv, HeardIsOfNow
  <1>2. ASSUME NEW pg \in Pages, Becomes(pg, poll) PROVE FALSE
    <2>1. poll'[p].pc = poll[p].pc
      BY <1>0, <1>2, PageBecomes
    <2> QED
      BY <2>1, <1>0
  <1>3. \/ \E q \in Polls : PollLands(q)
        \/ TogglePreview \/ StopLands \/ ProbeLands
        \/ \E s \in Starts : BeginSession(s) \/ StartLands(s) \/ StartFails(s)
    BY DEF AppSessionNext, StartSteps, Stop, StopServed, ProbeReads,
           Refused, Materialised, StartAnswers, ProbeAfter, Tick_, PollReads, PollFails, Runs, Exits, Ended
  <1>4. \A open \in BOOLEAN : [page EXCEPT !.open = open] \in Pages
    BY PhasesArePages
  <1>5. CASE TogglePreview
    BY <1>2, <1>4, <1>5 DEF TogglePreview
  <1>6. ASSUME NEW became \in {"idle", "starting", "live", "error"}, Becomes(Phase(became), poll) PROVE FALSE
    BY <1>2, <1>6, PhasesArePages
  <1>7. CASE StopLands \/ ProbeLands
    BY <1>6, <1>7 DEF StopLands, ProbeLands, Attached
  <1>8. ASSUME NEW s \in Starts, BeginSession(s) PROVE FALSE
    <2>1. [phase |-> "starting", open |-> TRUE] \in Pages
      BY DEF Pages
    <2> QED
      BY <1>2, <1>4, <1>8, <2>1 DEF BeginSession
  <1>9. ASSUME NEW s \in Starts, StartLands(s) \/ StartFails(s) PROVE FALSE
    BY <1>0, <1>6, <1>9 DEF StartLands, StartFails, AfterStart, Attached, Pages
  <1> QED
    BY <1>1, <1>3, <1>5, <1>7, <1>8, <1>9

(* Answers that come late do no harm, however many polls and starts are     *)
(* under way: the page is live only when a process has run, because all     *)
(* that can tell it so was true when it was said; a start that answers      *)
(* after a stop changes nothing; and a poll that is heard was sent since    *)
(* the page last began to watch.                                            *)
THEOREM LateAnswersDoNoHarm == AppSessionSpec => LateAnswersAreHarmless
  <1>1. AppInv => LiveMeansItRan
    BY DEF AppInv, SaysItRan, LiveMeansItRan
  <1> QED
    BY <1>1, AlwaysAppInv, StopStandsStep, OldPollsStep, PTL
       DEF AppSessionSpec, LateAnswersAreHarmless, StopStands, OldPollsSayNothing

-----------------------------------------------------------------------------
(* The check of a graph and its order (FlowCheck), for every graph and any  *)
(* number of lines.                                                         *)
USE NodesAssumption, MaxLinesAssumption

Fresh == colour = White /\ stack = <<>> /\ looked = {} /\ reported = {}
Black == {n \in Nodes : colour[n] = "black"}

(* The grey nodes are those on the stack, each there once.                     *)
GreyIsTheStack ==
  /\ \A n \in Nodes : colour[n] = "grey" <=> \E k \in DOMAIN stack : stack[k] = n
  /\ \A k, l \in DOMAIN stack : stack[k] = stack[l] => k = l

LookedThrough == \A n \in Black : Places(n) \subseteq looked

(* A line that was followed leads to a node that is done, or is how the walk   *)
(* got from one node of the stack to the next.                                 *)
FollowedTo(i) ==
  \/ edges[i].to \in Black
  \/ \E k \in DOMAIN stack : k + 1 \in DOMAIN stack /\ stack[k] = edges[i].from /\ stack[k + 1] = edges[i].to

NothingSoFar == reported = {} => (\A i \in looked \cap Flow : FollowedTo(i)) /\ Acyclic(Black)

AllVisited == stack = <<>> /\ \A i \in Flow : colour[edges[i].from] # "white"

(* The strengthening of CleanMeansAcyclic that every step keeps.               *)
WalkInv ==
  /\ FlowTypeOK
  /\ phase = "drawing" => Fresh
  /\ GreyIsTheStack
  /\ LookedThrough
  /\ NothingSoFar
  /\ Checked => AllVisited

-----------------------------------------------------------------------------
LEMMA InitWalkInv == FlowInit => WalkInv
  <1> SUFFICES ASSUME FlowInit PROVE WalkInv
    OBVIOUS
  <1> USE DEF FlowInit, White, Waits0
  <1>1. FlowTypeOK
    BY DEF FlowTypeOK
  <1>2. Black = {}
    BY DEF Black
  <1>3. GreyIsTheStack
    BY DEF GreyIsTheStack
  <1> QED
    BY <1>1, <1>2, <1>3 DEF WalkInv, Fresh, LookedThrough, NothingSoFar, Acyclic, Checked

(* What follows of the stack and the lines from their types.                   *)
LEMMA Shapes ==
  ASSUME WalkInv
  PROVE  /\ \A i \in Flow : edges[i].from \in Nodes /\ edges[i].to \in Nodes
         /\ \A k \in DOMAIN stack : stack[k] \in Nodes
         /\ DOMAIN stack = 1..Len(stack) /\ Len(stack) \in Nat
         /\ stack # <<>> => Len(stack) \in DOMAIN stack /\ TopNode \in Nodes /\ colour[TopNode] = "grey"
         /\ \A n \in Nodes : Places(n) \subseteq Flow /\ Successors(n) \subseteq Nodes
  <1> USE DEF WalkInv, FlowTypeOK
  <1>1. \A i \in Flow : edges[i].from \in Nodes /\ edges[i].to \in Nodes
    <2> SUFFICES ASSUME NEW i \in Flow PROVE edges[i].from \in Nodes /\ edges[i].to \in Nodes
      OBVIOUS
    <2>1. edges[i] \in Ends
      BY DEF Flow
    <2> QED
      BY <2>1 DEF Ends
  <1>2. DOMAIN stack = 1..Len(stack) /\ Len(stack) \in Nat /\ \A k \in DOMAIN stack : stack[k] \in Nodes
    OBVIOUS
  <1>3. ASSUME stack # <<>> PROVE Len(stack) \in DOMAIN stack /\ TopNode \in Nodes /\ colour[TopNode] = "grey"
    <2>1. Len(stack) \in DOMAIN stack
      BY <1>2, <1>3
    <2> QED
      BY <2>1, <1>2 DEF TopNode, GreyIsTheStack
  <1> QED
    BY <1>1, <1>2, <1>3 DEF Places, Successors

(* A step that leaves lines and walk alone.                                    *)
LEMMA WalkUntouched ==
  ASSUME WalkInv, UNCHANGED <<edges, walk>>, FlowTypeOK',
         phase' = "drawing" => Fresh, Checked' => AllVisited
  PROVE  WalkInv'
  BY DEF WalkInv, walk, Fresh, White, GreyIsTheStack, LookedThrough, Black, Places, Flow, NothingSoFar,
         FollowedTo, Acyclic, Successors, Checked, AllVisited

LEMMA DrawKeeps ==
  ASSUME WalkInv, NEW a \in Nodes, NEW b \in Nodes, Draw(a, b)
  PROVE  WalkInv'
  <1> USE DEF Draw, walk, sort
  <1>1. ProposeGraphEdge(a, b) \in {"flow", "capability"}
    BY DEF ProposeGraphEdge
  <1>2. FlowTypeOK'
    <2>1. edges' \in Seq(Ends)
      <3>1. [from |-> a, to |-> b, kind |-> ProposeGraphEdge(a, b)] \in Ends
        BY <1>1 DEF Ends
      <3>2. edges \in Seq(Ends)
        BY DEF WalkInv, FlowTypeOK
      <3>3. \A e \in Ends : Append(edges, e) \in Seq(Ends)
        BY <3>2, AppendProperties
      <3> QED
        BY <3>1, <3>3
    <2> QED
      BY <2>1 DEF WalkInv, FlowTypeOK
  <1>3. Fresh /\ Fresh'
    BY DEF WalkInv, Fresh, White
  <1>4. Black' = {}
    BY <1>3 DEF Fresh, White, Black
  <1>5. GreyIsTheStack'
    BY DEF WalkInv, GreyIsTheStack
  <1> QED
    BY <1>2, <1>3, <1>4, <1>5 DEF WalkInv, Fresh, LookedThrough, NothingSoFar, Acyclic, Checked

(* So do the other edits, which leave nothing of a walk behind.                *)
LEMMA FreshKeeps ==
  ASSUME WalkInv, FlowTypeOK', Fresh', phase' = "drawing"
  PROVE  WalkInv'
  <1>1. Black' = {}
    BY DEF Fresh, White, Black
  <1>2. GreyIsTheStack'
    BY DEF Fresh, White, GreyIsTheStack
  <1> QED
    BY <1>1, <1>2 DEF WalkInv, Fresh, LookedThrough, NothingSoFar, Acyclic, Checked

LEMMA EraseKeeps ==
  ASSUME WalkInv, NEW i \in DOMAIN edges, Erase(i)
  PROVE  WalkInv'
  <1> USE DEF Erase, walk, sort
  <1>1. edges' \in Seq(Ends)
    BY DEF WalkInv, FlowTypeOK
  <1>2. FlowTypeOK'
    BY <1>1 DEF WalkInv, FlowTypeOK
  <1>3. Fresh'
    BY DEF WalkInv, Fresh, White
  <1> QED
    BY <1>2, <1>3, FreshKeeps

-----------------------------------------------------------------------------
(* The walk.                                                                   *)

LEMMA RootKeeps ==
  ASSUME WalkInv, NEW n \in Nodes, Root(n)
  PROVE  WalkInv'
  <1> USE DEF Root, sort
  <1>1. FlowTypeOK'
    BY DEF WalkInv, FlowTypeOK
  <1>2. Black' = Black
    BY DEF WalkInv, FlowTypeOK, Black
  <1>3. GreyIsTheStack'
    BY DEF WalkInv, FlowTypeOK, GreyIsTheStack
  <1>4. LookedThrough'
    BY <1>2 DEF WalkInv, LookedThrough, Places, Flow
  <1>5. ASSUME reported' = {} PROVE (\A i \in looked \cap Flow : FollowedTo(i))' /\ Acyclic(Black)'
    <2>1. \A i \in looked \cap Flow : edges[i].to \in Black
      BY <1>5 DEF WalkInv, NothingSoFar, FollowedTo
    <2>2. Acyclic(Black)'
      BY <1>2, <1>5 DEF WalkInv, NothingSoFar, Acyclic, Successors, Places, Flow
    <2> QED
      BY <1>2, <2>1, <2>2 DEF FollowedTo, Flow
  <1> QED
    BY <1>1, <1>3, <1>4, <1>5 DEF WalkInv, NothingSoFar, Checked

LEMMA FollowToGreyKeeps ==
  ASSUME WalkInv, NEW i \in DOMAIN edges, FollowToGrey(i)
  PROVE  WalkInv'
  <1> USE DEF FollowToGrey, sort
  <1>1. i \in Flow /\ edges[i].to \in Nodes
    BY Shapes DEF NextLine, Places
  <1>2. PICK k \in DOMAIN stack : stack[k] = edges[i].to
    BY <1>1 DEF WalkInv, GreyIsTheStack
  <1>3. CycleAt(k) \in Seq(Nodes)
    <2>1. SubSeq(stack, k, Len(stack)) \in Seq(Nodes)
      BY Shapes DEF WalkInv, FlowTypeOK
    <2> QED
      BY <2>1, Shapes DEF CycleAt
  <1>4. \A l \in Closes(edges[i].to) : l = k
    BY <1>2 DEF WalkInv, GreyIsTheStack, Closes
  <1>5. reported' \subseteq Seq(Nodes)
    BY <1>3, <1>4 DEF WalkInv, FlowTypeOK
  <1>6. reported' # {}
    <2>1. CASE Named(CycleAt(k))
      BY <2>1 DEF Named
    <2>2. CASE ~Named(CycleAt(k))
      BY <2>2, <1>2 DEF Closes
    <2> QED
      BY <2>1, <2>2
  <1>7. FlowTypeOK'
    BY <1>1, <1>5 DEF WalkInv, FlowTypeOK, Flow
  <1>8. LookedThrough'
    BY DEF WalkInv, LookedThrough, Black, Places, Flow
  <1> QED
    BY <1>6, <1>7, <1>8 DEF WalkInv, GreyIsTheStack, NothingSoFar, Checked

LEMMA FollowToWhiteKeeps ==
  ASSUME WalkInv, NEW i \in DOMAIN edges, FollowToWhite(i)
  PROVE  WalkInv'
  <1> DEFINE to == edges[i].to
  <1> USE DEF FollowToWhite, sort
  <1>1. i \in Flow /\ to \in Nodes /\ edges[i].from = TopNode /\ Len(stack) \in DOMAIN stack
    BY Shapes DEF NextLine, Places
  <1>2. FlowTypeOK'
    <2>1. looked' \subseteq Nat
      <3>1. edges \in Seq(Ends) /\ looked \subseteq Nat
        BY DEF WalkInv, FlowTypeOK
      <3>2. i \in Nat
        BY <3>1
      <3>3. \A j \in looked' : j \in looked \/ j = i
        OBVIOUS
      <3> QED
        BY <3>1, <3>2, <3>3
    <2>2. stack' \in Seq(Nodes)
      BY <1>1 DEF WalkInv, FlowTypeOK
    <2>3. colour' \in [Nodes -> {"white", "grey", "black"}]
      BY <1>1 DEF WalkInv, FlowTypeOK
    <2> QED
      BY <2>1, <2>2, <2>3 DEF WalkInv, FlowTypeOK
  <1>3. Black' = Black
    BY <1>1 DEF WalkInv, FlowTypeOK, Black
  <1>4. /\ DOMAIN stack' = 1..(Len(stack) + 1)
        /\ stack'[Len(stack) + 1] = to
        /\ \A k \in DOMAIN stack : k \in DOMAIN stack' /\ stack'[k] = stack[k]
    BY <1>1, Shapes DEF WalkInv, FlowTypeOK
  <1>5. GreyIsTheStack'
    <2>1. \A n \in Nodes : colour'[n] = "grey" <=> n = to \/ colour[n] = "grey"
      BY <1>1 DEF WalkInv, FlowTypeOK
    <2>2. \A k \in DOMAIN stack : stack[k] # to
      BY <1>1 DEF WalkInv, GreyIsTheStack
    <2>3. DOMAIN stack' = DOMAIN stack \union {Len(stack) + 1}
      BY <1>4, Shapes
    <2>4. \A n \in Nodes : colour'[n] = "grey" <=> \E k \in DOMAIN stack' : stack'[k] = n
      BY <1>4, <2>1, <2>3 DEF WalkInv, GreyIsTheStack
    <2>5. \A k, l \in DOMAIN stack' : stack'[k] = stack'[l] => k = l
      BY <1>4, <2>2, <2>3 DEF WalkInv, GreyIsTheStack
    <2> QED
      BY <2>4, <2>5 DEF GreyIsTheStack
  <1>6. LookedThrough'
    BY <1>3 DEF WalkInv, LookedThrough, Places, Flow
  <1>7. ASSUME reported' = {} PROVE (\A j \in looked \cap Flow : FollowedTo(j))' /\ Acyclic(Black)'
    <2>1. Acyclic(Black)'
      BY <1>3, <1>7 DEF WalkInv, NothingSoFar, Acyclic, Successors, Places, Flow
    <2>2. ASSUME NEW j \in looked \cap Flow PROVE FollowedTo(j)'
      <3>1. FollowedTo(j)
        BY <1>7, <2>2 DEF WalkInv, NothingSoFar
      <3> QED
        BY <3>1, <1>3, <1>4 DEF FollowedTo
    <2>3. FollowedTo(i)'
      <3>1. stack'[Len(stack)] = edges[i].from /\ Len(stack) \in DOMAIN stack' /\ Len(stack) + 1 \in DOMAIN stack'
        BY <1>1, <1>4, Shapes DEF TopNode
      <3> QED
        BY <3>1, <1>4 DEF FollowedTo
    <2> QED
      BY <2>1, <2>2, <2>3 DEF Flow
  <1> QED
    BY <1>2, <1>5, <1>6, <1>7 DEF WalkInv, NothingSoFar, Checked

LEMMA FollowToBlackKeeps ==
  ASSUME WalkInv, NEW i \in DOMAIN edges, FollowToBlack(i)
  PROVE  WalkInv'
  <1> USE DEF FollowToBlack, sort
  <1>1. i \in Flow /\ edges[i].to \in Nodes
    BY Shapes DEF NextLine, Places
  <1>2. FlowTypeOK'
    <2>1. looked' \subseteq Nat
      <3>1. edges \in Seq(Ends) /\ looked \subseteq Nat
        BY DEF WalkInv, FlowTypeOK
      <3>2. i \in Nat
        BY <3>1
      <3>3. \A j \in looked' : j \in looked \/ j = i
        OBVIOUS
      <3> QED
        BY <3>1, <3>2, <3>3
    <2> QED
      BY <2>1 DEF WalkInv, FlowTypeOK
  <1>3. LookedThrough'
    BY DEF WalkInv, LookedThrough, Black, Places, Flow
  <1>4. ASSUME reported' = {} PROVE (\A j \in looked \cap Flow : FollowedTo(j))' /\ Acyclic(Black)'
    <2>1. \A j \in looked \cap Flow : FollowedTo(j)
      BY <1>4 DEF WalkInv, NothingSoFar
    <2>2. edges[i].to \in Black
      BY <1>1 DEF Black
    <2>3. Acyclic(Black)'
      <3>1. Black' = Black
        BY DEF Black
      <3> QED
        BY <3>1, <1>4 DEF WalkInv, NothingSoFar, Acyclic, Successors, Places, Flow
    <2> QED
      BY <2>1, <2>2, <2>3 DEF FollowedTo, Flow, Black
  <1> QED
    BY <1>2, <1>3, <1>4 DEF WalkInv, GreyIsTheStack, NothingSoFar, Checked

(* The node that is left has no way to itself: all it leads to was done before.*)
LEMMA LeaveKeeps ==
  ASSUME WalkInv, Leave
  PROVE  WalkInv'
  <1> DEFINE n == TopNode
  <1> USE DEF Leave, sort
  <1>1. n \in Nodes /\ colour[n] = "grey" /\ Len(stack) \in DOMAIN stack /\ stack[Len(stack)] = n
    BY Shapes DEF TopNode
  <1>2. /\ DOMAIN stack' = 1..(Len(stack) - 1)
        /\ \A k \in DOMAIN stack' : k \in DOMAIN stack /\ stack'[k] = stack[k] /\ k # Len(stack)
    BY <1>1, Shapes DEF WalkInv, FlowTypeOK
  <1>3. FlowTypeOK'
    BY <1>1 DEF WalkInv, FlowTypeOK
  <1>4. Black' = Black \union {n} /\ n \notin Black
    BY <1>1 DEF WalkInv, FlowTypeOK, Black
  <1>5. GreyIsTheStack'
    <2>1. \A m \in Nodes : colour'[m] = "grey" <=> m # n /\ colour[m] = "grey"
      BY <1>1 DEF WalkInv, FlowTypeOK
    <2>2. \A k \in DOMAIN stack : stack[k] = n => k = Len(stack)
      BY <1>1 DEF WalkInv, GreyIsTheStack
    <2>3. DOMAIN stack' = DOMAIN stack \ {Len(stack)}
      BY <1>2, Shapes
    <2>4. \A m \in Nodes : colour'[m] = "grey" <=> \E k \in DOMAIN stack' : stack'[k] = m
      BY <1>1, <1>2, <2>1, <2>2, <2>3 DEF WalkInv, GreyIsTheStack
    <2> QED
      BY <1>2, <2>4 DEF WalkInv, GreyIsTheStack
  <1>6. LookedThrough'
    BY <1>4 DEF WalkInv, LookedThrough, Places, Flow
  <1>7. ASSUME reported' = {} PROVE (\A i \in looked \cap Flow : FollowedTo(i))' /\ Acyclic(Black)'
    <2>1. \A i \in looked \cap Flow : FollowedTo(i)
      BY <1>7 DEF WalkInv, NothingSoFar
    <2>2. ASSUME NEW i \in looked \cap Flow PROVE FollowedTo(i)'
      <3>1. CASE edges[i].to \in Black
        BY <3>1, <1>4 DEF FollowedTo
      <3>2. ASSUME NEW k \in DOMAIN stack, k + 1 \in DOMAIN stack,
                   stack[k] = edges[i].from, stack[k + 1] = edges[i].to
            PROVE  FollowedTo(i)'
        <4>1. CASE k + 1 = Len(stack)
          BY <4>1, <3>2, <1>1, <1>4 DEF FollowedTo
        <4>2. CASE k + 1 # Len(stack)
          <5>1. k \in DOMAIN stack' /\ k + 1 \in DOMAIN stack'
            BY <4>2, <3>2, <1>2, Shapes
          <5> QED
            BY <5>1, <3>2, <1>2 DEF FollowedTo
        <4> QED
          BY <4>1, <4>2
      <3> QED
        BY <2>1, <2>2, <3>1, <3>2 DEF FollowedTo
    <2>3. \A m \in Black' : Successors(m) \subseteq Black
      <3>1. ASSUME NEW m \in Black', NEW i \in Places(m) PROVE edges[i].to \in Black
        <4>1. i \in looked \cap Flow /\ edges[i].from = m
          BY <3>1, <1>4 DEF WalkInv, LookedThrough, Places
        <4>2. ASSUME NEW k \in DOMAIN stack, k + 1 \in DOMAIN stack, stack[k] = m PROVE FALSE
          <5>1. m = n
            BY <4>2, <1>4, <3>1, Shapes DEF WalkInv, GreyIsTheStack, Black
          <5>2. k = Len(stack)
            BY <5>1, <4>2, <1>1 DEF WalkInv, GreyIsTheStack
          <5> QED
            BY <5>2, <4>2, Shapes
        <4> QED
          BY <4>1, <4>2, <2>1 DEF FollowedTo
      <3> QED
        BY <3>1 DEF Successors
    <2>4. ASSUME NEW S \in SUBSET Black', S # {} PROVE \E m \in S : Successors(m) \cap S = {}
      <3>1. \A T \in SUBSET Black : T # {} => \E m \in T : Successors(m) \cap T = {}
        BY <1>7 DEF WalkInv, NothingSoFar, Acyclic
      <3>2. CASE n \notin S
        BY <3>1, <3>2, <2>4, <1>4
      <3>3. CASE S = {n}
        BY <3>3, <2>3, <1>4
      <3>4. CASE n \in S /\ S # {n}
        <4>1. S \ {n} \in SUBSET Black /\ S \ {n} # {}
          BY <3>4, <2>4, <1>4
        <4>2. PICK m \in S \ {n} : Successors(m) \cap (S \ {n}) = {}
          BY <4>1, <3>1
        <4>3. n \notin Successors(m)
          BY <4>1, <4>2, <2>3, <1>4
        <4> QED
          BY <4>2, <4>3
      <3> QED
        BY <3>2, <3>3, <3>4
    <2>5. Acyclic(Black)'
      BY <2>4 DEF Acyclic, Successors, Places, Flow
    <2> QED
      BY <2>2, <2>5 DEF Flow
  <1> QED
    BY <1>3, <1>5, <1>6, <1>7 DEF WalkInv, NothingSoFar, Checked

-----------------------------------------------------------------------------
(* The sort, which only reads what the walk left.                              *)

LEMMA CountsAreNumbers ==
  ASSUME WalkInv
  PROVE  \A m, n \in Nodes : Cardinality(Arriving(m)) \in Nat /\ Cardinality(Places(n) \cap Arriving(m)) \in Nat
  <1> SUFFICES ASSUME NEW m \in Nodes, NEW n \in Nodes
               PROVE  Cardinality(Arriving(m)) \in Nat /\ Cardinality(Places(n) \cap Arriving(m)) \in Nat
    OBVIOUS
  <1>1. DOMAIN edges = 1..Len(edges) /\ Len(edges) \in Nat
    BY DEF WalkInv, FlowTypeOK
  <1>2. IsFiniteSet(DOMAIN edges)
    BY <1>1, FS_Interval
  <1>3. Arriving(m) \subseteq DOMAIN edges /\ Places(n) \cap Arriving(m) \subseteq DOMAIN edges
    BY DEF Arriving, Flow
  <1>4. IsFiniteSet(Arriving(m)) /\ IsFiniteSet(Places(n) \cap Arriving(m))
    BY <1>2, <1>3, FS_Subset
  <1> QED
    BY <1>4, FS_CardinalityType

LEMMA TakeKeeps ==
  ASSUME WalkInv, NEW n \in Nodes, Take(n)
  PROVE  WalkInv'
  <1> USE DEF Take
  <1>1. out' \in Seq(Nodes)
    BY DEF WalkInv, FlowTypeOK
  <1>2. ready' \subseteq Nodes
    BY Shapes DEF WalkInv, FlowTypeOK
  <1>3. incoming' \in [Nodes -> Int]
    BY CountsAreNumbers DEF Taken, WalkInv, FlowTypeOK
  <1> QED
    BY <1>1, <1>2, <1>3, WalkUntouched DEF WalkInv, FlowTypeOK, walk, Checked

LEMMA StartSortKeeps ==
  ASSUME WalkInv, StartSort
  PROVE  WalkInv'
  <1> USE DEF StartSort
  <1>1. incoming' \in [Nodes -> Int]
    <2>1. ASSUME NEW m \in Nodes PROVE Cardinality(Arriving(m)) \in Int
      <3>1. Cardinality(Arriving(m)) \in Nat
        BY CountsAreNumbers, Zenon
      <3> QED
        BY <3>1
    <2> QED
      BY <2>1
  <1>2. FlowTypeOK'
    BY <1>1 DEF WalkInv, FlowTypeOK, walk
  <1> QED
    BY <1>2, WalkUntouched DEF WalkInv, Checked

LEMMA ResumeKeeps ==
  ASSUME WalkInv, Resume
  PROVE  WalkInv'
  <1>1. FlowTypeOK'
    BY DEF WalkInv, FlowTypeOK, Resume, White, Waits0
  <1> QED
    BY <1>1, FreshKeeps DEF Resume, Fresh, White

-----------------------------------------------------------------------------
(* Every step keeps the invariant.                                             *)
LEMMA NextWalkInv == WalkInv /\ [FlowNext]_flowVars => WalkInv'
  <1> SUFFICES ASSUME WalkInv, [FlowNext]_flowVars PROVE WalkInv'
    OBVIOUS
  <1>1. ASSUME NEW a \in Nodes, NEW b \in Nodes, Draw(a, b) PROVE WalkInv'
    BY <1>1, DrawKeeps
  <1>2. ASSUME NEW i \in DOMAIN edges, Erase(i) PROVE WalkInv'
    BY <1>2, EraseKeeps
  <1>3. CASE StartCheck
    BY <1>3, WalkUntouched DEF StartCheck, WalkInv, FlowTypeOK, walk, sort, Checked
  <1>4. CASE EndCheck
    BY <1>4, WalkUntouched DEF EndCheck, WalkInv, FlowTypeOK, walk, sort, Checked, AllVisited
  <1>5. CASE StartSort
    BY <1>5, StartSortKeeps
  <1>6. CASE EndSort
    BY <1>6, WalkUntouched DEF EndSort, WalkInv, FlowTypeOK, walk, sort, Checked
  <1>7. CASE Resume
    BY <1>7, ResumeKeeps
  <1>8. CASE Leave
    BY <1>8, LeaveKeeps
  <1>9. ASSUME NEW n \in Nodes, Root(n) \/ Take(n) PROVE WalkInv'
    BY <1>9, RootKeeps, TakeKeeps
  <1>10. ASSUME NEW i \in DOMAIN edges, FollowToGrey(i) \/ FollowToWhite(i) \/ FollowToBlack(i)
         PROVE  WalkInv'
    BY <1>10, FollowToGreyKeeps, FollowToWhiteKeeps, FollowToBlackKeeps
  <1>11. CASE UNCHANGED flowVars
    BY <1>11, WalkUntouched DEF flowVars, walk, sort, WalkInv, FlowTypeOK, Checked
  <1> QED
    BY <1>1, <1>2, <1>3, <1>4, <1>5, <1>6, <1>7, <1>8, <1>9, <1>10, <1>11 DEF FlowNext

LEMMA AlwaysWalkInv == FlowSpec => []WalkInv
  BY InitWalkInv, NextWalkInv, PTL DEF FlowSpec

(* Every variable of the walk and of the sort keeps its type.                  *)
THEOREM FlowTypesStay == FlowSpec => []FlowTypeOK
  <1>1. WalkInv => FlowTypeOK
    BY DEF WalkInv
  <1> QED
    BY <1>1, AlwaysWalkInv, PTL

(* A graph the walk has nothing to say against has no flow cycle, however many *)
(* nodes and lines it has and in whatever order the walk meets them. When the  *)
(* walk is over a node with a way out is done; among nodes that are done there *)
(* is no cycle; and a node without a way out is on none.                       *)
THEOREM CleanGraphsAreAcyclic == FlowSpec => []CleanMeansAcyclic
  <1>1. WalkInv => CleanMeansAcyclic
    <2> SUFFICES ASSUME WalkInv, Checked, reported = {}, NEW S \in SUBSET Nodes, S # {},
                        \A n \in S : Successors(n) \cap S # {}
                 PROVE  FALSE
      BY DEF CleanMeansAcyclic, Acyclic
    <2>1. ASSUME NEW n \in S PROVE n \in Black
      <3>1. PICK i \in Places(n) : TRUE
        BY DEF Successors
      <3>2. colour[n] # "white"
        BY <3>1 DEF WalkInv, AllVisited, Places
      <3>3. colour[n] # "grey"
        BY DEF WalkInv, AllVisited, GreyIsTheStack
      <3> QED
        BY <3>2, <3>3 DEF WalkInv, FlowTypeOK, Black
    <2>2. Acyclic(Black)
      BY DEF WalkInv, NothingSoFar
    <2> QED
      BY <2>1, <2>2 DEF Acyclic
  <1> QED
    BY <1>1, AlwaysWalkInv, PTL
-----------------------------------------------------------------------------
(* What the walk names, and what the page draws.                               *)

(* The way the walk came: each node of the stack leads to the one above it.    *)
StackIsAWay == \A k \in DOMAIN stack : k + 1 \in DOMAIN stack => stack[k + 1] \in Successors(stack[k])

IsACycle(path) ==
  /\ path[1] = path[Len(path)]
  /\ Len(path) > 1
  /\ \A k \in 1..(Len(path) - 1) : path[k + 1] \in Successors(path[k])

NamedSoFar == \A path \in reported : IsACycle(path)

(* NamedPathsAreCycles while the walk is under way.                            *)
NamingInv == StackIsAWay /\ NamedSoFar

LEMMA NamingUntouched ==
  ASSUME NamingInv, UNCHANGED <<edges, stack, reported>>
  PROVE  NamingInv'
  <1>1. \A n : Successors(n)' = Successors(n)
    BY DEF Successors, Places, Flow
  <1> QED
    BY <1>1 DEF NamingInv, StackIsAWay, NamedSoFar, IsACycle

LEMMA FreshNaming ==
  ASSUME Fresh'
  PROVE  NamingInv'
  BY DEF Fresh, NamingInv, StackIsAWay, NamedSoFar

(* The stack above k, and back to its node, is a cycle.                        *)
LEMMA FollowToGreyNames ==
  ASSUME WalkInv, NamingInv, NEW i \in DOMAIN edges, FollowToGrey(i)
  PROVE  NamingInv'
  <1> USE DEF FollowToGrey
  <1>1. \A n : Successors(n)' = Successors(n)
    BY DEF Successors, Places, Flow
  <1>2. edges[i].to \in Successors(TopNode)
    BY DEF NextLine, Successors
  <1>3. ASSUME NEW k \in Closes(edges[i].to) PROVE IsACycle(CycleAt(k))
    <2> DEFINE part == SubSeq(stack, k, Len(stack))
               path == CycleAt(k)
    <2>1. k \in 1..Len(stack) /\ Len(stack) \in Nat /\ stack \in Seq(Nodes) /\ stack[k] = edges[i].to
      BY Shapes DEF Closes, WalkInv, FlowTypeOK
    <2>2. /\ part \in Seq(Nodes) /\ Len(part) = Len(stack) - k + 1
          /\ \A j \in 1..Len(part) : part[j] = stack[k + j - 1]
      BY <2>1
    <2>3. /\ Len(path) = Len(stack) - k + 2
          /\ Len(path) \in Nat
          /\ path[Len(path)] = stack[k]
          /\ \A j \in 1..(Len(path) - 1) : path[j] = stack[k + j - 1]
      BY <2>1, <2>2 DEF CycleAt
    <2>6. k \in Nat /\ Len(stack) \in Nat /\ Len(path) \in Nat /\ Len(path) = Len(stack) - k + 2
      BY <2>1, <2>3
    <2>7. \A j \in 1..(Len(path) - 1) : path[j] = stack[k + j - 1]
      BY <2>3
    <2>8. DOMAIN stack = 1..Len(stack) /\ k >= 1
      BY <2>1
    <2>4. path[1] = path[Len(path)] /\ Len(path) > 1
      BY <2>1, <2>3
    <2> HIDE DEF part, path
    <2>5. ASSUME NEW j \in 1..(Len(path) - 1) PROVE path[j + 1] \in Successors(path[j])
      <3>0. j \in Nat /\ k \in Nat /\ path[j] = stack[k + j - 1]
        BY <2>1, <2>3
      <3>1. CASE j = Len(path) - 1
        <4>1. k + j - 1 = Len(stack) /\ j + 1 = Len(path)
          BY <3>0, <3>1, <2>6
        <4>2. path[j] = TopNode /\ path[j + 1] = edges[i].to
          BY <3>0, <4>1, <2>1, <2>3 DEF TopNode
        <4> QED
          BY <4>2, <1>2
      <3>2. CASE j # Len(path) - 1
        <4>0. j + 1 \in 1..(Len(path) - 1) /\ k + (j + 1) - 1 = k + j - 1 + 1
          <5>1. j < Len(path) - 1
            BY <3>0, <3>2, <2>6
          <5>2. j + 1 \in Nat /\ 1 <= j + 1 /\ j + 1 <= Len(path) - 1
            BY <5>1, <3>0, <2>6
          <5>3. k + (j + 1) - 1 = k + j - 1 + 1
            BY <3>0, <2>6
          <5> QED
            BY <5>2, <5>3, <2>6
        <4>1. path[j] = stack[k + j - 1] /\ path[j + 1] = stack[k + j - 1 + 1]
          <5>1. path[j + 1] = stack[k + (j + 1) - 1]
            BY <2>7, <4>0
          <5> QED
            BY <5>1, <3>0, <4>0
        <4>2. k + j - 1 \in DOMAIN stack /\ k + j - 1 + 1 \in DOMAIN stack
          <5>1. j < Len(path) - 1 /\ 1 <= j
            BY <3>0, <3>2, <2>6
          <5>2. k + j - 1 \in 1..Len(stack) /\ k + j - 1 + 1 \in 1..Len(stack)
            BY <5>1, <3>0, <2>6, <2>8
          <5> QED
            BY <5>2, <2>8
        <4> QED
          BY <4>1, <4>2 DEF NamingInv, StackIsAWay
      <3> QED
        BY <3>1, <3>2
    <2> QED
      BY <2>4, <2>5 DEF IsACycle, path
  <1>4. \A path \in reported' : IsACycle(path)
    BY <1>3 DEF NamingInv, NamedSoFar
  <1> QED
    BY <1>1, <1>4 DEF NamingInv, NamedSoFar, IsACycle, StackIsAWay

LEMMA FollowToWhiteNames ==
  ASSUME WalkInv, NamingInv, NEW i \in DOMAIN edges, FollowToWhite(i)
  PROVE  NamingInv'
  <1> USE DEF FollowToWhite
  <1>1. \A n : Successors(n)' = Successors(n)
    BY DEF Successors, Places, Flow
  <1>2. edges[i].to \in Successors(TopNode)
    BY DEF NextLine, Successors
  <1>3. stack \in Seq(Nodes) /\ Len(stack) \in Nat /\ edges[i].to \in Nodes
    BY Shapes DEF WalkInv, FlowTypeOK, NextLine, Places
  <1>4. /\ DOMAIN stack' = 1..(Len(stack) + 1)
        /\ stack'[Len(stack) + 1] = edges[i].to
        /\ \A k \in 1..Len(stack) : stack'[k] = stack[k]
    BY <1>3
  <1>5. ASSUME NEW k \in DOMAIN stack', k + 1 \in DOMAIN stack' PROVE stack'[k + 1] \in Successors(stack'[k])
    <2>1. CASE k = Len(stack)
      BY <2>1, <1>2, <1>3, <1>4, <1>5 DEF TopNode
    <2>2. CASE k # Len(stack)
      BY <2>2, <1>3, <1>4, <1>5 DEF NamingInv, StackIsAWay
    <2> QED
      BY <2>1, <2>2
  <1> QED
    BY <1>1, <1>5 DEF NamingInv, NamedSoFar, IsACycle, StackIsAWay

LEMMA NextNamingInv == WalkInv /\ NamingInv /\ [FlowNext]_flowVars => NamingInv'
  <1> SUFFICES ASSUME WalkInv, NamingInv, [FlowNext]_flowVars PROVE NamingInv'
    OBVIOUS
  <1>1. ASSUME NEW a \in Nodes, NEW b \in Nodes, Draw(a, b) PROVE NamingInv'
    BY <1>1, FreshNaming DEF Draw, WalkInv, Fresh, walk
  <1>2. ASSUME NEW i \in DOMAIN edges, Erase(i) PROVE NamingInv'
    BY <1>2, FreshNaming DEF Erase, WalkInv, Fresh, walk
  <1>3. CASE StartCheck \/ EndCheck \/ StartSort \/ EndSort
    BY <1>3, NamingUntouched DEF StartCheck, EndCheck, StartSort, EndSort, walk
  <1>4. CASE Resume
    BY <1>4, FreshNaming DEF Resume, Fresh
  <1>5. CASE Leave
    <2>1. /\ Len(stack) \in Nat
          /\ DOMAIN stack' = 1..(Len(stack) - 1)
          /\ \A k \in DOMAIN stack' : k \in DOMAIN stack /\ stack'[k] = stack[k]
      BY <1>5, Shapes DEF Leave, WalkInv, FlowTypeOK
    <2>2. \A n : Successors(n)' = Successors(n)
      BY <1>5 DEF Leave, Successors, Places, Flow
    <2> QED
      BY <1>5, <2>1, <2>2 DEF Leave, NamingInv, NamedSoFar, IsACycle, StackIsAWay
  <1>6. ASSUME NEW n \in Nodes, Root(n) PROVE NamingInv'
    <2>1. \A m : Successors(m)' = Successors(m)
      BY <1>6 DEF Root, Successors, Places, Flow
    <2>2. DOMAIN stack' = {1}
      BY <1>6 DEF Root
    <2> QED
      BY <1>6, <2>1, <2>2 DEF Root, NamingInv, NamedSoFar, IsACycle, StackIsAWay
  <1>7. ASSUME NEW n \in Nodes, Take(n) PROVE NamingInv'
    BY <1>7, NamingUntouched DEF Take, walk
  <1>8. ASSUME NEW i \in DOMAIN edges, FollowToBlack(i) PROVE NamingInv'
    BY <1>8, NamingUntouched DEF FollowToBlack
  <1>9. ASSUME NEW i \in DOMAIN edges, FollowToGrey(i) \/ FollowToWhite(i) PROVE NamingInv'
    BY <1>9, FollowToGreyNames, FollowToWhiteNames
  <1>10. CASE UNCHANGED flowVars
    BY <1>10, NamingUntouched DEF flowVars, walk
  <1> QED
    BY <1>1, <1>2, <1>3, <1>4, <1>5, <1>6, <1>7, <1>8, <1>9, <1>10 DEF FlowNext

(* No line that was drawn is refused, whichever others are erased.             *)
LEMMA NextProposals == WalkInv /\ ProposalsAreLegal /\ [FlowNext]_flowVars => ProposalsAreLegal'
  <1> SUFFICES ASSUME WalkInv, ProposalsAreLegal, [FlowNext]_flowVars PROVE ProposalsAreLegal'
    OBVIOUS
  <1>1. ASSUME NEW a \in Nodes, NEW b \in Nodes, Draw(a, b) PROVE ProposalsAreLegal'
    <2> DEFINE e == [from |-> a, to |-> b, kind |-> ProposeGraphEdge(a, b)]
    <2>1. EdgeFaults(e) = {}
      BY <1>1 DEF Draw, EdgeFaults, ProposeGraphEdge
    <2>2. /\ Len(edges) \in Nat /\ DOMAIN edges' = 1..(Len(edges) + 1)
          /\ edges'[Len(edges) + 1] = e
          /\ \A i \in 1..Len(edges) : edges'[i] = edges[i] /\ i \in DOMAIN edges
      <3>1. e \in Ends
        BY <1>1 DEF Draw, ProposeGraphEdge, Ends
      <3>2. edges \in Seq(Ends) /\ edges' = Append(edges, e)
        BY <1>1 DEF Draw, WalkInv, FlowTypeOK
      <3> HIDE DEF e
      <3> QED
        BY <3>1, <3>2
    <2>3. ASSUME NEW i \in DOMAIN edges' PROVE EdgeFaults(edges'[i]) = {}
      <3>1. CASE i = Len(edges) + 1
        BY <3>1, <2>1, <2>2
      <3>2. CASE i # Len(edges) + 1
        BY <3>2, <2>2 DEF ProposalsAreLegal
      <3> QED
        BY <3>1, <3>2
    <2> QED
      BY <2>3 DEF ProposalsAreLegal, EdgeFaults
  <1>2. ASSUME NEW i \in DOMAIN edges, Erase(i) PROVE ProposalsAreLegal'
    <2>1. edges \in Seq(Ends) /\ DOMAIN edges = 1..Len(edges) /\ Len(edges) \in Nat /\ i \in 1..Len(edges)
      BY DEF WalkInv, FlowTypeOK
    <2>2. \A j \in DOMAIN edges' : \E k \in DOMAIN edges : edges'[j] = edges[k]
      <3>1. /\ DOMAIN edges' = 1..(Len(edges) - 1)
            /\ \A j \in 1..(i - 1) : edges'[j] = edges[j]
            /\ \A j \in i..(Len(edges) - 1) : edges'[j] = edges[j + 1]
        <4> DEFINE before == SubSeq(edges, 1, i - 1)
                   after  == SubSeq(edges, i + 1, Len(edges))
        <4>1. before \in Seq(Ends) /\ Len(before) = i - 1 /\ \A j \in 1..(i - 1) : before[j] = edges[j]
          BY <2>1
        <4>2. /\ after \in Seq(Ends) /\ Len(after) = Len(edges) - i
              /\ \A j \in 1..(Len(edges) - i) : after[j] = edges[i + j]
          BY <2>1
        <4>3. edges' = before \o after
          BY <1>2 DEF Erase
        <4> HIDE DEF before, after
        <4>4. Len(edges') = Len(edges) - 1 /\ DOMAIN edges' = 1..(Len(edges) - 1)
          <5>1. Len(edges') = Len(before) + Len(after) /\ edges' \in Seq(Ends)
            <6>1. before \in Seq(Ends) /\ after \in Seq(Ends)
              BY <4>1, <4>2
            <6>2. Len(before \o after) = Len(before) + Len(after) /\ before \o after \in Seq(Ends)
              BY ONLY <6>1, ConcatProperties
            <6> QED
              BY ONLY <6>2, <4>3
          <5>2. Len(edges) \in Nat /\ i \in Nat
            BY <2>1
          <5>3. Len(edges') = Len(edges) - 1
            BY <5>1, <5>2, <4>1, <4>2
          <5> QED
            BY <5>1, <5>3
        <4>5. \A j \in 1..(i - 1) : edges'[j] = before[j]
          BY <4>1, <4>2, <4>3, <2>1
        <4>6. ASSUME NEW j \in i..(Len(edges) - 1) PROVE edges'[j] = edges[j + 1]
          <5>1. edges'[j] = after[j - (i - 1)]
            BY <4>1, <4>2, <4>3, <2>1
          <5>2. j - (i - 1) \in 1..(Len(edges) - i) /\ i + (j - (i - 1)) = j + 1
            BY <2>1
          <5> QED
            BY <5>1, <5>2, <4>2
        <4> QED
          BY <4>1, <4>4, <4>5, <4>6
      <3> SUFFICES ASSUME NEW j \in DOMAIN edges' PROVE \E k \in DOMAIN edges : edges'[j] = edges[k]
        OBVIOUS
      <3>2. CASE j < i
        BY <3>1, <3>2, <2>1
      <3>3. CASE ~(j < i)
        <4>1. edges'[j] = edges[j + 1] /\ j + 1 \in DOMAIN edges
          BY <3>1, <3>3, <2>1
        <4> QED
          BY <4>1
      <3> QED
        BY <3>2, <3>3
    <2>3. \A j \in DOMAIN edges' : EdgeFaults(edges'[j]) = {}
      BY <2>2 DEF ProposalsAreLegal
    <2> QED
      BY <2>3 DEF ProposalsAreLegal, EdgeFaults
  <1>3. CASE UNCHANGED edges
    BY <1>3 DEF ProposalsAreLegal, EdgeFaults
  <1>4. UNCHANGED edges \/ (\E a, b \in Nodes : Draw(a, b)) \/ (\E i \in DOMAIN edges : Erase(i))
    BY DEF FlowNext, StartCheck, EndCheck, StartSort, EndSort, Resume, Leave, Root, Take,
           FollowToGrey, FollowToWhite, FollowToBlack, flowVars
  <1> QED
    BY <1>1, <1>2, <1>3, <1>4

(* What the walk that blocks Run says of a graph is so: a clean graph has no   *)
(* cycle, a path it names is one, and no line the page proposes is refused.    *)
THEOREM TheCheckIsRight == FlowSpec => []CheckIsRight
  <1>1. FlowInit => NamingInv /\ ProposalsAreLegal
    BY DEF FlowInit, NamingInv, StackIsAWay, NamedSoFar, ProposalsAreLegal
  <1>2. WalkInv /\ (NamingInv /\ ProposalsAreLegal) /\ [FlowNext]_flowVars => (NamingInv /\ ProposalsAreLegal)'
    BY NextNamingInv, NextProposals
  <1>3. CleanMeansAcyclic /\ NamingInv /\ ProposalsAreLegal => CheckIsRight
    BY DEF CheckIsRight, NamingInv, NamedSoFar, IsACycle, NamedPathsAreCycles
  <1> QED
    BY <1>1, <1>2, <1>3, AlwaysWalkInv, CleanGraphsAreAcyclic, PTL DEF FlowSpec
-----------------------------------------------------------------------------
(* What the order of the nodes is worth.                                       *)

(* Each of them has one of them before it.                                     *)
AllLedTo(S) == \A n \in S : \E m \in S : n \in Successors(m)

(* Where no nodes keep a cycle going, none are all led to by each other: of    *)
(* the smallest such set one node leads nowhere in it, and the rest is smaller.*)
LEMMA SomeNodeIsNotLedTo ==
  ASSUME Acyclic(Nodes), NEW S \in SUBSET Nodes, AllLedTo(S)
  PROVE  S = {}
  <1> SUFFICES ASSUME S # {} PROVE FALSE
    OBVIOUS
  <1> DEFINE Led   == {T \in SUBSET S : T # {} /\ AllLedTo(T)}
             Sizes == {Cardinality(T) : T \in Led}
  <1>1. \A T \in Led : IsFiniteSet(T) /\ Cardinality(T) \in Nat
    <2> SUFFICES ASSUME NEW T \in Led PROVE IsFiniteSet(T) /\ Cardinality(T) \in Nat
      OBVIOUS
    <2>1. T \subseteq Nodes
      OBVIOUS
    <2>2. IsFiniteSet(T)
      BY <2>1, FS_Subset
    <2> QED
      BY <2>2, FS_CardinalityType
  <1>2. Sizes \in SUBSET Nat /\ Sizes # {}
    <2>1. S \in Led
      OBVIOUS
    <2> QED
      BY <2>1, <1>1
  <1>3. PICK T \in Led : \A U \in Led : Cardinality(T) <= Cardinality(U)
    <2> HIDE DEF Led
    <2>1. PICK c \in Sizes : \A d \in Sizes : c <= d
      BY <1>2, LeastNumber
    <2> QED
      BY <2>1
  <1>4. PICK s \in T : Successors(s) \cap T = {}
    BY DEF Acyclic
  <1>5. AllLedTo(T \ {s})
    <2> SUFFICES ASSUME NEW n \in T \ {s} PROVE \E m \in T \ {s} : n \in Successors(m)
      BY DEF AllLedTo
    <2>1. PICK m \in T : n \in Successors(m)
      BY DEF AllLedTo
    <2> QED
      BY <2>1, <1>4
  <1>6. T \ {s} # {}
    <2>1. PICK m \in T : s \in Successors(m)
      BY DEF AllLedTo
    <2> QED
      BY <2>1, <1>4
  <1>7. Cardinality(T \ {s}) = Cardinality(T) - 1
    BY <1>1, FS_RemoveElement
  <1>8. T \ {s} \in Led
    BY <1>5, <1>6
  <1>9. Cardinality(T) <= Cardinality(T \ {s})
    BY <1>3, <1>8
  <1>10. Cardinality(T) \in Nat
    BY <1>1
  <1> QED
    BY <1>7, <1>9, <1>10

(* The lines a node still waits for.                                           *)
Waiting(m) == {i \in Arriving(m) : edges[i].from \notin On(out)}

(* What every step of the sort keeps: nodes are worked once and after all that *)
(* leads to them, the counts are of the lines whose start is not worked yet,   *)
(* and the ready nodes are those that wait for none.                           *)
Once      == \A k, l \in DOMAIN out : out[k] = out[l] => k = l
AfterAll  == \A m \in On(out) : Waiting(m) = {}
InOrder   == \A k, l \in DOMAIN out : out[l] \in Successors(out[k]) => k < l
Counted   == \A m \in Nodes : incoming[m] = Cardinality(Waiting(m))
ReadyOnes == ready = {m \in Nodes \ On(out) : Waiting(m) = {}}

SortInv ==
  /\ phase \in {"sorting", "sorted"} => Once /\ AfterAll /\ InOrder /\ Counted /\ ReadyOnes
  /\ phase = "sorted" => ready = {}

LEMMA WaitingIsFinite ==
  ASSUME WalkInv, NEW m \in Nodes
  PROVE  IsFiniteSet(Arriving(m)) /\ IsFiniteSet(Waiting(m)) /\ Cardinality(Waiting(m)) \in Nat
  <1>1. DOMAIN edges = 1..Len(edges) /\ Len(edges) \in Nat
    BY DEF WalkInv, FlowTypeOK
  <1>2. IsFiniteSet(DOMAIN edges)
    BY <1>1, FS_Interval
  <1>3. Arriving(m) \subseteq DOMAIN edges /\ Waiting(m) \subseteq DOMAIN edges
    BY DEF Waiting, Arriving, Flow
  <1>4. IsFiniteSet(Arriving(m)) /\ IsFiniteSet(Waiting(m))
    BY <1>2, <1>3, FS_Subset
  <1> QED
    BY <1>4, FS_CardinalityType

LEMMA StartSortSorts ==
  ASSUME WalkInv, StartSort
  PROVE  SortInv'
  <1> USE DEF StartSort
  <1>1. On(out)' = {}
    BY DEF On
  <1>2. \A m : Waiting(m)' = Arriving(m)
    BY <1>1 DEF Waiting, Arriving, Flow
  <1>3. Counted' /\ ReadyOnes' /\ AfterAll'
    BY <1>1, <1>2 DEF Counted, ReadyOnes, AfterAll
  <1>4. Once' /\ InOrder'
    BY DEF Once, InOrder
  <1> QED
    BY <1>3, <1>4 DEF SortInv

(* The node that is taken waits for nothing, so it does not lead to itself,    *)
(* nor to one that was worked before.                                          *)
LEMMA TakeSorts ==
  ASSUME WalkInv, SortInv, NEW n \in Nodes, Take(n)
  PROVE  SortInv'
  <1> USE DEF Take
  <1>1. Once /\ AfterAll /\ InOrder /\ Counted /\ ReadyOnes
    BY DEF SortInv
  <1>2. n \notin On(out) /\ Waiting(n) = {}
    BY <1>1 DEF ReadyOnes
  <1>3. /\ Len(out) \in Nat /\ DOMAIN out' = 1..(Len(out) + 1) /\ DOMAIN out = 1..Len(out)
        /\ out'[Len(out) + 1] = n
        /\ \A k \in 1..Len(out) : out'[k] = out[k] /\ out'[k] \in On(out)
    BY DEF WalkInv, FlowTypeOK, On
  <1>4. On(out') = On(out) \union {n}
    <2>1. DOMAIN out' = DOMAIN out \union {Len(out) + 1}
      BY <1>3
    <2> QED
      BY <1>3, <2>1 DEF On
  <1>5. \A m : Arriving(m)' = Arriving(m) /\ Places(m)' = Places(m) /\ Successors(m)' = Successors(m)
    BY DEF Arriving, Places, Successors, Flow
  <1>6. \A m : Waiting(m)' = Waiting(m) \ Places(n)
    BY <1>4, <1>5 DEF Waiting, Places, Arriving
  <1>7. \A m \in Nodes : m \in Successors(n) => m \notin On(out) /\ m # n
    <2> SUFFICES ASSUME NEW m \in Nodes, m \in Successors(n) PROVE m \notin On(out) /\ m # n
      OBVIOUS
    <2>1. PICK i \in Places(n) : m = edges[i].to
      BY DEF Successors
    <2>2. i \in Waiting(m)
      BY <2>1, <1>2 DEF Waiting, Arriving, Places
    <2> QED
      BY <2>2, <1>1, <1>2 DEF AfterAll
  <1>8. Once'
    BY <1>1, <1>2, <1>3 DEF Once
  <1>9. AfterAll'
    <2>1. \A m \in On(out') : Waiting(m)' = {}
      BY <1>1, <1>2, <1>4, <1>6 DEF AfterAll
    <2> QED
      BY <2>1 DEF AfterAll
  <1>10. InOrder'
    <2> SUFFICES ASSUME NEW k \in DOMAIN out', NEW l \in DOMAIN out', out'[l] \in Successors(out'[k])
                 PROVE  k < l
      BY <1>5 DEF InOrder
    <2>1. out'[l] \in Nodes
      BY <1>3 DEF WalkInv, FlowTypeOK
    <2>2. CASE k = Len(out) + 1
      <3>1. out'[l] \in Successors(n)
        BY <2>2, <1>3
      <3>2. out'[l] \notin On(out) /\ out'[l] # n
        BY <3>1, <2>1, <1>7
      <3>3. l \in 1..Len(out) \/ l = Len(out) + 1
        BY <1>3
      <3> QED
        BY <3>2, <3>3, <1>3
    <2>3. CASE k # Len(out) + 1
      <3>1. k \in DOMAIN out /\ out'[k] = out[k]
        BY <2>3, <1>3
      <3>2. CASE l = Len(out) + 1
        BY <3>1, <3>2, <1>3
      <3>3. CASE l # Len(out) + 1
        BY <3>1, <3>3, <1>1, <1>3 DEF InOrder
      <3> QED
        BY <3>2, <3>3
    <2> QED
      BY <2>2, <2>3
  <1>11. ASSUME NEW m \in Nodes PROVE incoming'[m] = Cardinality(Waiting(m)')
    <2> DEFINE W == Waiting(m)
               P == Places(n) \cap Arriving(m)
    <2>1. IsFiniteSet(W) /\ Cardinality(W) \in Nat
      BY WaitingIsFinite
    <2>2. P \subseteq W
      BY <1>2 DEF Waiting, Places
    <2>3. W \ Places(n) = W \ P
      BY DEF Waiting
    <2>4. W \cap P = P
      BY <2>2
    <2>5. incoming'[m] = Cardinality(W) - Cardinality(P)
      BY <1>1 DEF Taken, Counted
    <2> HIDE DEF W, P
    <2>6. Cardinality(W \ P) = Cardinality(W) - Cardinality(W \cap P)
      BY <2>1, FS_Difference
    <2> QED
      BY <1>6, <2>3, <2>4, <2>5, <2>6 DEF W
  <1>12. ready' = {m \in Nodes \ On(out') : Waiting(m)' = {}}
    <2>1. ASSUME NEW m \in ready' PROVE m \in Nodes \ On(out') /\ Waiting(m)' = {}
      <3>1. CASE m \in ready /\ m # n
        BY <3>1, <1>1, <1>4, <1>6 DEF ReadyOnes
      <3>2. CASE m \in Successors(n) /\ incoming'[m] = 0
        <4>1. m \in Nodes
          BY <3>2, Shapes
        <4>2. IsFiniteSet(Waiting(m)')
          BY <1>6, <4>1, WaitingIsFinite, FS_Subset
        <4>3. Waiting(m)' = {}
          BY <4>1, <4>2, <3>2, <1>11, FS_EmptySet
        <4> QED
          BY <4>1, <4>3, <3>2, <1>4, <1>7
      <3> QED
        BY <2>1, <3>1, <3>2
    <2>2. ASSUME NEW m \in Nodes \ On(out'), Waiting(m)' = {} PROVE m \in ready'
      <3>1. CASE Waiting(m) = {}
        BY <3>1, <2>2, <1>1, <1>4 DEF ReadyOnes
      <3>2. CASE Waiting(m) # {}
        <4>1. PICK i \in Waiting(m) : i \in Places(n)
          BY <3>2, <2>2, <1>6
        <4>2. m \in Successors(n)
          BY <4>1 DEF Successors, Waiting, Arriving
        <4>3. incoming'[m] = 0
          BY <2>2, <1>11, FS_EmptySet
        <4> QED
          BY <4>2, <4>3
      <3> QED
        BY <3>1, <3>2
    <2> QED
      BY <2>1, <2>2
  <1>13. Counted' /\ ReadyOnes'
    BY <1>11, <1>12 DEF Counted, ReadyOnes
  <1> QED
    BY <1>8, <1>9, <1>10, <1>13 DEF SortInv

LEMMA SortUntouched ==
  ASSUME SortInv, UNCHANGED <<edges, sort>>, phase' = "sorted" => ready = {},
         phase' \in {"sorting", "sorted"} => phase \in {"sorting", "sorted"}
  PROVE  SortInv'
  BY DEF SortInv, sort, Once, AfterAll, InOrder, Counted, ReadyOnes, Waiting, Arriving, Successors, Places, Flow

LEMMA NextSortInv == WalkInv /\ SortInv /\ [FlowNext]_flowVars => SortInv'
  <1> SUFFICES ASSUME WalkInv, SortInv, [FlowNext]_flowVars PROVE SortInv'
    OBVIOUS
  <1>1. CASE StartSort
    BY <1>1, StartSortSorts
  <1>2. ASSUME NEW n \in Nodes, Take(n) PROVE SortInv'
    BY <1>2, TakeSorts
  <1>3. CASE EndSort
    BY <1>3, SortUntouched DEF EndSort
  <1>4. CASE phase' \notin {"sorting", "sorted"}
    BY <1>4 DEF SortInv
  <1>5. CASE UNCHANGED flowVars
    BY <1>5, SortUntouched DEF flowVars, SortInv
  <1>6. \/ phase' \notin {"sorting", "sorted"} \/ StartSort \/ EndSort \/ UNCHANGED flowVars
        \/ \E n \in Nodes : Take(n)
    BY DEF FlowNext, Draw, Erase, StartCheck, EndCheck, Resume, Leave, Root, FollowToGrey, FollowToWhite, FollowToBlack
  <1> QED
    BY <1>1, <1>2, <1>3, <1>4, <1>5, <1>6

(* As many nodes were worked as the order is long.                             *)
LEMMA AsManyAsTheOrder ==
  ASSUME WalkInv, Once
  PROVE  On(out) \subseteq Nodes /\ IsFiniteSet(On(out)) /\ Cardinality(On(out)) = Len(out)
  <1>1. Len(out) \in Nat /\ DOMAIN out = 1..Len(out) /\ On(out) \subseteq Nodes
    BY DEF WalkInv, FlowTypeOK, On
  <1>2. IsFiniteSet(1..Len(out)) /\ Cardinality(1..Len(out)) = Len(out)
    BY <1>1, FS_Interval
  <1>3. out \in Surjection(1..Len(out), On(out)) /\ out \in Injection(1..Len(out), On(out))
    <2>1. out \in [1..Len(out) -> On(out)]
      BY <1>1 DEF WalkInv, FlowTypeOK, On
    <2> QED
      BY <2>1, <1>1 DEF Surjection, Injection, IsInjective, Once, On
  <1> QED
    BY <1>1, <1>2, <1>3, FS_Surjection

(* When the sort is over it got through every node exactly when the walk had   *)
(* nothing to say: what is left over is all led to, and the first node of a    *)
(* cycle would be worked before the one that leads to it.                      *)
LEMMA TheyAgree ==
  ASSUME WalkInv, NamingInv, SortInv, CleanMeansAcyclic
  PROVE  RuntimeAgrees
  <1> SUFFICES ASSUME phase = "sorted" PROVE Len(out) = Cardinality(Nodes) <=> reported = {}
    BY DEF RuntimeAgrees
  <1>1. Once /\ AfterAll /\ InOrder /\ ReadyOnes /\ ready = {}
    BY DEF SortInv
  <1>2. On(out) \subseteq Nodes /\ IsFiniteSet(On(out)) /\ Cardinality(On(out)) = Len(out)
    BY <1>1, AsManyAsTheOrder
  <1>3. ASSUME reported = {} PROVE Len(out) = Cardinality(Nodes)
    <2>1. Acyclic(Nodes)
      BY <1>3 DEF CleanMeansAcyclic, Checked
    <2>2. AllLedTo(Nodes \ On(out))
      <3> SUFFICES ASSUME NEW n \in Nodes \ On(out) PROVE \E m \in Nodes \ On(out) : n \in Successors(m)
        BY DEF AllLedTo
      <3>1. PICK i \in Waiting(n) : TRUE
        BY <1>1 DEF ReadyOnes
      <3>2. i \in Flow /\ edges[i].to = n /\ edges[i].from \notin On(out)
        BY <3>1 DEF Waiting, Arriving
      <3>3. edges[i].from \in Nodes /\ n \in Successors(edges[i].from)
        BY <3>2, Shapes DEF Successors, Places
      <3> QED
        BY <3>2, <3>3
    <2>3. Nodes \ On(out) = {}
      BY <2>1, <2>2, SomeNodeIsNotLedTo
    <2>4. On(out) = Nodes
      BY <2>3, <1>2
    <2> QED
      BY <2>4, <1>2
  <1>4. ASSUME Len(out) = Cardinality(Nodes), reported # {} PROVE FALSE
    <2>1. On(out) = Nodes
      BY <1>2, <1>4, FS_Subset
    <2>2. PICK path \in reported : IsACycle(path)
      BY <1>4 DEF NamingInv, NamedSoFar
    <2>3. path \in Seq(Nodes) /\ Len(path) \in Nat /\ Len(path) > 1
      BY <2>2 DEF IsACycle, WalkInv, FlowTypeOK
    <2>4. AllLedTo(On(path))
      <3> SUFFICES ASSUME NEW n \in On(path) PROVE \E m \in On(path) : n \in Successors(m)
        BY DEF AllLedTo
      <3>1. PICK k \in 1..Len(path) : path[k] = n
        BY <2>3 DEF On
      <3>2. \E j \in 1..(Len(path) - 1) : path[j + 1] = n
        <4>1. CASE k = 1
          <5>1. path[Len(path) - 1 + 1] = n /\ Len(path) - 1 \in 1..(Len(path) - 1)
            BY <4>1, <3>1, <2>2, <2>3 DEF IsACycle
          <5> QED
            BY <5>1
        <4>2. CASE k # 1
          <5>1. path[k - 1 + 1] = n /\ k - 1 \in 1..(Len(path) - 1)
            BY <4>2, <3>1, <2>3
          <5> QED
            BY <5>1
        <4> QED
          BY <4>1, <4>2
      <3>3. PICK j \in 1..(Len(path) - 1) : path[j + 1] = n
        BY <3>2
      <3>4. n \in Successors(path[j]) /\ path[j] \in On(path)
        BY <3>3, <2>2, <2>3 DEF IsACycle, On
      <3> QED
        BY <3>4
    <2>5. On(path) # {} /\ On(path) \subseteq Nodes
      BY ONLY <2>3 DEF On
    <2> DEFINE When == {k \in DOMAIN out : out[k] \in On(path)}
    <2>6. When \in SUBSET Nat /\ When # {}
      BY <2>1, <2>5 DEF On, WalkInv, FlowTypeOK
    <2>7. PICK first \in When : \A k \in When : first <= k
      BY <2>6, LeastNumber
    <2>8. PICK m \in On(path) : out[first] \in Successors(m)
      BY <2>4 DEF AllLedTo
    <2>9. PICK k \in DOMAIN out : out[k] = m
      BY <2>1, <2>5, <2>8 DEF On
    <2>10. k \in When /\ k < first
      BY <2>8, <2>9, <1>1 DEF InOrder
    <2> QED
      BY <2>6, <2>7, <2>10
  <1> QED
    BY <1>3, <1>4

(* The runtime gets through the graphs that passed the check and through no    *)
(* others, each node after everything that flows into it, and once.            *)
THEOREM TheSortIsRight == FlowSpec => []SortIsRight
  <1>1. FlowInit => NamingInv /\ SortInv
    BY DEF FlowInit, NamingInv, StackIsAWay, NamedSoFar, SortInv
  <1>2. WalkInv /\ (NamingInv /\ SortInv) /\ [FlowNext]_flowVars => (NamingInv /\ SortInv)'
    BY NextNamingInv, NextSortInv
  <1>3. WalkInv /\ NamingInv /\ SortInv /\ CleanMeansAcyclic => SortIsRight
    <2> SUFFICES ASSUME WalkInv, NamingInv, SortInv, CleanMeansAcyclic PROVE SortIsRight
      OBVIOUS
    <2>1. OrderFollowsFlow
      BY DEF OrderFollowsFlow, SortInv, Once, InOrder
    <2> QED
      BY <2>1, TheyAgree DEF SortIsRight
  <1> QED
    BY <1>1, <1>2, <1>3, AlwaysWalkInv, CleanGraphsAreAcyclic, PTL DEF FlowSpec

-----------------------------------------------------------------------------
(* The instance.  A step of it is a step of one of the three modules, and   *)
(* leaves the other two alone.                                              *)
LEMMA StepsOfThree ==
  [ScenarioNext]_<<vars, flowVars, appSessionVars, scenario>> =>
     [Next]_vars /\ [FlowNext]_flowVars /\ [AppSessionNext]_appSessionVars
  BY DEF ScenarioNext, RunSteps, GraphSteps, AppSteps, Next

LEMMA EachIsItself == ScenarioSpec => Spec /\ FlowSpec /\ []AppInv
  <1>1. ScenarioInit => Init /\ FlowInit /\ AppSessionInit
    BY DEF ScenarioInit
  <1> QED
    BY <1>1, StepsOfThree, InitAppInv, NextAppInv, PTL DEF ScenarioSpec, Spec, FlowSpec

(* Whatever of the three a behavior is about, every variable keeps its type.*)
THEOREM TheThreeKeepTheirTypes == ScenarioSpec => []TypesOK
  <1>1. TypeOK /\ FlowTypeOK /\ AppInv => TypesOK
    BY DEF TypesOK, AppInv
  <1> QED
    BY <1>1, EachIsItself, TypeCorrect, FlowTypesStay, PTL
=============================================================================
