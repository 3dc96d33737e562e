---------------------------- MODULE RunLifecycle ---------------------------
(***************************************************************************)
(* One run of a graph: the row and the event log in Postgres (apps/api/src/ *)
(* project/runs.ts), the API that creates, dispatches, cancels and records  *)
(* it (http/run-routes.ts), the runner that walks the graph and reports     *)
(* home (runner/execute.py over civil_runtime/runner.py), and the page that *)
(* watches it (apps/web/src/App.tsx).  Runs do not touch one another.       *)
(*                                                                          *)
(* The runner sends one report at a time and waits for its answer, but      *)
(* gives up after 15 seconds: the handler of a report it gave up on may     *)
(* still be at work when the next one arrives.                              *)
(***************************************************************************)
EXTENDS Naturals, Sequences, FiniteSets

CONSTANTS
    NumNodes,       \* nodes the graph walks, in flow order
    Limit,          \* readEvents: events one answer carries at most
    MaxTicks,       \* bound: polls of the page in flight at once
    MaxGivenUp,     \* bound: reports the runner gives up on
    World           \* what may go wrong or be asked for

ASSUME RunLifecycleAssumption ==
    /\ NumNodes \in Nat /\ Limit \in Nat \ {0}
    /\ MaxTicks \in Nat /\ MaxGivenUp \in Nat
    /\ World \subseteq {"noRunner", "unhydrated", "break", "die", "cancel", "nodeFails"}

VARIABLES
    status,         \* runs.status; "none" before the row exists
    token,          \* runs.runner_token_hash is not null
    log,            \* run_events by seq, from 1
    dispatch,       \* where the API's POST runs handler and its fetch stand
    runner,         \* where the runner stands
    reports,        \* report handlers of the API at work
    givenUp,        \* reports the runner gave up on so far
    view,           \* the page: the status it shows, the seqs it has, the last
    ticks,          \* polls of the page in flight
    cancel          \* the status a cancel was accepted in, "none" before,
                    \* and the nodes whose code began since

vars == <<status, token, log, dispatch, runner, reports, givenUp, view, ticks, cancel>>

-----------------------------------------------------------------------------

Outcomes == {"finished", "failed", "cancelled"}
Statuses == {"none", "queued", "running"} \cup Outcomes
Over(s)  == s \in Outcomes

(* The events that move the row and those that do not.                      *)
Event(type, outcome) == [type |-> type, outcome |-> outcome]
Started      == Event("run.started", "none")
NodeEvent    == Event("node", "none")
Finished(o)  == Event("run.finished", o)
Events       == {Started, NodeEvent} \cup {Finished(o) : o \in Outcomes}

(* A report: its number, the event, how far its handler got, and the run's  *)
(* status when the handler found it by its token.                           *)
Report == [no : Nat, event : Events,
           pc : {"arriving", "append", "answer"}, run : Statuses]

(* next: the number of the next report.  node: the node at hand.            *)
Runner == [pc : {"off", "started", "begin", "run", "end", "finish", "done", "dead"},
           node : 1 .. NumNodes + 1, outcome : Outcomes,
           waiting : BOOLEAN, next : Nat]

Tick == [no : 1 .. MaxTicks, pc : {"status", "events", "answer"},
         after : Nat, status : Statuses, upTo : Nat]

TypeOK ==
    /\ status \in Statuses
    /\ token \in BOOLEAN
    /\ log \in Seq(Events)
    /\ dispatch \in {"none", "created", "waiting", "broken", "done"}
    /\ runner \in Runner
    /\ reports \subseteq Report
    /\ givenUp \in 0 .. MaxGivenUp
    /\ view \in [status : Statuses, shown : SUBSET (1 .. Len(log)), last : 0 .. Len(log)]
    /\ ticks \subseteq Tick
    /\ cancel \in [in : {"none", "queued", "running"}, nodes : 0 .. NumNodes]

-----------------------------------------------------------------------------
(* appendEvent: one transaction under the row lock.                         *)

(* Faulty: the lifecycle is not mirrored onto the row when a run starts.    *)
AppendWithoutStart(event) ==
    /\ log' = Append(log, event)
    /\ IF event.type = "run.finished"
       THEN status' = event.outcome /\ token' = FALSE
       ELSE UNCHANGED <<status, token>>

(* run.started and run.finished move the status, whatever it was; the       *)
(* latter also ends the token.                                              *)
AppendEvent(event) ==
    /\ log' = Append(log, event)
    /\ CASE event.type = "run.started"  -> status' = "running" /\ UNCHANGED token
         [] event.type = "run.finished" -> status' = event.outcome /\ token' = FALSE
         [] OTHER                       -> UNCHANGED <<status, token>>

-----------------------------------------------------------------------------
(* POST runs.                                                               *)

CreateRun ==
    /\ dispatch = "none"
    /\ status' = "queued" /\ token' = TRUE /\ dispatch' = "created"
    /\ UNCHANGED <<log, runner, reports, givenUp, view, ticks, cancel>>

(* No runner is configured: the run is over, and says so.                   *)
NoRunner ==
    /\ "noRunner" \in World
    /\ dispatch = "created"
    /\ AppendEvent(Finished("failed"))
    /\ dispatch' = "done"
    /\ view' = [view EXCEPT !.status = "failed"]
    /\ UNCHANGED <<runner, reports, givenUp, ticks, cancel>>

(* GitHub refuses a file the bundle needs: POST runs fails with the row     *)
(* already there, and no event says so.                                     *)
Unhydrated ==
    /\ "unhydrated" \in World
    /\ dispatch = "created"
    /\ dispatch' = "done"
    /\ UNCHANGED <<status, token, log, runner, reports, givenUp, view, ticks, cancel>>

(* fetch(/execute), not awaited: the runner answers only when the run is    *)
(* over, the page gets its 202 now.  The runner may not be reached at all.  *)
Dispatch ==
    /\ dispatch = "created"
    /\ view' = [view EXCEPT !.status = "queued"]
    /\ \/ dispatch' = "waiting" /\ runner' = [runner EXCEPT !.pc = "started"]
       \/ "break" \in World /\ dispatch' = "broken" /\ UNCHANGED runner
    /\ UNCHANGED <<status, token, log, reports, givenUp, ticks, cancel>>

Answered ==
    /\ dispatch = "waiting" /\ runner.pc = "done" /\ ~runner.waiting
    /\ dispatch' = "done"
    /\ UNCHANGED <<status, token, log, runner, reports, givenUp, view, ticks, cancel>>

(* The connection breaks or times out, or the runner's container dies with  *)
(* it.                                                                      *)
Breaks ==
    /\ dispatch = "waiting"
    /\ runner.pc = "dead" \/ "break" \in World
    /\ dispatch' = "broken"
    /\ UNCHANGED <<status, token, log, runner, reports, givenUp, view, ticks, cancel>>

(* Faulty: the break is only logged.                                        *)
AccountForNothing ==
    /\ dispatch = "broken"
    /\ dispatch' = "done"
    /\ UNCHANGED <<status, token, log, runner, reports, givenUp, view, ticks, cancel>>

(* Dispatch failures become a finished, failed run, whatever it was before. *)
AccountForBreak ==
    /\ dispatch = "broken"
    /\ AppendEvent(Finished("failed"))
    /\ dispatch' = "done"
    /\ UNCHANGED <<runner, reports, givenUp, view, ticks, cancel>>

(* requestCancel: only of a run that is queued or running.                  *)
Cancel ==
    /\ "cancel" \in World
    /\ status \in {"queued", "running"}
    /\ status' = "cancelled"
    /\ cancel' = IF cancel.in = "none" THEN [in |-> status, nodes |-> 0] ELSE cancel
    /\ UNCHANGED <<token, log, dispatch, runner, reports, givenUp, view, ticks>>

-----------------------------------------------------------------------------
(* POST runner/events.                                                      *)

Step(report, pc) == (reports \ {report}) \cup {[report EXCEPT !.pc = pc, !.run = status]}

(* Faulty: the token of a run that is over is still accepted.               *)
AuthoriseAlways(report) ==
    /\ report.pc = "arriving"
    /\ reports' = Step(report, "append")
    /\ UNCHANGED <<status, token, log, dispatch, runner, givenUp, view, ticks, cancel>>

(* getRunByToken.  An unknown token is a 401; the runner reads that as      *)
(* "not cancelled" and goes on.                                             *)
Authorise(report) ==
    /\ report.pc = "arriving"
    /\ IF token
       THEN reports' = Step(report, "append") /\ UNCHANGED runner
       ELSE /\ reports' = reports \ {report}
            /\ runner' = IF runner.next = report.no + 1
                         THEN [runner EXCEPT !.waiting = FALSE] ELSE runner
    /\ UNCHANGED <<status, token, log, dispatch, givenUp, view, ticks, cancel>>

Record(report) ==
    /\ report.pc = "append"
    /\ AppendEvent(report.event)
    /\ reports' = (reports \ {report}) \cup {[report EXCEPT !.pc = "answer"]}
    /\ UNCHANGED <<dispatch, runner, givenUp, view, ticks, cancel>>

(* The run is read again by its token; once that is gone, what was read     *)
(* first decides.  Only reports at a node boundary heed the answer.         *)
Cancelled(report) == (IF token THEN status ELSE report.run) = "cancelled"
Heeds == runner.pc \in {"run", "begin", "finish"} /\ runner.outcome = "finished"
Stopped == [runner EXCEPT !.waiting = FALSE, !.pc = "finish", !.outcome = "cancelled"]

Answer(report) ==
    /\ report.pc = "answer"
    /\ reports' = reports \ {report}
    /\ runner' = IF ~(runner.waiting /\ runner.next = report.no + 1) THEN runner
                 ELSE IF report.event = NodeEvent /\ Heeds /\ Cancelled(report) THEN Stopped
                 ELSE [runner EXCEPT !.waiting = FALSE]
    /\ UNCHANGED <<status, token, log, dispatch, givenUp, view, ticks, cancel>>

-----------------------------------------------------------------------------
(* The runner: run.started, then for each node a report, the node's code,   *)
(* and a report, then run.finished.                                         *)

Alive == runner.pc # "dead" /\ ~runner.waiting

Send(event, pc) ==
    /\ reports' = reports \cup {[no |-> runner.next, event |-> event,
                                 pc |-> "arriving", run |-> "none"]}
    /\ runner' = [runner EXCEPT !.waiting = TRUE, !.next = @ + 1, !.pc = pc,
                                !.node = IF runner.pc = "end" THEN @ + 1 ELSE @]

Begun(node) == IF node > NumNodes THEN "finish" ELSE "begin"

ReportStarted ==
    /\ Alive /\ runner.pc = "started"
    /\ Send(Started, Begun(1))
    /\ UNCHANGED <<status, token, log, dispatch, givenUp, view, ticks, cancel>>

ReportNodeStarted ==
    /\ Alive /\ runner.pc = "begin"
    /\ Send(NodeEvent, "run")
    /\ UNCHANGED <<status, token, log, dispatch, givenUp, view, ticks, cancel>>

(* The node's code; where it fails, node.failed and then run.finished.      *)
RunNode ==
    /\ Alive /\ runner.pc = "run"
    /\ cancel' = [cancel EXCEPT !.nodes = IF cancel.in = "none" THEN 0 ELSE @ + 1]
    /\ \/ runner' = [runner EXCEPT !.pc = "end"] /\ UNCHANGED reports
       \/ /\ "nodeFails" \in World
          /\ reports' = reports \cup {[no |-> runner.next, event |-> NodeEvent,
                                       pc |-> "arriving", run |-> "none"]}
          /\ runner' = [runner EXCEPT !.waiting = TRUE, !.next = @ + 1,
                                      !.pc = "finish", !.outcome = "failed"]
    /\ UNCHANGED <<status, token, log, dispatch, givenUp, view, ticks>>

ReportNodeFinished ==
    /\ Alive /\ runner.pc = "end"
    /\ Send(NodeEvent, Begun(runner.node + 1))
    /\ UNCHANGED <<status, token, log, dispatch, givenUp, view, ticks, cancel>>

ReportFinished ==
    /\ Alive /\ runner.pc = "finish"
    /\ Send(Finished(runner.outcome), "done")
    /\ UNCHANGED <<status, token, log, dispatch, givenUp, view, ticks, cancel>>

(* A report fails or takes longer than 15 seconds: it never arrived, or its *)
(* handler is still at work, or the answer was lost.  The runner goes on.   *)
GiveUp ==
    /\ runner.pc # "dead" /\ runner.waiting
    /\ givenUp < MaxGivenUp
    /\ givenUp' = givenUp + 1
    /\ runner' = [runner EXCEPT !.waiting = FALSE]
    /\ \/ UNCHANGED reports
       \/ reports' = {report \in reports : report.no # runner.next - 1 \/ report.pc # "arriving"}
    /\ UNCHANGED <<status, token, log, dispatch, view, ticks, cancel>>

Die ==
    /\ "die" \in World
    /\ runner.pc \notin {"off", "done", "dead"}
    /\ runner' = [runner EXCEPT !.pc = "dead", !.waiting = FALSE]
    /\ UNCHANGED <<status, token, log, dispatch, reports, givenUp, view, ticks, cancel>>

-----------------------------------------------------------------------------
(* The page polls while the status it shows is queued or running.  Polls    *)
(* start on a timer, whether or not the one before has been answered.       *)

Watching == view.status \in {"queued", "running"}

StartTick ==
    /\ Watching
    /\ \E no \in 1 .. MaxTicks :
          /\ \A tick \in ticks : tick.no # no
          /\ ticks' = ticks \cup {[no |-> no, pc |-> "status", after |-> view.last,
                                   status |-> "none", upTo |-> 0]}
    /\ UNCHANGED <<status, token, log, dispatch, runner, reports, givenUp, view, cancel>>

(* GET events: the run's row first, the events after it.                    *)
ReadStatus(tick) ==
    /\ tick.pc = "status"
    /\ ticks' = (ticks \ {tick}) \cup {[tick EXCEPT !.pc = "events", !.status = status]}
    /\ UNCHANGED <<status, token, log, dispatch, runner, reports, givenUp, view, cancel>>

ReadEvents(tick) ==
    LET end == IF Len(log) > tick.after + Limit THEN tick.after + Limit ELSE Len(log)
    IN /\ tick.pc = "events"
       /\ ticks' = (ticks \ {tick}) \cup {[tick EXCEPT !.pc = "answer", !.upTo = end]}
       /\ UNCHANGED <<status, token, log, dispatch, runner, reports, givenUp, view, cancel>>

(* Faulty: takes every answer for a full one.                               *)
ShownAFullPage(tick) ==
    [view EXCEPT !.status = tick.status,
                 !.shown  = @ \cup (tick.after + 1 .. tick.upTo),
                 !.last   = tick.after + Limit]

Shown(tick) ==
    [view EXCEPT !.status = tick.status,
                 !.shown  = @ \cup (tick.after + 1 .. tick.upTo),
                 !.last   = IF tick.upTo > tick.after THEN tick.upTo ELSE @]

(* A new status restarts the effect: answers to older polls are dropped.    *)
ReceiveTick(tick) ==
    /\ tick.pc = "answer"
    /\ view' = Shown(tick)
    /\ ticks' = IF tick.status # view.status THEN {} ELSE ticks \ {tick}
    /\ UNCHANGED <<status, token, log, dispatch, runner, reports, givenUp, cancel>>

-----------------------------------------------------------------------------

Init ==
    /\ status = "none" /\ token = FALSE /\ log = <<>> /\ dispatch = "none"
    /\ runner = [pc |-> "off", node |-> 1, outcome |-> "finished",
                 waiting |-> FALSE, next |-> 1]
    /\ reports = {} /\ givenUp = 0
    /\ view = [status |-> "none", shown |-> {}, last |-> 0]
    /\ ticks = {} /\ cancel = [in |-> "none", nodes |-> 0]

Api == \/ NoRunner \/ Unhydrated \/ Dispatch \/ Answered \/ AccountForBreak
       \/ runner.pc = "dead" /\ Breaks
       \/ \E report \in reports : Authorise(report) \/ Record(report) \/ Answer(report)

RunnerStep == \/ ReportStarted \/ ReportNodeStarted \/ RunNode
              \/ ReportNodeFinished \/ ReportFinished

Page == \/ StartTick
        \/ \E tick \in ticks : ReadStatus(tick) \/ ReadEvents(tick) \/ ReceiveTick(tick)

Next == CreateRun \/ Api \/ RunnerStep \/ Page \/ Breaks \/ Cancel \/ GiveUp \/ Die

Spec == Init /\ [][Next]_vars

(* The API's handlers and the runner go on; nodes return.                   *)
FairSpec == Spec /\ WF_vars(Api) /\ WF_vars(RunnerStep)

-----------------------------------------------------------------------------
(* Properties.                                                              *)

(* The runs table answers "where is it" without replaying the log           *)
(* (runs.ts:141-146): the row's status is what the last lifecycle event in  *)
(* the log says, unless a cancel was accepted after it.                     *)
Lifecycle == {i \in DOMAIN log : log[i] # NodeEvent}
LastLifecycle == CHOOSE i \in Lifecycle : \A j \in Lifecycle : j <= i
LogSays == IF Lifecycle = {} THEN "queued"
           ELSE IF log[LastLifecycle] = Started THEN "running"
           ELSE log[LastLifecycle].outcome

MirrorsTheLog ==
    status # "none" => \/ status = LogSays
                       \/ status = "cancelled" /\ cancel.in # "none" /\ ~Over(LogSays)

(* The token stops working the moment the run finishes (run-routes.ts:      *)
(* 179-182): however long the runner walks on, all that follows the first   *)
(* run.finished in the log is what had been let in before it, the report at *)
(* work and those given up on, and the dispatch's own run.finished.         *)
TokenEndsWithTheRun ==
    \A i \in DOMAIN log : log[i].type = "run.finished" => Len(log) - i <= 2 + givenUp

(* Watching is reading a range (PRD 8.2): however polls overlap and however *)
(* many events wait, the page has every event before one it has.            *)
WatcherSkipsNothing == \A i \in view.shown : \A j \in 1 .. i : j \in view.shown

(* A run cancelled while it runs stops at the next node boundary: as long   *)
(* as its token works, the code of one node more may begin, the one whose   *)
(* boundary was already passed, and one for each report that went missing.  *)
RunningStopsAtBoundary ==
    cancel.in = "running" /\ token => cancel.nodes <= 1 + givenUp

(* "Cancellation requested - the run stops at the next node boundary"       *)
(* (App.tsx:704), said of every cancel the API accepts.                     *)
StopsAtNextBoundary == cancel.nodes <= 1

(* A dispatched run comes to an end, whatever breaks between the API and    *)
(* the runner (run-routes.ts:121-122), unless reports went missing.         *)
DispatchedRunEnds == dispatch \in {"waiting", "broken"} ~> Over(status) \/ givenUp > 0

(* A run is not stuck queued for ever (run-routes.ts:121-122).              *)
NotStuckQueued == status = "queued" ~> status # "queued"

(* The log is told as it is: the row says what its last lifecycle event     *)
(* says, and a page that watches skips nothing of it.                       *)
LogIsTold == MirrorsTheLog /\ WatcherSkipsNothing

(* What stops a run stops it soon: its end takes its token away, and a      *)
(* cancel heard while it runs lets one node more begin.                     *)
RunStops == TokenEndsWithTheRun /\ RunningStopsAtBoundary
=============================================================================
