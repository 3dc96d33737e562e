----------------------------- MODULE AppSession -----------------------------
(* Running the app from the page: what the page believes of the session      *)
(* (apps/web/src/App.tsx, panes/PreviewPane.tsx, project.ts), the API's      *)
(* routes between (apps/api/src/http/session-routes.ts) and the session      *)
(* service behind them, of which SessionService says more: here it is one    *)
(* session, or none, whose processes start and exit.                         *)
(*                                                                           *)
(* A start takes minutes, a poll every three seconds does not wait for the   *)
(* one before, and another tab, the reaper or a transpile may be at it.      *)
EXTENDS Naturals, FiniteSets

CONSTANTS
    Starts,        \* the start calls of this page, each made once
    Polls,         \* polls that may be under way at once
    MaxWatches     \* bounds how often the page begins to watch

ASSUME AppSessionAssumption == MaxWatches \in Nat

VARIABLES
    service,       \* what the session service has: nothing, or one session
    page,          \* appSession.phase, previewOpen
    start, poll, stop, probe,
    watch,         \* how many times the poll's effect has run
    ran            \* a process of the app has run, since the page opened or when it did

appSessionVars == <<service, page, start, poll, stop, probe, watch, ran>>

(* "empty": a session without processes, which has nothing to run.           *)
Sessions == {"starting", "running", "exited", "empty"}
NoSession == "none"
Active(phase) == phase \in {"starting", "live"}
WatchesApp(p) == p.open /\ Active(p.phase)
NoPoll == [pc |-> "idle", saw |-> NoSession, heard |-> TRUE, of |-> 0]

AppSessionInit ==
    /\ service \in {NoSession, "running"}
    /\ page = [phase |-> "idle", open |-> FALSE]
    /\ start = [s \in Starts |-> "unmade"]
    /\ poll = [p \in Polls |-> NoPoll]
    /\ stop = "idle"
    /\ probe = "sent"
    /\ watch = 0 /\ ran = (service = "running")

-----------------------------------------------------------------------------
(* The page changes; the effect that polls runs again when what it depends   *)
(* on does, and its cleanup tells the polls under way that they are not      *)
(* heard.                                                                    *)

Unheard(polls) == [p \in Polls |-> [polls[p] EXCEPT !.heard = FALSE]]

Becomes(p, polls) ==
    /\ page' = p
    /\ IF WatchesApp(p) = WatchesApp(page) THEN poll' = polls /\ UNCHANGED watch
       ELSE /\ poll' = Unheard(polls)
            /\ watch' = IF WatchesApp(p) THEN watch + 1 ELSE watch
            /\ watch' <= MaxWatches

Phase(phase) == [page EXCEPT !.phase = phase]

(* What a status says of the phase when nothing else is known.               *)
Attached(saw) == IF saw = "running" THEN "live" ELSE "starting"

TogglePreview ==
    /\ Becomes([page EXCEPT !.open = ~@], poll)
    /\ UNCHANGED <<service, start, stop, probe, ran>>

(* Run: opens the pane; a session that is up is not started again.           *)
BeginSession(s) ==
    /\ start[s] = "unmade"
    /\ IF Active(page.phase)
       THEN /\ ~page.open
            /\ Becomes([page EXCEPT !.open = TRUE], poll) /\ UNCHANGED start
       ELSE /\ Becomes([phase |-> "starting", open |-> TRUE], poll)
            /\ start' = [start EXCEPT ![s] = "sent"]
    /\ UNCHANGED <<service, stop, probe, ran>>

-----------------------------------------------------------------------------
(* POST session: the preflight, the same transpile as Apply's, the files and *)
(* the processes; then the service stops the old session and starts the new. *)

Refused(s) ==
    /\ start[s] = "sent"
    /\ start' = [start EXCEPT ![s] = "failed"]
    /\ UNCHANGED <<service, page, poll, stop, probe, watch, ran>>

Materialised(s) ==
    /\ start[s] = "sent"
    /\ service' \in {"starting", "empty"} /\ start' = [start EXCEPT ![s] = "made"]
    /\ UNCHANGED <<page, poll, stop, probe, watch, ran>>

(* The service answers when every process has been started, or was stopped;  *)
(* and the answer of a call that lasts minutes may be lost on the way.       *)
StartAnswers(s) ==
    /\ start[s] = "made"
    /\ \/ service # "starting" /\ start' = [start EXCEPT ![s] = "answered"]
       \/ start' = [start EXCEPT ![s] = "failed"]
    /\ UNCHANGED <<service, page, poll, stop, probe, watch, ran>>

(* Faulty: whatever the phase is by now.                                     *)
AfterStartAlways(phase) == "starting"

(* Only its addresses: live is what a poll says, and a stop meanwhile stands *)
AfterStart(phase) == phase

StartLands(s) ==
    /\ start[s] = "answered"
    /\ start' = [start EXCEPT ![s] = "done"]
    /\ Becomes(Phase(AfterStart(page.phase)), poll)
    /\ UNCHANGED <<service, stop, probe, ran>>

(* A failed start asks once whether the app runs for all that.               *)
ProbeAfter(s) ==
    /\ start[s] = "failed"
    /\ start' = [start EXCEPT ![s] = IF service = NoSession THEN "gone" ELSE service]
    /\ UNCHANGED <<service, page, poll, stop, probe, watch, ran>>

StartFails(s) ==
    /\ start[s] \in Sessions \cup {"gone"}
    /\ start' = [start EXCEPT ![s] = "done"]
    /\ IF start[s] = "gone"
       THEN Becomes(Phase("error"), poll)
       ELSE Becomes(Phase(Attached(start[s])), poll)
    /\ UNCHANGED <<service, stop, probe, ran>>

-----------------------------------------------------------------------------
(* GET session, by the page just loaded, which attaches to what runs.        *)

ProbeReads ==
    /\ probe = "sent"
    /\ probe' = IF service = NoSession THEN "done" ELSE service
    /\ UNCHANGED <<service, page, start, poll, stop, watch, ran>>

ProbeLands ==
    /\ probe \in Sessions
    /\ probe' = "done"
    /\ Becomes(Phase(Attached(probe)), poll)
    /\ UNCHANGED <<service, start, stop, ran>>

(* DELETE session: nothing to stop is a stop.                                *)
Stop ==
    /\ Active(page.phase) /\ stop = "idle" /\ stop' = "sent"
    /\ UNCHANGED <<service, page, start, poll, probe, watch, ran>>

StopServed ==
    /\ stop = "sent"
    /\ \/ service' = NoSession /\ stop' = "answered"
       \/ stop' = "idle" /\ UNCHANGED service
    /\ UNCHANGED <<page, start, poll, probe, watch, ran>>

StopLands ==
    /\ stop = "answered" /\ stop' = "idle"
    /\ Becomes(Phase("idle"), poll)
    /\ UNCHANGED <<service, start, probe, ran>>

-----------------------------------------------------------------------------
(* The heartbeat.                                                            *)

Tick_(p) ==
    /\ WatchesApp(page) /\ poll[p].pc = "idle"
    /\ poll' = [poll EXCEPT ![p] = [NoPoll EXCEPT !.pc = "sent", !.of = watch]]
    /\ UNCHANGED <<service, page, start, stop, probe, watch, ran>>

PollReads(p) ==
    /\ poll[p].pc = "sent"
    /\ poll' = [poll EXCEPT ![p].pc = "answered", ![p].saw = service]
    /\ UNCHANGED <<service, page, start, stop, probe, watch, ran>>

(* Faulty: a session that has gone is waited for.                            *)
AfterPollHopeful(phase, saw) ==
    CASE saw \in {"running", "exited"} /\ Active(phase) -> "live"
      [] OTHER -> phase

AfterPoll(phase, saw) ==
    CASE saw = NoSession -> "idle"
      [] saw \in {"running", "exited"} /\ Active(phase) -> "live"
      [] OTHER -> phase

PollLands(p) ==
    LET idle == [poll EXCEPT ![p] = NoPoll]
        saw == poll[p].saw
    IN /\ poll[p].pc = "answered"
       /\ IF poll[p].heard
          THEN Becomes(Phase(AfterPoll(page.phase, saw)), idle)
          ELSE poll' = idle /\ UNCHANGED <<page, watch>>
       /\ UNCHANGED <<service, start, stop, probe, ran>>

(* A missed poll is not a dead session.                                      *)
PollFails(p) ==
    /\ poll[p].pc = "sent" /\ poll' = [poll EXCEPT ![p] = NoPoll]
    /\ UNCHANGED <<service, page, start, stop, probe, watch, ran>>

-----------------------------------------------------------------------------
(* The processes, and whoever else stops the session: another tab, the       *)
(* reaper.                                                                   *)

Runs ==
    /\ service = "starting" /\ service' \in {"running", "exited"} /\ ran' = TRUE
    /\ UNCHANGED <<page, start, poll, stop, probe, watch>>

Exits ==
    /\ service = "running" /\ service' = "exited"
    /\ UNCHANGED <<page, start, poll, stop, probe, watch, ran>>

Ended ==
    /\ service # NoSession /\ service' = NoSession
    /\ UNCHANGED <<page, start, poll, stop, probe, watch, ran>>

StartSteps(s) ==
    \/ Refused(s) \/ Materialised(s) \/ StartAnswers(s)
    \/ StartLands(s) \/ ProbeAfter(s) \/ StartFails(s)

AppSessionNext ==
    \/ TogglePreview \/ Stop \/ StopServed \/ StopLands \/ ProbeReads \/ ProbeLands
    \/ \E s \in Starts : BeginSession(s) \/ StartSteps(s)
    \/ \E p \in Polls : Tick_(p) \/ PollReads(p) \/ PollLands(p) \/ PollFails(p)
    \/ Runs \/ Exits \/ Ended

(* The timer ticks while the page watches, and of the polls it sends one in  *)
(* the end is answered; a call is answered, one way or the other.            *)
AppSessionFairness ==
    /\ \A p \in Polls : /\ WF_appSessionVars(Tick_(p))
                        /\ SF_appSessionVars(PollReads(p)) /\ WF_appSessionVars(PollLands(p))
    /\ \A s \in Starts : WF_appSessionVars(StartSteps(s))
    /\ WF_appSessionVars(StopServed) /\ WF_appSessionVars(StopLands)

AppSessionSpec == AppSessionInit /\ [][AppSessionNext]_appSessionVars /\ AppSessionFairness

-----------------------------------------------------------------------------
AppSessionTypeOK ==
    /\ service \in Sessions \cup {NoSession}
    /\ page \in [phase : {"idle", "starting", "live", "error"}, open : BOOLEAN]
    /\ start \in [Starts -> {"unmade", "sent", "made", "answered", "failed", "gone", "done"}
                             \cup Sessions]
    /\ poll \in [Polls -> [pc : {"idle", "sent", "answered"}, saw : Sessions \cup {NoSession},
                           heard : BOOLEAN, of : 0..MaxWatches]]
    /\ stop \in {"idle", "sent", "answered"} /\ probe \in {"sent", "done"} \cup Sessions
    /\ watch \in 0..MaxWatches /\ ran \in BOOLEAN

(* The page says live only of an app of which some process has run: the      *)
(* POST's answer, the addresses in it and a session without processes are    *)
(* not enough (App.tsx:1205, 1240).                                          *)
LiveMeansItRan == page.phase = "live" => ran

(* A start that succeeds after the app was stopped starts nothing on the     *)
(* page: the stop stands (App.tsx:1207).                                     *)
StopStands ==
    [][\A s \in Starts : start[s] = "answered" /\ start'[s] = "done" =>
           Active(page'.phase) = Active(page.phase)]_appSessionVars

(* A poll sent before a stop, or before the pane was closed, says nothing of *)
(* the session that is watched when its answer comes (App.tsx:1279).         *)
OldPollsSayNothing ==
    [][\A p \in Polls : poll[p].pc = "answered" /\ poll'[p] = NoPoll /\ page' # page
           => poll[p].of = watch]_appSessionVars

(* While the pane is open the page never stays wrong for good: it hears of   *)
(* an end it had no part in, and of the first process that runs              *)
(* (App.tsx:1240-1283).                                                      *)
PageAgrees ==
    WatchesApp(page) =>
        /\ service # NoSession
        /\ service = "running" => page.phase = "live"
PageCatchesUp == []<>PageAgrees

(* App.tsx:1241: 'starting' holds until something is actually running (or    *)
(* everything has already exited), a stop aside.                             *)
StartingHolds ==
    [][page.phase = "starting" /\ page'.phase = "idle"
           => stop = "answered" \/ \A s \in Starts : start[s] \in {"unmade", "done"}]_appSessionVars

(* Answers that come late do no harm: a start's after a stop, a poll's of    *)
(* before it, and the probe of a start that failed on the wire (App.tsx:     *)
(* 1205-1217, 1279).                                                         *)
LateAnswersAreHarmless == []LiveMeansItRan /\ StopStands /\ OldPollsSayNothing
=============================================================================
