--------------------------- MODULE MCRunLifecycle --------------------------
(* Model-checking instance of RunLifecycle, of FlowCheck, which says        *)
(* whether a graph can run and in which order, and of AppSession, which     *)
(* runs the app: a behavior is about one of them and leaves the others      *)
(* alone.                                                                   *)
EXTENDS RunLifecycle, FlowCheck, AppSession, TLC

(* The page only reads: what goes wrong between the API and the runner, and *)
(* what the page makes of the log, are explored one at a time.              *)
VARIABLE scenario

(* An agent that may call code, a subgraph to make a loop with, an input.   *)
McNodeType == <<"agent", "code", "subgraph", "input">>

ScenarioInit ==
    /\ Init /\ FlowInit /\ AppSessionInit
    /\ scenario \in {"faults", "watched", "graph", "app"}
    /\ scenario # "app" => service = NoSession

RunSteps ==
    /\ \/ CreateRun \/ Api \/ RunnerStep \/ Cancel
       \/ scenario = "faults"  /\ (Breaks \/ GiveUp \/ Die)
       \/ scenario = "watched" /\ Page
    /\ scenario \in {"faults", "watched"}
    /\ UNCHANGED <<scenario, flowVars, appSessionVars>>

GraphSteps == scenario = "graph" /\ FlowNext /\ UNCHANGED <<scenario, vars, appSessionVars>>
AppSteps == scenario = "app" /\ AppSessionNext /\ UNCHANGED <<scenario, vars, flowVars>>

ScenarioNext == RunSteps \/ GraphSteps \/ AppSteps
ScenarioSpec == ScenarioInit /\ [][ScenarioNext]_<<vars, flowVars, appSessionVars, scenario>>

FairScenarioSpec ==
    /\ ScenarioSpec
    /\ WF_vars(Api) /\ WF_vars(RunnerStep)
    /\ AppSessionFairness

(* Every variable keeps its type, in each of the three modules.             *)
TypesOK == TypeOK /\ FlowTypeOK /\ AppSessionTypeOK

(* A run that was dispatched ends, and a page whose app session has changed  *)
(* comes to agree with it.                                                   *)
EndsAreSeen == DispatchedRunEnds /\ PageCatchesUp
=============================================================================
