----------------------------- MODULE MCEditing -----------------------------
(* Model-checking instances of Editing, and of what the author is otherwise *)
(* at from a browser: Page, CodePane, GitPanel, SignIn and Processes.  The scenario, chosen in  *)
(* the initial state, says which kinds of calls the page makes, or which of *)
(* the other modules the behavior is about; it leaves the rest alone.       *)
EXTENDS Editing, Page, SignIn, Processes, CodePane, GitPanel, TLC

CONSTANTS main, feature, a, b, e1, e2, e3, p1, c1, c2,
          shop, desk, old, concept, flow, d1, d2, main_, pay, g, h, f1, f2,
          ann, bob, x, y, hub, lab, i1, i2, r1, r2,
          web, kiosk, api, admin, apiPy, adminPy, s1, s2,
          Scenarios

VARIABLE scenario

(* One author at one tab; and the same author reading graphs back from the  *)
(* code, which the history of operations does not follow.                   *)
OneTab   == {{"op", "undo", "save", "discard", "commit", "switch", "sync"},
             {"op", "undo", "save", "discard"},
             {"lift", "save", "commit", "switch"}}
TwoOps   == {{"op"}}
Anything == p1 :> Kinds

(* Two projects, one with a view of domains and one of diagrams, a graph    *)
(* inside a graph, and a project that has been removed.                     *)
Grouping(domains) == [domains |-> domains, diagrams |-> <<>>, entry |-> None]
Diagrams(diagrams, entry) == [domains |-> <<>>, diagrams |-> diagrams, entry |-> entry]
PageDocuments ==
    shop :> [views |-> concept :> Grouping(d1 :> None @@ d2 :> d1)
                       @@ flow :> Diagrams(main_ :> {pay} @@ pay :> {main_}, main_),
             opens |-> flow, graphs |-> g :> {h} @@ h :> {}, services |-> {g}]
    @@ desk :> [views |-> concept :> Grouping(d1 :> None), opens |-> concept,
                graphs |-> <<>>, services |-> {}]
    @@ old :> [views |-> <<>>, opens |-> None, graphs |-> <<>>, services |-> {}]
PageLinks == {HomeRoute, PlaceAt("view", shop, concept, d2, None), PlaceAt("view", shop, flow, pay, None),
              PlaceAt("graph", shop, None, None, h), PlaceAt("project", old, None, None, None),
              PlaceAt("view", desk, flow, pay, None)}

(* Two people who sign in and out, and change addresses; one signed in who  *)
(* links accounts; one linked whose requests share tokens.                  *)
Trips == {{"people"}, {"links"}, {"tokens"}}
AccountReach == hub :> <<i1>> @@ lab :> <<i2>>

SignedInAlready ==
    /\ now = 0 /\ addressOf = [p \in People |-> x] /\ signedOut = {} /\ starts = <<>>
    /\ users = <<[sub |-> ann, email |-> x]>>
    /\ sessions = <<NewSession(1, ann)>>
    /\ cookies = [session |-> 1, google |-> 0, github |-> 0]
    /\ connections = [u \in UserIds |-> IF u = 1 THEN Link(hub, i1) ELSE NotLinked]
    /\ tokens = [i \in Installations |-> NoToken]
    /\ request = [r \in Requests |-> Idle]

(* Two clients and two api boundaries; servers named like them.             *)
NodesById == <<admin, api, kiosk, web>>
StemsOf == [f \in {apiPy, adminPy} |-> IF f = apiPy THEN api ELSE admin]
ServersByPath == <<adminPy, apiPy>>
SourceList == <<s1, s2>>

(* Code that is typed, saved and changed elsewhere; and source control, by a *)
(* patient author with files or branches, and by one in a hurry.             *)
PanelScenarios == {{"files"}, {"branches"}, {"hurried"}}
PressedIn == {"files"} :> PanelCalls \ {"branch"}
          @@ {"branches"} :> PanelCalls \ {"apply", "file"}
          @@ {"hurried"} :> {"commit", "branch"}

Others == {{"page"}, {"code"}, {"processes"}} \cup PanelScenarios \cup Trips

ScenarioInit ==
    /\ scenario \in Scenarios \cup (IF Scenarios = OneTab THEN Others ELSE {})
    /\ Init
    /\ PageInit /\ (scenario # {"page"} => active = None /\ at = 1 /\ visited = <<HomeRoute>>)
    /\ IF scenario \in {{"links"}, {"tokens"}} THEN SignedInAlready
       ELSE SignInInit /\ (scenario # {"people"} => addressOf = [p \in People |-> x])
    /\ PaneInit /\ (\A f \in CodeFiles : stored[f] = x)
    /\ PanelInit /\ hurried = (scenario = {"hurried"}) /\ (scenario # {"files"} => Here.pending = PanelFiles)
    /\ ProcessesInit /\ (scenario # {"processes"} => \A s \in DOMAIN travels : travels[s])

(* Edits are alike: they are made in this order; a third, which makes the   *)
(* history too long, only where nothing is committed or switched.           *)
InOrder == {{}, {e1}, {e1, e2}} \cup (IF "switch" \in scenario THEN {} ELSE {{e1, e2, e3}})

Editing_ ==
    /\ scenario \notin Others /\ Next /\ made' \in InOrder
    /\ \A c \in Calls : call'[c].kind \in scenario \cup {"none"}
    /\ UNCHANGED <<pageVars, paneVars, panelVars, signInVars, processesVars>>

Visiting == scenario = {"page"} /\ PageNext /\ UNCHANGED <<vars, paneVars, panelVars, signInVars, processesVars>>

(* Only one of the files is generated, or changed by something else.         *)
Coding ==
    /\ scenario = {"code"} /\ PaneNext
    /\ generated' \subseteq {f2} /\ (put' = put => stored'[f1] = stored[f1])
    /\ UNCHANGED <<vars, pageVars, panelVars, signInVars, processesVars>>

(* Where branches come and go, or answers cross, one file is enough.         *)
Pressing ==
    /\ scenario \in PanelScenarios /\ PanelNext
    /\ \A k \in PanelCalls \ PressedIn[scenario] : doing'[k] = Free
    /\ scenario # {"files"} =>
          ~review'.open /\ \A k \in GitBranches : line'[k].changed \subseteq Sketched
    /\ UNCHANGED <<vars, pageVars, paneVars, signInVars, processesVars>>

OfTrip(provider, kinds, slots) ==
    /\ \A t \in DOMAIN starts' : starts'[t].provider = provider
    /\ \A r \in Requests :
          request'[r] # Idle => r \in slots /\ (request[r] = Idle => request'[r].phase \in kinds)

SigningIn ==
    /\ scenario \in Trips /\ SignInNext /\ UNCHANGED <<vars, pageVars, paneVars, panelVars, processesVars>>
    /\ \/ scenario = {"people"} /\ OfTrip("google", {"repositories", "logout"}, Requests)
       \/ /\ scenario = {"links"} /\ OfTrip("github", {"disconnect", "logout"}, {r1})
          /\ UNCHANGED <<addressOf, now>>
       \/ /\ scenario = {"tokens"} /\ OfTrip("github", {"repositories"}, Requests)
          /\ UNCHANGED addressOf /\ Len(starts') < 2

Composing == scenario = {"processes"} /\ ProcessesNext /\ UNCHANGED <<vars, pageVars, paneVars, panelVars, signInVars>>

ScenarioNext ==
    /\ Editing_ \/ Visiting \/ Coding \/ Pressing \/ SigningIn \/ Composing
    /\ UNCHANGED scenario
ScenarioSpec ==
    ScenarioInit /\ [][ScenarioNext]_<<vars, pageVars, paneVars, panelVars, signInVars, processesVars, scenario>>

(* Every variable keeps its type, in each of the six modules.                *)
TypesOK ==
    TypeOK /\ PageTypeOK /\ PaneTypeOK /\ PanelTypeOK /\ SignInTypeOK /\ ProcessesTypeOK

(* Where the author is, what the code in front says and what source control  *)
(* shows: each as its module says.                                           *)
PageHolds ==
    /\ NavigationHolds
    /\ [](CleanMeansKept /\ NotStuckOpening) /\ DraftsStay
    /\ [](InfoIsSo /\ PanelIsSo) /\ CommitIsAsShown
=============================================================================
