------------------------------ MODULE MCApply ------------------------------
(* Model-checking instances of Apply, and of Migration, which also writes   *)
(* pending changes one by one.  The scenario, chosen in the initial state,  *)
(* says which kinds of calls are made.                                      *)
EXTENDS Apply, Migration, TLC

CONSTANTS early, registry, late, prompt, c1, g1, g2, n1, n2, n3, a, b, Scenarios

VARIABLE scenario

(* civil/registry.yaml falls between the files the model emits.             *)
Sorted == <<early, registry, late, prompt>>

(* No calls of Apply's.                                                     *)
Migrating == [kinds |-> {}, sketches |-> {1}, from |-> 0]

(* An author who applies, saves code and commits; one who discards, and     *)
(* whose saves may fail; one who syncs.                                     *)
Everyday == {[kinds |-> {"apply", "save", "commit"}, sketches |-> {1}, from |-> 0],
             [kinds |-> {"apply", "run", "commit", "discard"}, sketches |-> {1, 2}, from |-> 1],
             [kinds |-> {"run", "apply", "save", "stop"}, sketches |-> {1}, from |-> 1],
             [kinds |-> {"run", "apply"}, sketches |-> {1, 2}, from |-> 1],
             [kinds |-> {"apply", "run", "sync"}, sketches |-> {1, 3}, from |-> 1],
             Migrating}
OnlyApply == {[kinds |-> {"apply", "commit"}, sketches |-> {1, 2}, from |-> 0]}

(* Old projects: documents at the root or in civil/, three agent nodes with *)
(* two agents; nodes of one name, which is not Plain; no project yet.       *)
Prompt(words) == [kind |-> "prompt", text |-> words]
Agent(file)   == [kind |-> "agent", promptFile |-> PromptOf(file)]
Graph(agents) == [kind |-> "graph", agents |-> agents]
OldTree(dir, first, second, file) ==
    ProjectIn(dir) :> ProjectDoc(dir) @@ CompositionIn(dir) :> CompositionDoc(dir, {g1, g2})
    @@ <<dir, g1>> :> Graph(first) @@ <<dir, g2>> :> Graph(second)
    @@ <<"agents", a>> :> Agent("x") @@ <<"agents", b>> :> Agent(file)
    @@ PromptOf("x") :> Prompt("one") @@ PromptOf(file) :> Prompt("two") @@ PromptOf("z") :> Prompt("three")
AtTheRoot   == OldTree("root", n1 :> a @@ n2 :> b, n3 :> a, "y")
Bare        == Readme :> [kind |-> "readme"] @@ CompositionIn("civil") :> CompositionDoc("civil", {})
OldTrees    == {AtTheRoot, OldTree("civil", n1 :> a @@ n2 :> b, n3 :> a, n2),
                OldTree("root", n1 :> a, n1 :> b, "y"), <<>>, Bare}
GraphList   == <<g1, g2>>
NodeList    == <<n1, n2, n3>>

(* One commit and one failure at most; two calls at once on two of these.   *)
MigratingOnce ==
    /\ MigrationNext
    /\ disturbed => (tree' = tree /\ \A c \in Callers : calls[c].todo # <<>> => calls'[c] # NoMigration)
    /\ \A c \in Callers : calls'[c].kind = "initialize" => CivilYaml(found) \notin DOMAIN found
    /\ tree' # tree => (tree \in {found, <<>>} /\ \E c \in Callers : calls[c] = NoMigration)
    /\ (\A c \in Callers : calls'[c] # NoMigration) => (found \in {AtTheRoot, Bare} /\ tree \in {found, <<>>})

ScenarioInit ==
    /\ Init /\ scenario \in Scenarios /\ sketch \in scenario.sketches /\ code = scenario.from
    /\ MigrationInit /\ (scenario # Migrating => found = <<>> /\ tree = found)
ScenarioNext ==
    /\ UNCHANGED scenario
    /\ \/ /\ scenario # Migrating /\ Next /\ UNCHANGED migrationVars
          /\ \A c \in Calls : call'[c].kind \in scenario.kinds \cup {"none"}
          /\ sketch' \in scenario.sketches
          /\ mixed' => "commit" \in scenario.kinds
       \/ scenario = Migrating /\ MigratingOnce /\ UNCHANGED vars
ScenarioSpec == ScenarioInit /\ [][ScenarioNext]_<<vars, migrationVars, scenario>>
=============================================================================
