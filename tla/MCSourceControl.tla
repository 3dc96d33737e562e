--------------------------- MODULE MCSourceControl -------------------------
(* Model-checking instances of SourceControl.  A run walks several          *)
(* scenarios one after the other: which operations each request slot        *)
(* performs, what GitHub and the network do meanwhile, and which files      *)
(* exist.  The scenario is chosen in the initial state and never changes.   *)
EXTENDS SourceControl, TLC

CONSTANTS main, feature, f1, f2, v1, v2, r1, r2,
          Scenarios     \* those a run goes through

VARIABLE scenario

Everyone(ops) == [r \in Requests |-> ops]
Anything == Everyone(ClientOps)

(* Two slots that do different things, either way round.                    *)
Pairs(one, other) == {r1 :> one @@ r2 :> other, r2 :> one @@ r1 :> other}

Scenario(does, branches, paths, world) ==
    [does |-> does, branches |-> branches, paths |-> paths, world |-> world]
Each(doesSet, branches, paths, world) ==
    {Scenario(does, branches, paths, world) : does \in doesSet}

(* One client that finishes each thing before it starts the next, on two    *)
(* branches; and on one branch with two files.                              *)
OneAtATime ==
    {Scenario(Everyone(ClientOps \ {"open"}), {main, feature}, {f1}, {"push", "fail"}),
     Scenario(Everyone({"edit", "discard", "mine", "commit", "sync"}),
              {main}, {f1, f2}, {"push"})}

(* Two requests at once: everything on one branch, where any of them may    *)
(* die; the first opening of the project; one that creates and switches     *)
(* branches beside one that edits and commits; and the same with requests   *)
(* that die and branches that disappear, over one commit less.              *)
AtOnce ==
    {Scenario(Everyone({"edit", "discard", "mine", "commit", "sync"}),
              {main}, {f1}, {"push", "fail"}),
     Scenario(Everyone({"open", "edit", "commit", "sync"}),
              {main}, {f1}, {"push", "unopened"})}
    \cup Each(Pairs({"branch", "switch"}, {"edit", "commit"}),
              {main, feature}, {f1}, {"push"})
    \cup Each(Pairs({"branch", "switch"}, {"edit", "commit"}),
              {main, feature}, {f1}, {"deleteBranch", "fail"})

(* The races behind what does not hold.                                     *)
SyncBesideEdit == Each(Pairs({"commit", "sync"}, {"edit", "mine"}), {main}, {f1}, {"push"})
SwitchBesideSync ==
    Each(Pairs({"branch", "switch"}, {"sync"}), {main, feature}, {f1}, {"push"})
SyncAndCommit == {Scenario(Everyone({"edit", "commit", "sync"}), {main}, {f1}, {"push"})}

(* The author who does not give up, beside a tab that goes on editing.      *)
Persistent == r1 :> {"mine", "commit", "sync"} @@ r2 :> {"edit", "delete"}

PersistentAuthor == {Scenario(Persistent, {main}, {f1}, {"push"})}

ScenarioInit ==
    /\ scenario \in Scenarios
    /\ Init
    /\ \A p \in Paths \ scenario.paths : commits[1].tree[p] = Nil
    /\ "unopened" \notin scenario.world => pinned = ref

(* A branch deleted between the two reads of a commit turns the commit into *)
(* one of an empty repository: BuiltOnExpectedHead and ConflictGate exclude *)
(* it, and so do these instances.                                           *)
ScenarioNext ==
    /\ UNCHANGED scenario
    /\ \/ \E r \in Requests :
             \/ /\ Client(r)
                /\ req'[r].op \in scenario.does[r]
                /\ req'[r].path \in scenario.paths \cup {Nil}
                /\ req'[r].to \in scenario.branches \cup {Nil}
             \/ Handler(r)
             \/ "fail" \in scenario.world /\ Abandon(r)
       \/ /\ "push" \in scenario.world
          /\ \E b \in Branches, p \in scenario.paths, blob \in Blob : Push(b, p, blob)
       \/ /\ "deleteBranch" \in scenario.world
          /\ \A r \in Requests : req[r].op # "commit"
          /\ \E b \in Branches : DeleteBranch(b)
    /\ "deleteBranch" \in scenario.world => Len(commits') < MaxCommits

ScenarioSpec     == ScenarioInit /\ [][ScenarioNext]_<<vars, scenario>>
FairScenarioSpec == ScenarioSpec /\ Fairness

Contents             == Permutations({v1, v2})
RequestsAndContents  == Permutations({r1, r2}) \cup Contents
=============================================================================
