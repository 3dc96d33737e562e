------------------------------ MODULE Migration ------------------------------
(* What adds Civil to a repository and what brings an old project up to      *)
(* date: POST initialize and POST migrate (http/project-routes.ts) with the  *)
(* plans of project/migrate.ts and project/scaffold.ts.  Both write pending  *)
(* changes one by one, against a tree they read before; a step is what a     *)
(* handler does between two awaits.                                          *)
(*                                                                           *)
(* A path is a directory and a name.  A document is its kind and what it     *)
(* refers to: the project its composition, the composition its graphs, a     *)
(* graph the agent of each of its nodes, an agent its prompt.                *)
EXTENDS Naturals, Sequences, SequencesExt

CONSTANTS
    GraphOrder,      \* the graphs, in the order they are listed
    NodeIds,         \* the agent nodes of a graph, in the order it has them
    Agents, NoAgent,
    OldProjects,     \* the trees a project may be found with
    Callers          \* bound: calls at once

VARIABLES
    tree,            \* the pinned commit: paths with what they hold
    edits,            \* the pending changes: what they hold, or Gone
    calls,           \* what each call read, and what it still has to write
    found,           \* history: the tree the project was found with
    disturbed           \* history: a call failed midway, or a commit met one

migrationVars == <<tree, edits, calls, found, disturbed>>

GraphNames == ToSet(GraphOrder)
Gone == [kind |-> "gone"]

ProjectIn(dir)     == <<dir, "project">>
CompositionIn(dir) == <<dir, "composition">>
PromptOf(id)       == <<"prompts", id>>
Readme             == <<"root", "readme">>

ProjectDoc(dir)     == [kind |-> "project", composition |-> dir]
CompositionDoc(dir, graphs) == [kind |-> "composition", graphs |-> {<<dir, g>> : g \in graphs}]

ASSUME MigrationAssumption ==
    /\ NoAgent \notin Agents
    /\ \A t \in OldProjects : ProjectIn("civil") \notin DOMAIN t \/ ProjectIn("root") \notin DOMAIN t

-----------------------------------------------------------------------------
(* A tree with pending changes on top.                                       *)
OnTop(base, changes) ==
    [p \in {q \in DOMAIN base \cup DOMAIN changes : q \notin DOMAIN changes \/ changes[q] # Gone} |->
        IF p \in DOMAIN changes THEN changes[p] ELSE base[p]]

Seen == OnTop(tree, edits)

With(changes, p, content) == [q \in DOMAIN changes \cup {p} |-> IF q = p THEN content ELSE changes[q]]
Without(changes, p) == [q \in DOMAIN changes \ {p} |-> changes[q]]

(* civil/ first, the root where there is none.                               *)
CivilYaml(t) == IF ProjectIn("civil") \in DOMAIN t THEN ProjectIn("civil") ELSE ProjectIn("root")
CompositionOf(t) ==
    IF CivilYaml(t) \in DOMAIN t THEN CompositionIn(t[CivilYaml(t)].composition) ELSE CompositionIn("root")

-----------------------------------------------------------------------------
(* The plans: sequences of writes, and of originals to retire.               *)
Write(p, content) == [does |-> "write", path |-> p, content |-> content]
TakeAway(p)         == [does |-> "retire", path |-> p, content |-> Gone]
Move(from, to, content) == <<Write(to, content), TakeAway(from)>>

(* Faulty: only the project document is looked at.                           *)
RewriteProjectRefs(doc) == IF doc.kind = "project" THEN [doc EXCEPT !.composition = "civil"] ELSE doc

(* What refers to a document that moves, refers to where it goes.            *)
RewriteCivilRefs(doc) ==
    IF doc.kind = "project" THEN [doc EXCEPT !.composition = "civil"]
    ELSE IF doc.kind = "composition" THEN [doc EXCEPT !.graphs = {<<"civil", p[2]>> : p \in @}]
    ELSE doc

(* The project document, its composition and its graphs go into civil/.      *)
PlanMigration(t) ==
    LET docs == <<ProjectIn("root"), CompositionOf(t)>> \o [i \in DOMAIN GraphOrder |-> <<"root", GraphOrder[i]>>]
        there == SelectSeq(docs, LAMBDA p : p \in DOMAIN t)
    IN IF ProjectIn("civil") \in DOMAIN t \/ ProjectIn("root") \notin DOMAIN t THEN <<>>
       ELSE FlattenSeq([i \in DOMAIN there |->
                Move(there[i], <<"civil", there[i][2]>>, RewriteCivilRefs(t[there[i]]))])

(* The agent nodes with a document of their own, graph by graph.             *)
Referring(t) ==
    LET paths == [i \in DOMAIN GraphOrder |-> <<"civil", GraphOrder[i]>>]
                 \o [i \in DOMAIN GraphOrder |-> <<"root", GraphOrder[i]>>]
        all == FlattenSeq([i \in DOMAIN paths |-> [j \in DOMAIN NodeIds |-> [graph |-> paths[i], id |-> NodeIds[j]]]])
    IN SelectSeq(all, LAMBDA n : n.graph \in DOMAIN t /\ n.id \in DOMAIN t[n.graph].agents
                                 /\ t[n.graph].agents[n.id] # NoAgent)

AgentOf(t, n) == <<"agents", t[n.graph].agents[n.id]>>

(* Where the prompt of such a node is, if it is not where it should be.      *)
Strays(t, n) ==
    /\ AgentOf(t, n) \in DOMAIN t
    /\ t[AgentOf(t, n)].promptFile \in DOMAIN t \ {PromptOf(n.id)}

(* Each node's prompt goes to the file named for it, the first of a name     *)
(* only; then the agents go, then the references to them.                    *)
PlanAgentDissolution(t) ==
    LET nodes  == Referring(t)
        First(i) == Strays(t, nodes[i]) /\ \A j \in 1..(i - 1) : Strays(t, nodes[j]) => nodes[j].id # nodes[i].id
        moves  == FlattenSeq([i \in DOMAIN nodes |->
                      IF ~First(i) THEN <<>>
                      ELSE LET from == t[AgentOf(t, nodes[i])].promptFile
                           IN Move(from, PromptOf(nodes[i].id), t[from])])
        agents == SetToSeq({AgentOf(t, nodes[i]) : i \in DOMAIN nodes})
        graphs == SetToSeq({nodes[i].graph : i \in DOMAIN nodes})
    IN moves
       \o [i \in DOMAIN agents |-> TakeAway(agents[i])]
       \o [i \in DOMAIN graphs |->
              Write(graphs[i], [t[graphs[i]] EXCEPT !.agents = [n \in DOMAIN @ |-> NoAgent]])]

(* Refused where there is a civil.yaml; what is there already stays.         *)
ScaffoldFiles ==
    <<Write(ProjectIn("civil"), ProjectDoc("civil")),
      Write(CompositionIn("civil"), CompositionDoc("civil", {})),
      Write(Readme, [kind |-> "readme"])>>
PlanScaffold(t) ==
    IF ProjectIn("civil") \in DOMAIN t \/ ProjectIn("root") \in DOMAIN t THEN <<>>
    ELSE SelectSeq(ScaffoldFiles, LAMBDA s : s.path \notin DOMAIN t)

-----------------------------------------------------------------------------
(* A call: none; opened, with the commit it reads; moving documents into     *)
(* civil/; writing the rest.                                                 *)
NoMigration == [stage |-> "none", kind |-> "none", base |-> <<>>, todo |-> <<>>]

MigrationInit ==
    /\ found \in OldProjects
    /\ \/ tree = found /\ edits = <<>>
       \/ tree = <<>> /\ edits = found
    /\ calls = [c \in Callers |-> NoMigration]
    /\ disturbed = FALSE

Quiet == \A c \in Callers : calls[c] = NoMigration
Becomes(c, call) == calls' = [calls EXCEPT ![c] = call]

(* openSource: the pinned commit.                                            *)
Open(c, kind) ==
    /\ calls[c] = NoMigration
    /\ Becomes(c, [stage |-> "opened", kind |-> kind, base |-> tree, todo |-> <<>>])
    /\ UNCHANGED <<tree, edits, found, disturbed>>

(* listPending, and the plan on top of both.                                 *)
PlanOf(c) ==
    LET t == OnTop(calls[c].base, edits) IN
    /\ calls[c].stage = "opened"
    /\ LET first == IF calls[c].kind = "migrate" THEN PlanMigration(t) ELSE <<>>
           rest  == IF calls[c].kind = "migrate" THEN PlanAgentDissolution(t) ELSE PlanScaffold(t)
       IN Becomes(c, IF first # <<>> THEN [calls[c] EXCEPT !.stage = "moving", !.todo = first]
                     ELSE [calls[c] EXCEPT !.stage = "writing", !.todo = rest])
    /\ UNCHANGED <<tree, edits, found, disturbed>>

(* The pending changes are read again, the commit is not.                    *)
PlanAgain(c) ==
    /\ calls[c].stage = "moving" /\ calls[c].todo = <<>>
    /\ Becomes(c, [calls[c] EXCEPT !.stage = "writing",
                                   !.todo = PlanAgentDissolution(OnTop(calls[c].base, edits))])
    /\ UNCHANGED <<tree, edits, found, disturbed>>

(* savePending, deletePending, revertPending.                                *)
Landed(step, base) ==
    IF step.does = "write" THEN With(edits, step.path, step.content)
    ELSE IF step.path \in DOMAIN base THEN With(edits, step.path, Gone)
    ELSE Without(edits, step.path)

Do(c) ==
    /\ calls[c].todo # <<>>
    /\ edits' = Landed(Head(calls[c].todo), calls[c].base)
    /\ Becomes(c, [calls[c] EXCEPT !.todo = Tail(@)])
    /\ UNCHANGED <<tree, found, disturbed>>

Answer(c) ==
    /\ calls[c].stage = "writing" /\ calls[c].todo = <<>>
    /\ Becomes(c, NoMigration)
    /\ UNCHANGED <<tree, edits, found, disturbed>>

(* A statement fails, or the API goes down.                                  *)
Breaks(c) ==
    /\ calls[c].todo # <<>>
    /\ Becomes(c, NoMigration)
    /\ disturbed' = TRUE
    /\ UNCHANGED <<tree, edits, found>>

(* What is pending is committed: the tree becomes what the overlay was.      *)
CommitPending ==
    /\ edits # <<>>
    /\ tree' = Seen /\ edits' = <<>>
    /\ disturbed' = (disturbed \/ ~Quiet)
    /\ UNCHANGED <<calls, found>>

MigrationNext ==
    \/ \E c \in Callers, kind \in {"initialize", "migrate"} : Open(c, kind)
    \/ \E c \in Callers : PlanOf(c) \/ PlanAgain(c) \/ Do(c) \/ Answer(c) \/ Breaks(c)
    \/ CommitPending

MigrationSpec == MigrationInit /\ [][MigrationNext]_migrationVars

-----------------------------------------------------------------------------
(* What a project says: the graphs its composition reaches, and the prompt   *)
(* of every agent node in them.                                              *)
PromptText(t, graph, id) ==
    LET agent == <<"agents", t[graph].agents[id]>>
    IN IF agent \in DOMAIN t /\ t[agent].promptFile \in DOMAIN t THEN t[t[agent].promptFile]
       ELSE IF PromptOf(id) \in DOMAIN t THEN t[PromptOf(id)] ELSE Gone
Reached(t) == IF CompositionOf(t) \in DOMAIN t THEN t[CompositionOf(t)].graphs \cap DOMAIN t ELSE {}
Meaning(t) ==
    {<<g[2], id, PromptText(t, g, id)>> : <<g, id>> \in
        {n \in Reached(t) \X ToSet(NodeIds) : n[2] \in DOMAIN t[n[1]].agents}}

(* The agents' prompts are there, and each file named for a node that has a  *)
(* document of its own is that node's and no other's: there is no other node *)
(* of its name, and no other file.                                           *)
Plain(t) ==
    LET nodes == ToSet(Referring(t)) IN
    \A n \in nodes :
        /\ AgentOf(t, n) \in DOMAIN t /\ t[AgentOf(t, n)].promptFile \in DOMAIN t
        /\ \A o \in nodes : o.id = n.id => PromptText(t, o.graph, o.id) = PromptText(t, n.graph, n.id)
        /\ \A o \in nodes : t[AgentOf(t, o)].promptFile = PromptOf(n.id) => o.id = n.id
        /\ PromptOf(n.id) \in DOMAIN t => t[PromptOf(n.id)] = PromptText(t, n.graph, n.id)

(* What is written is a document of a known kind, and a call that is not     *)
(* under way has nothing left to write.                                      *)
MigrationTypeOK ==
    /\ \A p \in DOMAIN tree : tree[p].kind \in {"project", "composition", "graph", "agent", "prompt", "readme"}
    /\ \A p \in DOMAIN edits : edits[p] = Gone \/ edits[p].kind \in {"project", "composition", "graph", "prompt", "agent", "readme"}
    /\ \A c \in Callers : calls[c].stage \in {"none", "opened"} => calls[c].todo = <<>>
    /\ disturbed \in BOOLEAN

(* Whatever is migrated, and by two at once, the project says what it said:  *)
(* the graphs its composition reaches and the prompt of each of their agents *)
(* (migrate.ts:6-16, 102-109).                                               *)
MigrationKeepsMeaning ==
    Plain(found) /\ Quiet /\ ~disturbed /\ CivilYaml(found) \in DOMAIN found =>
        Meaning(Seen) = Meaning(found)

(* Every document and prompt is somewhere at every moment, whatever failed   *)
(* and whatever was committed meanwhile (project-routes.ts:657-676).         *)
NothingIsMislaid ==
    \A p \in DOMAIN found :
        IF found[p].kind = "prompt" THEN Plain(found) => \E q \in DOMAIN Seen : Seen[q] = found[p]
        ELSE found[p].kind # "agent" => p \in DOMAIN Seen \/ <<"civil", p[2]>> \in DOMAIN Seen

MigrationHolds == MigrationTypeOK /\ MigrationKeepsMeaning /\ NothingIsMislaid

(* TLC refutes this one: the civil.yaml goes first, so what a failure leaves *)
(* at the root is refused as migrated already (migrate.ts:65).               *)
CanBeResumed ==
    Plain(found) /\ Quiet /\ CivilYaml(found) \in DOMAIN found =>
        Meaning(Seen) = Meaning(found) \/ PlanMigration(Seen) \o PlanAgentDissolution(Seen) # <<>>
=============================================================================
