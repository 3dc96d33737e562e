------------------------------ MODULE FlowCheck ------------------------------
(* A graph of a service: lines as the page proposes them                       *)
(* (src/apps/web/src/canvas/edges.ts), the walk that looks for flow cycles     *)
(* each time the project is validated (src/packages/schema/src/validate.ts),   *)
(* and the order the runtime works the nodes in                                *)
(* (src/runtime/src/civil_runtime/runner.py). The page lets a graph run when   *)
(* the walk reported nothing; the runtime knows nothing of the walk.           *)
EXTENDS Integers, Sequences, FiniteSets

CONSTANTS
  Nodes,        \* the ids, in the order the runtime sorts them by
  NodeType,     \* "agent", "code", "subgraph", "input" or "output" for each node
  MaxLines      \* bound on the lines of the graph

ASSUME NodesAssumption == Nodes \subseteq Nat /\ IsFiniteSet(Nodes)
ASSUME MaxLinesAssumption == MaxLines \in Nat

VARIABLES
  edges,        \* the lines of the graph, in the order of the file
  phase,        \* "drawing", "checking", "checked", "sorting", "sorted"
  colour,       \* of the walk: for each node "white", "grey" or "black"
  stack,        \* of the walk: the nodes that are being visited
  looked,       \* of the walk: the places of the lines it has followed
  reported,     \* of the walk: the cycles it named, each as its path
  incoming,     \* of the sort: how many lines a node still waits for
  ready,        \* of the sort: the nodes that wait for none
  out           \* of the sort: the nodes in order

walk == <<colour, stack, looked, reported>>
sort == <<incoming, ready, out>>
flowVars == <<edges, phase, walk, sort>>

-----------------------------------------------------------------------------
Ends == [from : Nodes, to : Nodes, kind : {"flow", "capability"}]

Flow == {i \in DOMAIN edges : edges[i].kind = "flow"}
Places(n) == {i \in Flow : edges[i].from = n}
Successors(n) == {edges[i].to : i \in Places(n)}

(* No nodes keep a cycle going among themselves.                               *)
Acyclic(within) == \A S \in SUBSET within : S # {} => \E n \in S : Successors(n) \cap S = {}

(* What a line between two nodes means; "" when it is refused in words.        *)
ProposeGraphEdge(a, b) ==
  CASE NodeType[a] = "agent" /\ NodeType[b] = "code" -> "capability"
    [] NodeType[a] = "output" \/ NodeType[b] = "input" -> ""
    [] OTHER -> "flow"

(* What the validator holds against a line.                                    *)
EdgeFaults(e) ==
  IF e.kind = "capability"
  THEN (IF NodeType[e.from] # "agent" THEN {"capability-edge-bad-source"} ELSE {})
         \union (IF NodeType[e.to] # "code" THEN {"capability-edge-bad-target"} ELSE {})
  ELSE (IF NodeType[e.from] = "output" \/ NodeType[e.to] = "input" THEN {"io-direction-violation"} ELSE {})

-----------------------------------------------------------------------------
White  == [n \in Nodes |-> "white"]
Waits0 == [n \in Nodes |-> 0]

FlowInit ==
  /\ edges = <<>> /\ phase = "drawing"
  /\ colour = White /\ stack = <<>> /\ looked = {} /\ reported = {}
  /\ incoming = Waits0 /\ ready = {} /\ out = <<>>

Draw(a, b) ==
  /\ phase = "drawing" /\ Len(edges) < MaxLines
  /\ a # b
  /\ ProposeGraphEdge(a, b) # ""
  /\ edges' = Append(edges, [from |-> a, to |-> b, kind |-> ProposeGraphEdge(a, b)])
  /\ UNCHANGED <<phase, walk, sort>>

-----------------------------------------------------------------------------
(* checkFlowCycles. visit marks a node grey, follows its lines in turn and     *)
(* marks it black; a line to a grey node closes a cycle.                       *)

StartCheck ==
  /\ phase = "drawing"
  /\ phase' = "checking"
  /\ UNCHANGED <<edges, walk, sort>>

TopNode == stack[Len(stack)]

(* The sources of lines in the order they first occur (adjacency.keys).        *)
Root(n) ==
  /\ phase = "checking" /\ stack = <<>>
  /\ colour[n] = "white"
  /\ \E i \in Places(n) : \A j \in Flow : colour[edges[j].from] = "white" => i <= j
  /\ colour' = [colour EXCEPT ![n] = "grey"] /\ stack' = <<n>>
  /\ UNCHANGED <<edges, phase, looked, reported, sort>>

NextLine(i) == i \in Places(TopNode) \ looked /\ \A j \in Places(TopNode) \ looked : i <= j

(* The path from where the walk entered the node back to it.                   *)
CycleAt(k) == Append(SubSeq(stack, k, Len(stack)), stack[k])

(* A line back to the node itself or the one before it only: a plausible bug.  *)
ClosesAtTop(n) == {k \in {Len(stack) - 1, Len(stack)} \ {0} : stack[k] = n}

(* Where the stack holds a node.                                               *)
Closes(n) == {k \in DOMAIN stack : stack[k] = n}

On(path) == {path[k] : k \in DOMAIN path}

(* One name for the cycles that enter the same nodes at the same node.         *)
Named(path) == \E known \in reported : known[1] = path[1] /\ On(known) = On(path)

FollowToGrey(i) ==
  /\ phase = "checking" /\ stack # <<>> /\ NextLine(i)
  /\ colour[edges[i].to] = "grey"
  /\ reported' = reported \union {path \in {CycleAt(k) : k \in Closes(edges[i].to)} : ~Named(path)}
  /\ looked' = looked \union {i}
  /\ UNCHANGED <<edges, phase, colour, stack, sort>>

FollowToWhite(i) ==
  /\ phase = "checking" /\ stack # <<>> /\ NextLine(i)
  /\ colour[edges[i].to] = "white"
  /\ colour' = [colour EXCEPT ![edges[i].to] = "grey"]
  /\ stack' = Append(stack, edges[i].to)
  /\ looked' = looked \union {i}
  /\ UNCHANGED <<edges, phase, reported, sort>>

FollowToBlack(i) ==
  /\ phase = "checking" /\ stack # <<>> /\ NextLine(i)
  /\ colour[edges[i].to] = "black"
  /\ looked' = looked \union {i}
  /\ UNCHANGED <<edges, phase, colour, stack, reported, sort>>

Leave ==
  /\ phase = "checking" /\ stack # <<>>
  /\ Places(TopNode) \subseteq looked
  /\ colour' = [colour EXCEPT ![TopNode] = "black"]
  /\ stack' = SubSeq(stack, 1, Len(stack) - 1)
  /\ UNCHANGED <<edges, phase, looked, reported, sort>>

EndCheck ==
  /\ phase = "checking" /\ stack = <<>>
  /\ \A i \in Flow : colour[edges[i].from] # "white"
  /\ phase' = "checked"
  /\ UNCHANGED <<edges, walk, sort>>

-----------------------------------------------------------------------------
(* toposort: how many lines end at each node; those with none are ready.       *)

Arriving(n) == {i \in Flow : edges[i].to = n}

StartSort ==
  /\ phase = "checked"
  /\ phase' = "sorting"
  /\ incoming' = [n \in Nodes |-> Cardinality(Arriving(n))]
  /\ ready' = {n \in Nodes : Arriving(n) = {}}
  /\ out' = <<>>
  /\ UNCHANGED <<edges, walk>>

(* Once for each node it leads to, not for each line: a plausible bug.         *)
TakenOnce(n) == [m \in Nodes |-> IF m \in Successors(n) THEN incoming[m] - 1 ELSE incoming[m]]

Taken(n) == [m \in Nodes |-> incoming[m] - Cardinality(Places(n) \cap Arriving(m))]

Take(n) ==
  /\ phase = "sorting" /\ n \in ready
  /\ \A m \in ready : n <= m
  /\ out' = Append(out, n)
  /\ incoming' = Taken(n)
  /\ ready' = (ready \ {n}) \union {m \in Successors(n) : incoming'[m] = 0}
  /\ UNCHANGED <<edges, phase, walk>>

EndSort ==
  /\ phase = "sorting" /\ ready = {}
  /\ phase' = "sorted"
  /\ UNCHANGED <<edges, walk, sort>>

(* The author goes on; the next walk and the next sort begin with nothing.     *)
Resume ==
  /\ phase \in {"checked", "sorted"}
  /\ phase' = "drawing"
  /\ colour' = White /\ stack' = <<>> /\ looked' = {} /\ reported' = {}
  /\ incoming' = Waits0 /\ ready' = {} /\ out' = <<>>
  /\ UNCHANGED edges

(* An edge is removed on the canvas.                                           *)
Erase(i) ==
  /\ phase = "drawing" /\ i \in DOMAIN edges
  /\ edges' = SubSeq(edges, 1, i - 1) \o SubSeq(edges, i + 1, Len(edges))
  /\ UNCHANGED <<phase, walk, sort>>

FlowNext ==
  \/ \E a, b \in Nodes : Draw(a, b)
  \/ \E i \in DOMAIN edges : Erase(i)
  \/ StartCheck \/ EndCheck \/ StartSort \/ EndSort \/ Resume \/ Leave
  \/ \E n \in Nodes : Root(n) \/ Take(n)
  \/ \E i \in DOMAIN edges : FollowToGrey(i) \/ FollowToWhite(i) \/ FollowToBlack(i)

FlowSpec == FlowInit /\ [][FlowNext]_flowVars

-----------------------------------------------------------------------------
FlowTypeOK ==
  /\ edges \in Seq(Ends)
  /\ phase \in {"drawing", "checking", "checked", "sorting", "sorted"}
  /\ colour \in [Nodes -> {"white", "grey", "black"}]
  /\ stack \in Seq(Nodes)
  /\ looked \subseteq Nat
  /\ reported \subseteq Seq(Nodes)
  /\ incoming \in [Nodes -> Int]
  /\ ready \subseteq Nodes
  /\ out \in Seq(Nodes)

Checked == phase \in {"checked", "sorting", "sorted"}

(* A graph the walk has nothing to say against has no flow cycle (PRD 6.4:     *)
(* "block Run"): the colours never hide one that was entered from elsewhere.   *)
CleanMeansAcyclic == Checked /\ reported = {} => Acyclic(Nodes)

(* A path the walk names is one: it follows the flow and comes back to where   *)
(* it starts, so that Run is never blocked for nothing.                        *)
NamedPathsAreCycles ==
  Checked =>
    \A path \in reported :
      /\ path[1] = path[Len(path)]
      /\ Len(path) > 1
      /\ \A k \in 1..(Len(path) - 1) : path[k + 1] \in Successors(path[k])

(* The page and the runtime agree on what can run: the sort gets through every *)
(* node exactly when the walk reported nothing.                                *)
RuntimeAgrees == phase = "sorted" => (Len(out) = Cardinality(Nodes) <=> reported = {})

(* A node is worked after everything that flows into it, and once.             *)
OrderFollowsFlow ==
  phase \in {"sorting", "sorted"} =>
    \A k, l \in DOMAIN out : (out[l] \in Successors(out[k]) => k < l) /\ (out[k] = out[l] => k = l)

(* What the page proposes the validator accepts (edges.ts mirrors validate.ts).*)
ProposalsAreLegal == \A i \in DOMAIN edges : EdgeFaults(edges[i]) = {}

(* What the walk that blocks Run says of a graph is so, and the page proposes  *)
(* no line it would refuse (validate.ts:201-260, edges.ts).                    *)
CheckIsRight == CleanMeansAcyclic /\ NamedPathsAreCycles /\ ProposalsAreLegal

(* The runtime gets through the graphs that passed, and through no others, in  *)
(* the order of their lines (runner.py:68-104).                                *)
SortIsRight == RuntimeAgrees /\ OrderFollowsFlow
=============================================================================
