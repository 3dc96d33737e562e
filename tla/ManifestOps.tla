----------------------------- MODULE ManifestOps -----------------------------
(* What the operations of the op layer do to a manifest, as a document: the    *)
(* nodes and edges in the order of the file and the ids that have a position   *)
(* (src/apps/api/src/manifest/apply.ts). How the same operations are carried   *)
(* out on the text is ManifestText, which implements this module; which of     *)
(* them the page posts is Canvas.                                              *)
(*                                                                             *)
(* A node is [id, type, names, overrides]: names is its exposes or calls list, *)
(* overrides the keys of its invocation mapping. An edge is [id, kind, from,   *)
(* to]. Positions and the other fields of an item are left out.                *)
EXTENDS Sequences, FiniteSets, Naturals, SequencesExt

CONSTANTS
  Ids,          \* ids an operation may name
  EdgeIds,      \* ids of edges
  Refused,      \* the result of an operation that cannot be applied (a 422)
  MaxNodes, MaxEdges,  \* bounds on the lists
  Types, Kinds,        \* the types of nodes and kinds of edges
  Starts               \* the documents editing starts from

VARIABLE doc

-----------------------------------------------------------------------------
(* The items of a list.                                                        *)

IdsOf(items) == {items[i].id : i \in DOMAIN items}

IndexOf(items, id) ==
  IF id \in IdsOf(items)
  THEN CHOOSE i \in DOMAIN items : items[i].id = id /\ \A j \in 1..(i - 1) : items[j].id # id
  ELSE 0

(* The items whose place is in keep, in their order.                           *)
InOrder(places, n) == SelectSeq([i \in 1..n |-> i], LAMBDA i : i \in places)
Keeping(items, keep) == LET at == InOrder(keep, Len(items))
                        IN  [k \in DOMAIN at |-> items[at[k]]]

(* Each id takes the first item that has it: a second one of the same id stays.*)
Doomed(items, ids) == {i \in DOMAIN items : items[i].id \in ids /\ IndexOf(items, items[i].id) = i}

Without(items, ids) == Keeping(items, DOMAIN items \ Doomed(items, ids))

Touches(edge, id) == id \in {edge.from, edge.to}
Touching(d, id) == {d.edges[i].id : i \in {j \in DOMAIN d.edges : Touches(d.edges[j], id)}}

-----------------------------------------------------------------------------
(* The operations. Each yields a document or Refused.                          *)

AddNode(d, op) == [d EXCEPT !.nodes = Append(@, op.node)]
AddEdge(d, op) == [d EXCEPT !.edges = Append(@, op.edge)]

RemoveEdge(d, op) ==
  IF op.id \in IdsOf(d.edges) THEN [d EXCEPT !.edges = Without(@, {op.id})] ELSE Refused

(* The node, the edges that touch it and its position, or nothing when the     *)
(* caller does not want its edges taken.                                       *)
RemoveNode(d, op) ==
  IF op.id \notin IdsOf(d.nodes) \/ (~op.cascade /\ Touching(d, op.id) # {})
  THEN Refused
  ELSE [nodes  |-> Without(d.nodes, {op.id}),
        edges  |-> Without(d.edges, Touching(d, op.id)),
        layout |-> d.layout \ {op.id}]

(* A patch is a record of the fields it sets; id and type are refused before   *)
(* the item is looked for, so is a patch of nothing.                           *)
Patched(item, patch) == [f \in DOMAIN item |-> IF f \in DOMAIN patch THEN patch[f] ELSE item[f]]

UpdateIn(items, id, patch) ==
  LET at == IndexOf(items, id) IN [items EXCEPT ![at] = Patched(@, patch)]

UpdateNode(d, op) ==
  IF \/ {"id", "type"} \cap DOMAIN op.patch # {}
     \/ DOMAIN op.patch = {}
     \/ op.id \notin IdsOf(d.nodes)
  THEN Refused
  ELSE [d EXCEPT !.nodes = UpdateIn(@, op.id, op.patch)]

UpdateEdge(d, op) ==
  IF "id" \in DOMAIN op.patch \/ DOMAIN op.patch = {} \/ op.id \notin IdsOf(d.edges)
  THEN Refused
  ELSE [d EXCEPT !.edges = UpdateIn(@, op.id, op.patch)]

Swap(id, from, to) == IF id = from THEN to ELSE id
SwapIn(ids, from, to) == {Swap(id, from, to) : id \in ids}

(* The id of the first node that has it, and, with references, every place     *)
(* that names it: lists, overrides, ends of edges, the position.               *)
RenameNode(d, op) ==
  IF op.from \notin IdsOf(d.nodes) \/ op.to \in IdsOf(d.nodes)
  THEN Refused
  ELSE LET at      == IndexOf(d.nodes, op.from)
           own(i)  == IF i = at THEN op.to ELSE d.nodes[i].id
           all     == op.references
       IN [nodes  |-> [i \in DOMAIN d.nodes |->
                         [d.nodes[i] EXCEPT
                           !.id = own(i),
                           !.names = IF all THEN SwapIn(@, op.from, op.to) ELSE @,
                           !.overrides = IF all THEN SwapIn(@, op.from, op.to) ELSE @]],
           edges  |-> [i \in DOMAIN d.edges |->
                         IF all THEN [d.edges[i] EXCEPT !.from = Swap(@, op.from, op.to),
                                                        !.to   = Swap(@, op.from, op.to)]
                         ELSE d.edges[i]],
           layout |-> IF all THEN SwapIn(d.layout, op.from, op.to) ELSE d.layout]

SetLayout(d, op) == [d EXCEPT !.layout = @ \union {op.id}]

ApplyOne(d, op) ==
  CASE op.op = "addNode"    -> AddNode(d, op)
    [] op.op = "setLayout"  -> SetLayout(d, op)
    [] op.op = "addEdge"    -> AddEdge(d, op)
    [] op.op = "removeEdge" -> RemoveEdge(d, op)
    [] op.op = "removeNode" -> RemoveNode(d, op)
    [] op.op = "updateNode" -> UpdateNode(d, op)
    [] op.op = "updateEdge" -> UpdateEdge(d, op)
    [] op.op = "renameNode" -> RenameNode(d, op)

(* Each operation sees what the one before it left; one refusal refuses all.   *)
ApplyOps(d, ops) ==
  LET after[n \in 0..Len(ops)] ==
        IF n = 0 THEN d
        ELSE LET before == after[n - 1]
             IN  IF before = Refused THEN Refused ELSE ApplyOne(before, ops[n])
  IN  after[Len(ops)]

-----------------------------------------------------------------------------
(* The batches a caller may post.                                              *)

OpsOf(d) ==
  LET here  == IdsOf(d.nodes)
      lines == IdsOf(d.edges)
      plain(id, t) == [id |-> id, type |-> t, names |-> {}, overrides |-> {}]
  IN UNION {
    {<<[op |-> "addNode", node |-> plain(id, t)], [op |-> "setLayout", id |-> id]>> :
       id \in IF Len(d.nodes) < MaxNodes THEN Ids \ here ELSE {}, t \in Types},
    {<<[op |-> "addEdge", edge |-> [id |-> e, kind |-> k, from |-> ends[1], to |-> ends[2]]]>> :
       e \in IF Len(d.edges) < MaxEdges THEN EdgeIds \ lines ELSE {}, k \in Kinds,
       ends \in {p \in here \X here : p[1] # p[2]}},
    {<<[op |-> "removeEdge", id |-> e]>> : e \in lines},
    {<<[op |-> "removeNode", id |-> id, cascade |-> c]>> : id \in Ids, c \in BOOLEAN},
    {<<[op |-> "removeNode", id |-> a, cascade |-> TRUE], [op |-> "removeEdge", id |-> e]>> :
       a \in here, e \in lines},
    {<<[op |-> "updateNode", id |-> id, patch |-> [names |-> here \ {id}]]>> :
       id \in {n.id : n \in {m \in Range(d.nodes) : m.type = "boundary"}}},
    {<<[op |-> "updateEdge", id |-> e, patch |-> [kind |-> k]]>> : e \in lines, k \in Kinds},
    {<<[op |-> "renameNode", from |-> a, to |-> b, references |-> TRUE]>> : a \in here, b \in Ids},
    {<<[op |-> "setLayout", id |-> id]>> : id \in here \ d.layout}}

Init == doc \in Starts

(* What may come of a document; a refused batch leaves it as it was.           *)
Outcomes(d) == {ApplyOps(d, ops) : ops \in OpsOf(d)} \ {Refused}

Next == doc' \in Outcomes(doc)

Spec == Init /\ [][Next]_doc

-----------------------------------------------------------------------------
(* What the operations promise.                                                *)

(* Every id the document says.                                                 *)
Mentioned(d) ==
  IdsOf(d.nodes) \union d.layout
    \union UNION {d.nodes[i].names \union d.nodes[i].overrides : i \in DOMAIN d.nodes}
    \union UNION {{d.edges[i].from, d.edges[i].to} : i \in DOMAIN d.edges}

(* Renaming a node to a name nobody says leaves no mention of the old one, and *)
(* renaming it back gives the document there was: a rename moves every mention *)
(* and only those (renameNode).                                                *)
RenameIsComplete(d) ==
  \A a \in IdsOf(d.nodes), b \in Ids \ Mentioned(d) :
    LET renamed == ApplyOne(d, [op |-> "renameNode", from |-> a, to |-> b, references |-> TRUE])
    IN  /\ a \notin Mentioned(renamed)
        /\ ApplyOne(renamed, [op |-> "renameNode", from |-> b, to |-> a, references |-> TRUE]) = d

(* A removed node is not said by any edge nor placed anywhere, whatever else   *)
(* the document holds, provided its id was its own.                            *)
GoneFromEdges(d) ==
  \A id \in IdsOf(d.nodes) :
    (\A i, j \in DOMAIN d.edges : i # j => d.edges[i].id # d.edges[j].id) =>
      LET after == ApplyOne(d, [op |-> "removeNode", id |-> id, cascade |-> TRUE])
      IN  /\ Touching(after, id) = {}
          /\ id \notin after.layout

(* A node that is added, placed and removed again leaves no trace.             *)
AddedAndRemoved(d) ==
  \A id \in Ids \ Mentioned(d) :
    LET t == CHOOSE x \in Types : TRUE
    IN  ApplyOps(d, <<[op |-> "addNode", node |-> [id |-> id, type |-> t, names |-> {}, overrides |-> {}]],
                      [op |-> "setLayout", id |-> id],
                      [op |-> "removeNode", id |-> id, cascade |-> FALSE]>>)
          = d
=============================================================================
