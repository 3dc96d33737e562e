-------------------------------- MODULE Canvas -------------------------------
(* The composition canvas: the gestures of the page, the operations each one   *)
(* posts, and what the validator says of the result. The page decides the kind *)
(* of a line from its ends and keeps each boundary's exposes list in step with *)
(* its lines (src/apps/web/src/canvas/edges.ts, App.tsx); the server applies   *)
(* the batch without validating it (ManifestOps); the bundle that comes back   *)
(* carries the diagnostics (src/packages/schema/src/validate.ts).              *)
EXTENDS ManifestOps

CONSTANTS
  Names,        \* for a type, the ids uniqueId tries, in order
  EdgeNames,    \* the ids nextEdgeId tries, in order
  NewIds,       \* ids a rename may give
  MaxSelected,  \* bound: items selected at once
  Inside        \* ids the open view places in its one domain

VARIABLES
  level,        \* "top" or "inside": the level of the view that is drawn
  typed,        \* whether the author has typed a list in the inspector
  gone          \* ids of services removed so far

vars == <<doc, level, typed, gone>>

-----------------------------------------------------------------------------
(* Nodes by id: of two with one id the later wins.                             *)

LastOf(d, id) == CHOOSE i \in DOMAIN d.nodes : d.nodes[i].id = id /\ \A j \in DOMAIN d.nodes : d.nodes[j].id = id => j <= i
NodeOf(d, id) == d.nodes[LastOf(d, id)]
TypeOf(d, id) == IF id \in IdsOf(d.nodes) THEN NodeOf(d, id).type ELSE "none"
Services(d) == {n.id : n \in {m \in Range(d.nodes) : m.type = "service"}}

-----------------------------------------------------------------------------
(* The validator. A diagnostic is its code and the item it is attached to.     *)

Says(code, at) == [code |-> code, at |-> at]

Duplicates(items) == {Says("duplicate-id", items[i].id) : i \in {j \in DOMAIN items : IndexOf(items, items[j].id) # j}}

NodeDiagnostics(d, n) ==
  CASE n.type = "process"  -> {Says("calls-non-service", n.id) : s \in n.names \ Services(d)}
    [] n.type = "boundary" -> {Says("exposes-non-service", n.id) :
                                 s \in (n.names \ Services(d)) \union (n.overrides \ n.names)}
    [] OTHER               -> {}

RoutesTo == {<<"client", "boundary">>, <<"boundary", "service">>}

EdgeDiagnostics(d, e) ==
  LET from == TypeOf(d, e.from)
      to   == TypeOf(d, e.to)
      when(condition, code) == IF condition THEN {Says(code, e.id)} ELSE {}
  IN CASE "none" \in {from, to} -> {Says("unknown-node", e.id)}
       [] "none" \notin {from, to} /\ to = "client" -> {Says("client-is-edge-target", e.id)}
       [] "none" \notin {from, to} /\ to # "client" /\ e.kind = "routes-to" ->
            IF to = "process" THEN {Says("edge-kind-bad-target", e.id)}
            ELSE when(<<from, to>> \notin RoutesTo, "edge-kind-bad-source")
       [] "none" \notin {from, to} /\ to # "client" /\ e.kind = "calls" ->
            when(from \notin {"service", "process"}, "edge-kind-bad-source")
              \union when(to # "boundary", "edge-kind-bad-target")
       [] OTHER ->
            when(from \in {"client", "boundary", "datastore"}, "edge-kind-bad-source")
              \union when(to \notin {"service", "datastore"}, "edge-kind-bad-target")

Diagnostics(d) ==
  Duplicates(d.nodes) \union Duplicates(d.edges)
    \union UNION {NodeDiagnostics(d, n) : n \in Range(d.nodes)}
    \union UNION {EdgeDiagnostics(d, e) : e \in Range(d.edges)}

-----------------------------------------------------------------------------
(* What a line between two nodes means, or "" when it is refused in words.     *)

ProposeCompositionEdge(from, to) ==
  LET runs == from \in {"service", "process"}
  IN CASE to \in {"client", "process"} \/ from = "datastore"             -> ""
       [] from # "datastore" /\ to = "datastore"                         -> IF runs THEN "depends-on" ELSE ""
       [] from \in {"client", "boundary"} /\ <<from, to>> \in RoutesTo    -> "routes-to"
       [] from \in {"client", "boundary"} /\ to \in {"boundary", "service"} /\ <<from, to>> \notin RoutesTo -> ""
       [] runs /\ to = "boundary"                                        -> "calls"
       [] OTHER                                                          -> "depends-on"

(* The first of the ids that is not taken (uniqueId, nextEdgeId).              *)
FirstFree(ids, taken) ==
  LET free == {i \in DOMAIN ids : ids[i] \notin taken}
  IN  IF free = {} THEN "" ELSE ids[CHOOSE i \in free : \A j \in free : i <= j]

-----------------------------------------------------------------------------
(* The exposes list in step with the lines. Only what the lines account for    *)
(* moves; an override goes with the service it names.                          *)

Exposure(d, e) == e.kind = "routes-to" /\ TypeOf(d, e.from) = "boundary" /\ TypeOf(d, e.to) = "service"

Exposing(d, edges, b) == {e.to : e \in {x \in edges : Exposure(d, x) /\ x.from = b}}

(* Without asking for another line between the two: a plausible bug.           *)
GoneWithAny(d, b, added, removedIds) ==
  LET lines == Range(d.edges)
  IN  Exposing(d, {e \in lines : e.id \in removedIds}, b) \ Exposing(d, added, b)

Gone(d, b, added, removedIds) ==
  LET lines == Range(d.edges)
      left  == {e \in lines : e.id \notin removedIds}
  IN  Exposing(d, lines \ left, b) \ (Exposing(d, left, b) \union Exposing(d, added, b))

PatchOf(node, exposes, withdrawn) ==
  IF withdrawn \cap node.overrides = {} THEN [names |-> exposes]
  ELSE [names |-> exposes, overrides |-> node.overrides \ withdrawn]

ExposesSync(d, added, removedIds) ==
  LET exposes(b) == (NodeOf(d, b).names \ Gone(d, b, added, removedIds)) \union Exposing(d, added, b)
      moved == {b \in IdsOf(d.nodes) : TypeOf(d, b) = "boundary" /\ exposes(b) # NodeOf(d, b).names}
  IN  {[op |-> "updateNode", id |-> b,
        patch |-> PatchOf(NodeOf(d, b), exposes(b), Gone(d, b, added, removedIds))] : b \in moved}

-----------------------------------------------------------------------------
(* The level that is drawn: its parts and, of the lines, those between them.   *)

Drawn == {id \in IdsOf(doc.nodes) : (id \in Inside) = (level = "inside")}
DrawnEdges == {e \in Range(doc.edges) : {e.from, e.to} \subseteq Drawn}

(* The batch is applied whole or refused, and the page draws what came of it.  *)
Run(ops) == LET after == ApplyOps(doc, ops) IN doc' = IF after = Refused THEN doc ELSE after

InInit == doc \in Starts /\ level = "top" /\ typed = FALSE /\ gone = {}

Go(l) == level # l /\ level' = l /\ UNCHANGED <<doc, typed, gone>>

AddPart(t) ==
  LET id == FirstFree(Names[t], IdsOf(doc.nodes))
  IN  /\ id # "" /\ Len(doc.nodes) < MaxNodes
      /\ Run(<<[op |-> "addNode", node |-> [id |-> id, type |-> t, names |-> {}, overrides |-> {}]],
               [op |-> "setLayout", id |-> id]>>)
      /\ UNCHANGED <<level, typed, gone>>

(* handleConnect and connectEdge.                                              *)
Connect(a, b) ==
  LET kind == ProposeCompositionEdge(TypeOf(doc, a), TypeOf(doc, b))
      id   == FirstFree(EdgeNames, {e.id : e \in DrawnEdges})
      edge == [id |-> id, kind |-> kind, from |-> a, to |-> b]
  IN  /\ a \in Drawn /\ b \in Drawn /\ a # b
      /\ kind # "" /\ id # "" /\ Len(doc.edges) < MaxEdges
      /\ Run(<<[op |-> "addEdge", edge |-> edge]>> \o SetToSeq(ExposesSync(doc, {edge}, {})))
      /\ UNCHANGED <<level, typed, gone>>

(* performDelete: the selected nodes, each with its edges, and the selected    *)
(* edges that do not go with one of them.                                      *)
Delete(nodes, edges) ==
  LET alone == {e.id : e \in {x \in edges : {x.from, x.to} \cap nodes = {}}}
      sync  == {op \in ExposesSync(doc, {}, alone) : op.id \notin nodes}
  IN  /\ Cardinality(nodes) + Cardinality(edges) \in 1 .. MaxSelected
      /\ Run(SetToSeq({[op |-> "removeNode", id |-> n, cascade |-> TRUE] : n \in nodes})
               \o SetToSeq({[op |-> "removeEdge", id |-> e] : e \in alone})
               \o SetToSeq(sync))
      /\ gone' = gone \union (nodes \cap Services(doc))
      /\ UNCHANGED <<level, typed>>

(* The inspector's id field and its lists.                                     *)
Rename(a, b) ==
  /\ a \in Drawn
  /\ Run(<<[op |-> "renameNode", from |-> a, to |-> b, references |-> TRUE]>>)
  /\ gone' = IF a \in gone /\ b \notin IdsOf(doc.nodes) THEN gone \union {b} ELSE gone
  /\ UNCHANGED <<level, typed>>

TypeList(id, names) ==
  /\ id \in Drawn /\ TypeOf(doc, id) \in {"boundary", "process"}
  /\ ~typed                       \* bound: lists are typed once
  /\ Run(<<[op |-> "updateNode", id |-> id, patch |-> [names |-> names]]>>)
  /\ typed' = TRUE
  /\ UNCHANGED <<level, gone>>

Move(id) == id \in Drawn /\ Run(<<[op |-> "setLayout", id |-> id]>>) /\ UNCHANGED <<level, typed, gone>>

CanvasNext ==
  \/ \E l \in {"top", "inside"} : Inside # {} /\ Go(l)
  \/ \E t \in DOMAIN Names : AddPart(t)
  \/ \E a, b \in Ids : Connect(a, b)
  \/ \E nodes \in SUBSET Drawn, edges \in SUBSET DrawnEdges : Delete(nodes, edges)
  \/ \E a \in Ids, b \in NewIds : Rename(a, b)
  \/ \E id \in Ids, n \in {{}} \union {{s} : s \in Services(doc)} : TypeList(id, n)
  \/ \E id \in Ids : Move(id)

CanvasSpec == InInit /\ [][CanvasNext]_vars

-----------------------------------------------------------------------------
TypeOK ==
  /\ \A n \in Range(doc.nodes) : n \in [id : Ids, type : Types, names : SUBSET Ids, overrides : SUBSET Ids]
  /\ \A e \in Range(doc.edges) : e \in [id : EdgeIds, kind : Kinds, from : Ids, to : Ids]
  /\ doc.layout \subseteq Ids
  /\ level \in {"top", "inside"} /\ typed \in BOOLEAN /\ gone \subseteq Ids

(* Whatever is drawn, deleted and renamed, in whatever order, the validator    *)
(* has nothing against a line or an id: the page's rules and the validator's   *)
(* are two copies (edges.ts "Mirrors packages/schema validate.ts"). Only a     *)
(* list may be at fault, by a removal or by hand.                              *)
LinesStayLegal == \A m \in Diagnostics(doc) : m.code \in {"exposes-non-service", "calls-non-service"}

(* nextEdgeId's id "does not collide" (edges.ts): of all the document's lines.  *)
(* The page asks only the lines of the level it draws.                         *)
EdgeIdsStayUnique == Duplicates(doc.edges) = {}

(* A boundary serves what its list names, and the lines are what the author    *)
(* sees: unless a list was typed, every line from a boundary to a service has  *)
(* its entry, and every entry that is a service has its line or the name of a  *)
(* node that was removed.                                                      *)
ListFollowsLines ==
  ~typed =>
    \A n \in Range(doc.nodes) : n.type = "boundary" =>
      LET drawn == Exposing(doc, Range(doc.edges), n.id)
      IN  drawn \subseteq n.names /\ n.names \subseteq (drawn \union gone)

(* An override names a service the boundary exposes.                           *)
OverridesFollow == ~typed => \A n \in Range(doc.nodes) : n.overrides \subseteq n.names

(* Without the names left behind: a service that is added under the id of a    *)
(* removed one is exposed before any line is drawn to it.                      *)
ExposedByDrawing ==
  ~typed =>
    \A n \in Range(doc.nodes) : n.type = "boundary" =>
      n.names \cap Services(doc) \subseteq Exposing(doc, Range(doc.edges), n.id)

OpsAreSound == RenameIsComplete(doc) /\ AddedAndRemoved(doc)
RemovalLeavesNoEdge == GoneFromEdges(doc)

(* What a gesture leaves on the canvas the validator and the boundaries'       *)
(* lists agree with, whatever was drawn, listed, renamed and removed before.   *)
GesturesHold ==
  /\ TypeOK /\ LinesStayLegal /\ ListFollowsLines /\ OverridesFollow
  /\ OpsAreSound /\ RemovalLeavesNoEdge
=============================================================================
