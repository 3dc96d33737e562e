----------------------------- MODULE Documents -----------------------------
(***************************************************************************)
(* What a lift writes: the composition drawn from what the code shows, the *)
(* registry that says which files each node stands for, and the Update     *)
(* that merges a later reading into a canvas the author has worked on      *)
(* since (lift/to-documents.ts, documents-merge.ts, documents-registry.ts, *)
(* documents-model.ts).  A graph is merged by the same code and left out.  *)
(*                                                                         *)
(* A find is what one place of the code is lifted into; where it is       *)
(* anchored, the registry can find it again by its files.  A node is       *)
(* [id, type, names, impl]: names is its exposes or calls, impl the thing  *)
(* its entrypoint is in.  An id is <<name, type, n>>, <<name, "", 0>>      *)
(* until a clash gives it the type for a suffix.  The canvas changes by    *)
(* the operations of ManifestOps alone.                                    *)
(***************************************************************************)
EXTENDS Naturals, Sequences, FiniteSets, SequencesExt

CONSTANTS
    Finds,         \* what the code may show
    TypeOf,         \* Finds -> the type of node it is lifted into
    Anchored,       \* the things a file tells apart from every other
    NameOrder,      \* names, in the order they are sorted
    Named,          \* Finds -> the name the code gives it at first
    Needs,          \* the pairs of things the second of which the first may use
    NoThing,        \* the entrypoint of a node that has none of its own
    Refusal,        \* the result of operations that cannot be applied
    MaxCanvas,      \* bound: nodes of the canvas
    MaxEdits,       \* bound: what the author does
    MaxChanges      \* bound: changes of the code

VARIABLES
    shows,          \* the things the code shows -> the name it is read under
    needs,          \* the dependencies the code shows
    canvas,         \* the composition: nodes, edges, layout
    registry,       \* [units: ids -> [files, gone], removed: ids]
    edits, changes, \* how much was done
    merged          \* history: nothing was done since the last Update

documentsVars == <<shows, needs, canvas, registry, edits, changes, merged>>

Op == INSTANCE ManifestOps WITH
        Ids <- {}, EdgeIds <- {}, Refused <- Refusal, MaxNodes <- 0, MaxEdges <- 0,
        Types <- {}, Kinds <- {}, Starts <- {}, doc <- canvas

AllNames == ToSet(NameOrder)
Columns == <<"boundary", "process", "service">>
Plain(name) == <<name, "", 0>>
Exposing == {"boundary", "process"}     \* the types with a list the lift adds to
Kind(type) == IF type = "boundary" THEN "routes-to" ELSE "depends-on"

ASSUME DocumentsAssumption ==
    /\ IsFiniteSet(Finds) /\ TypeOf \in [Finds -> ToSet(Columns)]
    /\ Anchored \subseteq Finds /\ Named \in [Finds -> AllNames]
    /\ \A t, u \in Finds : t # u => Named[t] # Named[u]
    /\ Needs \subseteq {p \in Finds \X Finds : p[1] # p[2] /\ TypeOf[p[2]] = "service"}
    /\ {MaxCanvas, MaxEdits, MaxChanges} \subseteq Nat
    /\ NoThing \notin Finds

-----------------------------------------------------------------------------
(* Reading the documents.                                                   *)

IdsIn(d) == Op!IdsOf(d.nodes)
Ends(d) == {<<e.from, e.to>> : e \in ToSet(d.edges)}

(* The units a lift wrote, with the files they were lifted from: none for   *)
(* one that was not found the last time.                                    *)
Previous(r) ==
    [u \in {v \in DOMAIN r.units : r.units[v].files # {} \/ r.units[v].gone} |-> r.units[u].files]

LiftId(code, t) == Plain(code[t])

(* In the order of the model: by type, then by id.                          *)
Wanted(code) ==
    LET place(s, x) == CHOOSE i \in DOMAIN s : s[i] = x
        rank(t)     == Len(NameOrder) * place(Columns, TypeOf[t]) + place(NameOrder, code[t])
    IN  SetToSortSeq(DOMAIN code, LAMBDA t, u : rank(t) < rank(u))

-----------------------------------------------------------------------------
(* Matching what the lift found to the nodes there are.  A match is the ids *)
(* the things have, and the units that show which of them were removed.     *)

Nobody == [id |-> <<>>, removed |-> <<>>]
Has(match, t) == t \in DOMAIN match.id
Claimed(match) == Range(match.id)
Claim(match, t, id) == [match EXCEPT !.id = (t :> id) @@ @]

(* The things in turn, each after what came of those before it.             *)
InTurn(order, match, Step(_, _)) ==
    LET after[n \in 0 .. Len(order)] ==
            IF n = 0 THEN match
            ELSE LET before == after[n - 1]
                 IN  IF Has(before, order[n]) THEN before ELSE Step(before, order[n])
    IN  after[Len(order)]

(* The nodes nothing has claimed that the thing could be, in their order.   *)
Open(d, match, t) ==
    SelectSeq(d.nodes, LAMBDA n : n.id \notin Claimed(match) /\ n.type = TypeOf[t])

(* The first of them that fits.                                             *)
ByFirst(d, order, match, Fits(_, _)) ==
    InTurn(order, match, LAMBDA m, t :
        LET fitting == SelectSeq(Open(d, m, t), LAMBDA n : Fits(n, t))
        IN  IF fitting = <<>> THEN m ELSE Claim(m, t, fitting[1].id))

(* The units whose node is gone that the thing was lifted into: its own, or *)
(* one that lists its files.                                                *)
Vanished(d, prev, lift, t) ==
    {u \in DOMAIN prev \ IdsIn(d) : u = lift \/ t \in Anchored \cap prev[u]}

(* Any node nothing explains, the first of several: a plausible bug.        *)
ByRenameOfAny(d, order, match, code, prev, removed) ==
    InTurn(order, match, LAMBDA m, t :
        LET lift  == LiftId(code, t)
            signs == Vanished(d, prev, lift, t)
            open  == SelectSeq(Open(d, m, t), LAMBDA n : n.id \notin DOMAIN prev)
        IN  IF open # <<>> THEN Claim(m, t, open[1].id)
            ELSE IF lift \in removed THEN [m EXCEPT !.removed = (t :> {lift}) @@ @]
            ELSE IF signs = {} THEN m
            ELSE [m EXCEPT !.removed = (t :> signs) @@ @])

(* A node that is the only one nothing explains took the place of one that  *)
(* vanished; with none, or with several, the author removed it, as did one  *)
(* an earlier Update found removed.                                         *)
ByRename(d, order, match, code, prev, removed) ==
    InTurn(order, match, LAMBDA m, t :
        LET lift  == LiftId(code, t)
            signs == Vanished(d, prev, lift, t)
            open  == SelectSeq(Open(d, m, t), LAMBDA n : n.id \notin DOMAIN prev)
        IN  IF lift \in removed THEN [m EXCEPT !.removed = (t :> {lift}) @@ @]
            ELSE IF signs = {} THEN m
            ELSE IF Len(open) = 1 THEN Claim(m, t, open[1].id)
            ELSE [m EXCEPT !.removed = (t :> signs) @@ @])

(* The name, or the name with the type and the first number nothing has.    *)
Allocated(used, id, type) ==
    IF id \notin used THEN id
    ELSE LET free(n) == <<id[1], type, n>>
         IN  free(CHOOSE n \in 1 .. Cardinality(used) + 1 :
                    free(n) \notin used /\ \A k \in 1 .. n - 1 : free(k) \in used)

FiledUnder(prev, code, u, t) == u \in DOMAIN prev /\ t \in Anchored \cap prev[u]

(* Strongest evidence first: the same id, the registry, the code the node   *)
(* itself names, a rename; then an id of its own.                           *)
Match(d, code, prev, removed) ==
    LET order  == Wanted(code)
        byId   == ByFirst(d, order, Nobody, LAMBDA n, t : n.id = LiftId(code, t))
        byUnit == ByFirst(d, order, byId, LAMBDA n, t : FiledUnder(prev, code, n.id, t))
        byCode == ByFirst(d, order, byUnit, LAMBDA n, t : TypeOf[t] = "service" /\ n.impl = t)
        renamed == ByRename(d, order, byCode, code, prev, removed)
    IN  InTurn(order, renamed, LAMBDA m, t :
            Claim(m, t, Allocated(IdsIn(d) \cup Claimed(m), LiftId(code, t), TypeOf[t])))

-----------------------------------------------------------------------------
(* The plan: operations on the canvas.                                      *)

Written(match) == DOMAIN match.id \ DOMAIN match.removed

(* What a boundary exposes and a schedule calls, a service depends on.      *)
Served(match, uses, t) == {u \in Written(match) : <<t, u>> \in uses}

(* What the lift says of a thing, under the ids the documents have, the     *)
(* things that were removed left out.                                       *)
Desired(match, uses, t) ==
    [id        |-> match.id[t],
     type      |-> TypeOf[t],
     names     |-> IF TypeOf[t] \in Exposing THEN {match.id[u] : u \in Served(match, uses, t)} ELSE {},
     overrides |-> {},
     impl      |-> IF TypeOf[t] = "boundary" THEN NoThing ELSE t]

(* What the lift owns is set; to a list the author may add to it adds.      *)
Patch(have, want) ==
    (IF have.impl # want.impl /\ want.impl # NoThing THEN "impl" :> want.impl ELSE <<>>)
    @@ (IF want.names \subseteq have.names THEN <<>> ELSE "names" :> (have.names \cup want.names))

NodeOps(d, match, uses, t) ==
    LET want == Desired(match, uses, t)
        at   == Op!IndexOf(d.nodes, want.id)
    IN  IF at = 0
        THEN <<[op |-> "addNode", node |-> want], [op |-> "setLayout", id |-> want.id]>>
        ELSE LET patch == Patch(d.nodes[at], want)
             IN  IF DOMAIN patch = {} THEN <<>>
                 ELSE <<[op |-> "updateNode", id |-> want.id, patch |-> patch]>>

(* The ends and the kind of each line there is none for.                    *)
NewBetween(d, lines) == {l \in lines : <<l[1], l[2]>> \notin Ends(d)}
Drawing(match, uses) == uses \cap (Written(match) \X Written(match))

NewEnds(d, match, code, uses) ==
    NewBetween(d, {<<match.id[p[1]], match.id[p[2]], Kind(TypeOf[p[1]])>> : p \in Drawing(match, uses)})

FreeEdgeId(used) == CHOOSE n \in 1 .. Cardinality(used) + 1 : n \notin used

(* The ids of the edges stand for their texts: each one free when it is     *)
(* taken.                                                                   *)
EdgeOps(d, match, code, uses) ==
    LET ends == SetToSeq(NewEnds(d, match, code, uses))
        ids[n \in 0 .. Len(ends)] ==
            IF n = 0 THEN <<>>
            ELSE LET before == ids[n - 1]
                 IN  Append(before, FreeEdgeId(Op!IdsOf(d.edges) \cup ToSet(before)))
        own == ids[Len(ends)]
    IN  [n \in DOMAIN ends |->
            [op |-> "addEdge",
             edge |-> [id |-> own[n], kind |-> ends[n][3], from |-> ends[n][1], to |-> ends[n][2]]]]

Plan(d, match, code, uses) ==
    LET order == SelectSeq(Wanted(code), LAMBDA t : t \in Written(match))
    IN  FlattenSeq([n \in DOMAIN order |-> NodeOps(d, match, uses, order[n])]) \o EdgeOps(d, match, code, uses)

-----------------------------------------------------------------------------
(* The registry, rebuilt from the documents as they will stand.             *)

(* Removals that were found this time alone: a plausible bug.               *)
RemovedNow(r, match) == UNION Range(match.removed)
Removed(r, match) == r.removed \cup UNION Range(match.removed)

Registry(d, after, r, match) ==
    LET prev     == Previous(r)
        removed  == Removed(r, match)
        filed(t) == Has(match, t) /\ match.id[t] \notin removed
        stale    == {u \in IdsIn(d) \cap DOMAIN prev : \A t \in Written(match) : match.id[t] # u}
    IN  [units   |-> [u \in IdsIn(after) |->
                        [files |-> {t \in Finds : filed(t) /\ match.id[t] = u}, gone |-> u \in stale]],
         removed |-> removed \ IdsIn(after)]

MatchNow(d, r, code) == Match(d, code, Previous(r), r.removed)

(* The documents of a lift: the canvas and the registry.                    *)
SkeletonToDocuments(d, r, code, uses) ==
    LET match == MatchNow(d, r, code)
        after == Op!ApplyOps(d, Plan(d, match, code, uses))
    IN  [canvas |-> after, registry |-> Registry(d, after, r, match)]

Lifted(docs) == SkeletonToDocuments(docs.canvas, docs.registry, shows, needs)
Documents == [canvas |-> canvas, registry |-> registry]

-----------------------------------------------------------------------------
EmptyCanvas == [nodes |-> <<>>, edges |-> <<>>, layout |-> {}]
EmptyRegistry == [units |-> <<>>, removed |-> {}]

Among(things) == {p \in Needs : {p[1], p[2]} \subseteq things}

DocumentsInit ==
    /\ \E first \in SUBSET Finds : shows = [t \in first |-> Named[t]]
    /\ needs = Among(DOMAIN shows)
    /\ canvas = EmptyCanvas /\ registry = EmptyRegistry
    /\ edits = 0 /\ changes = 0 /\ merged = FALSE

Update ==
    /\ LET docs == Lifted(Documents)
       IN  /\ Len(docs.canvas.nodes) <= MaxCanvas
           /\ canvas' = docs.canvas /\ registry' = docs.registry
    /\ merged' = TRUE
    /\ UNCHANGED <<shows, needs, edits, changes>>

(* The author, on the canvas.                                               *)
Edit(ops) ==
    /\ edits < MaxEdits
    /\ LET after == Op!ApplyOps(canvas, ops)
       IN  after # Refusal /\ canvas' = after
    /\ edits' = edits + 1 /\ merged' = FALSE
    /\ UNCHANGED <<shows, needs, registry, changes>>

Rename(id, name) == Edit(<<[op |-> "renameNode", from |-> id, to |-> Plain(name), references |-> TRUE]>>)
TakeOff(id) == Edit(<<[op |-> "removeNode", id |-> id, cascade |-> TRUE]>>)
PutOn(name, type, impl) ==
    /\ Plain(name) \notin IdsIn(canvas)
    /\ Len(canvas.nodes) < MaxCanvas
    /\ Edit(<<[op |-> "addNode", node |-> [id |-> Plain(name), type |-> type, names |-> {}, overrides |-> {},
                                           impl |-> impl]],
              [op |-> "setLayout", id |-> Plain(name)]>>)

(* Drawing to a service, or erasing the line, takes the list along.         *)
Listing(from, names) ==
    IF from.type \in Exposing /\ names # from.names
    THEN <<[op |-> "updateNode", id |-> from.id, patch |-> [names |-> names]]>> ELSE <<>>
Draw(from, to) ==
    /\ from # to /\ to.type = "service" /\ <<from.id, to.id>> \notin Ends(canvas)
    /\ Edit(<<[op |-> "addEdge", edge |-> [id |-> FreeEdgeId(Op!IdsOf(canvas.edges)), kind |-> Kind(from.type),
                                           from |-> from.id, to |-> to.id]]>>
            \o Listing(from, from.names \cup {to.id}))
Erase(edge) ==
    LET from == canvas.nodes[Op!IndexOf(canvas.nodes, edge.from)]
    IN  /\ edge.from \in IdsIn(canvas)
        /\ Edit(<<[op |-> "removeEdge", id |-> edge.id]>> \o Listing(from, from.names \ {edge.to}))

Author ==
    \/ \E id \in IdsIn(canvas), name \in AllNames : Rename(id, name)
    \/ \E id \in IdsIn(canvas) : TakeOff(id)
    \/ \E name \in AllNames, t \in Finds :
          PutOn(name, TypeOf[t], IF TypeOf[t] = "boundary" THEN NoThing ELSE t)
    \/ \E from, to \in ToSet(canvas.nodes) : Draw(from, to)
    \/ \E edge \in ToSet(canvas.edges) : Erase(edge)

(* The code, and the name it is read under.                                 *)
Changed ==
    /\ changes < MaxChanges /\ changes' = changes + 1 /\ merged' = FALSE
    /\ UNCHANGED <<canvas, registry, edits>>

Unused == AllNames \ Range(shows)
Goes(t) ==
    /\ t \in DOMAIN shows
    /\ shows' = [u \in DOMAIN shows \ {t} |-> shows[u]]
    /\ needs' = needs \cap Among(DOMAIN shows')
    /\ Changed
Comes(t, name) ==
    /\ t \notin DOMAIN shows
    /\ shows' = (t :> name) @@ shows
    /\ needs' = needs \cup {p \in Among(DOMAIN shows') : t \in {p[1], p[2]}}
    /\ Changed
ReadAs(t, name) ==
    /\ t \in DOMAIN shows
    /\ shows' = [shows EXCEPT ![t] = name] /\ needs' = needs
    /\ Changed
DependsOtherwise(p) ==
    /\ {p[1], p[2]} \subseteq DOMAIN shows
    /\ needs' = IF p \in needs THEN needs \ {p} ELSE needs \cup {p}
    /\ shows' = shows
    /\ Changed

Code ==
    \/ \E t \in Finds : Goes(t)
    \/ \E t \in Finds, name \in Unused : Comes(t, name) \/ ReadAs(t, name)
    \/ \E p \in Needs : DependsOtherwise(p)

DocumentsNext == Update \/ Author \/ Code
DocumentsSpec == DocumentsInit /\ [][DocumentsNext]_documentsVars

-----------------------------------------------------------------------------
(* What an Update promises.                                                 *)

FilesOf(r, u) == IF u \in DOMAIN r.units THEN r.units[u].files ELSE {}

(* A second thing never lands on a node, and no id is given out twice: the  *)
(* documents of a lift have one node for each thing the code shows that is  *)
(* in the registry, of its type and with its code, and the lines between    *)
(* them (matchNodes, planMerge, skeletonToDocuments).                       *)
EveryPartDrawnOnce ==
    /\ Cardinality(IdsIn(canvas)) = Len(canvas.nodes)
    /\ \A e \in ToSet(canvas.edges) : {e.from, e.to} \subseteq IdsIn(canvas)
    /\ merged =>
         LET at(t) == {n \in ToSet(canvas.nodes) : t \in FilesOf(registry, n.id)}
         IN  /\ \A n \in ToSet(canvas.nodes) : Cardinality(FilesOf(registry, n.id)) <= 1
             /\ \A t \in DOMAIN shows : Cardinality(at(t)) <= 1
             /\ \A t \in DOMAIN shows : \A n \in at(t) :
                  n.type = TypeOf[t] /\ n.impl \in {t, NoThing}
             /\ \A p \in needs : \A m \in at(p[1]), n \in at(p[2]) :
                  /\ <<m.id, n.id>> \in Ends(canvas)
                  /\ m.type \in Exposing => n.id \in m.names

(* "Nothing is removed": every node and edge stands where it stood, under   *)
(* the id it had and with every entry of its list (planMerge).              *)
NothingIsTakenAway ==
    [][merged' /\ ~ (edits' # edits \/ changes' # changes) =>
         /\ \A i \in DOMAIN canvas.nodes :
              /\ i \in DOMAIN canvas'.nodes
              /\ canvas'.nodes[i].id = canvas.nodes[i].id
              /\ canvas'.nodes[i].type = canvas.nodes[i].type
              /\ canvas.nodes[i].names \subseteq canvas'.nodes[i].names
         /\ IsPrefix(canvas.edges, canvas'.edges)
         /\ canvas.layout \subseteq canvas'.layout]_documentsVars

(* A node the registry says a thing was lifted into is that thing's after   *)
(* the next Update too, whatever the code or the model calls it now, unless *)
(* another thing has that very id (matchNodes: "The author's ids win").  A  *)
(* thing without an anchor is known by its id alone.                        *)
BoundStaysBound ==
    [][merged' /\ edits' = edits /\ changes' = changes =>
         \A n \in ToSet(canvas.nodes) : \A t \in FilesOf(registry, n.id) \cap DOMAIN shows \cap Anchored :
           (/\ n.type = TypeOf[t]
            /\ \A m \in ToSet(canvas.nodes) : m.type = n.type => m.id # LiftId(shows, t) \/ m = n
            /\ \A u \in DOMAIN shows \ {t} : LiftId(shows, u) # n.id)
           => t \in FilesOf(registry', n.id)]_documentsVars

(* A name of the code that the registry remembers as removed no Update      *)
(* draws, until the author puts a node of that id back, nor does it forget  *)
(* while the code does not show it (lifted_from.removed).                   *)
RemovalIsRemembered ==
    [][merged' /\ edits' = edits /\ changes' = changes =>
         \A u \in (registry.removed \cap {Plain(name) : name \in AllNames}) \ IdsIn(canvas) :
           u \notin IdsIn(canvas') /\ u \in registry'.removed]_documentsVars

(* A node a lift drew is, after every Update, a thing of the code or marked *)
(* not found: never taken for the author's own (readPreviousRegistry, "still *)
(* the lift's").                                                            *)
LiftedStaysLifted ==
    [][merged' /\ edits' = edits /\ changes' = changes =>
         \A u \in IdsIn(canvas) \cap DOMAIN registry.units :
           FilesOf(registry, u) # {} \/ registry.units[u].gone =>
             FilesOf(registry', u) # {} \/ registry'.units[u].gone]_documentsVars

(* Once everything the code shows is in the registry, another Update over   *)
(* the same code changes nothing; and two Updates get there (the house rule *)
(* is that one does: canvas, "re-running a lift over its own output is a    *)
(* no-op").                                                                 *)
ByItsId(docs, t) ==
    t \in Anchored \/ \A u \in DOMAIN docs.registry.units :
                          t \in docs.registry.units[u].files => u = LiftId(shows, t)
InTheRegistry(docs) ==
    LET match == MatchNow(docs.canvas, docs.registry, shows)
    IN  \A t \in DOMAIN shows :
          IF t \in DOMAIN match.removed THEN LiftId(shows, t) \in docs.registry.removed
          ELSE t \in FilesOf(docs.registry, match.id[t]) /\ ByItsId(docs, t)
UpdatesSettle ==
    merged =>
      /\ InTheRegistry(Documents) => Lifted(Documents) = Documents
      /\ DOMAIN shows \subseteq Anchored =>
           LET again == Lifted(Lifted(Documents)) IN Lifted(again) = again

(* What the code does not keep.  "Re-running a lift over its own output is  *)
(* a no-op", and a deletion is one "the next Update does not forget": an    *)
(* Update right after an Update draws nothing (documents-merge.ts).         *)
RerunDrawsNothing ==
    [][merged /\ merged' => canvas' = canvas]_documentsVars

(* An Update settles: each part is drawn once, and another Update of the     *)
(* same code draws nothing more.                                             *)
DocumentsSettle == EveryPartDrawnOnce /\ UpdatesSettle

(* What the author did to the documents stays done, through any Updates      *)
(* (planMerge, matchNodes, lifted_from).                                     *)
AuthorsWorkStays ==
    NothingIsTakenAway /\ BoundStaysBound /\ RemovalIsRemembered /\ LiftedStaysLifted
=============================================================================
