----------------------------- MODULE ManifestText ----------------------------
(* The operations of the op layer carried out on the text of a manifest        *)
(* (src/apps/api/src/manifest/document.ts, apply.ts): nothing is generated     *)
(* again, an operation is a set of splices computed from one parse and applied *)
(* back to front. ManifestOps says what they come to as a document.            *)
(*                                                                             *)
(* A text is a sequence of tokens [t, v]. t is "nodes:", "edges:", "layout:",  *)
(* a bracket, ",", "-", "nl" (a line break with its indent), "sp", "#" (a      *)
(* comment at the end of its line), or an item: "row" for one written inline,  *)
(* { id: a, .. }, and "map" for one written as lines of its own. v is what an  *)
(* item says. An offset is the place of the token it comes before.             *)
EXTENDS Sequences, FiniteSets, Naturals, SequencesExt

CONSTANTS Ids, EdgeIds, Refused, MaxNodes, MaxEdges, Types, Kinds,
  Nothing,      \* what a token that is no item says
  Texts         \* the texts editing starts from

VARIABLE text

Sections == {"nodes:", "edges:", "layout:"}
Tok(t) == [t |-> t, v |-> Nothing]
IsItem(token) == token.t \in {"row", "map"}
IsSpace(token) == token.t \in {"nl", "sp"}
Opening == {"[", "{"}

-----------------------------------------------------------------------------
(* Where things are. The parser is a library: ranges are what it reports.      *)

KeyAt(s, key) == CHOOSE i \in DOMAIN s : s[i].t = key

ValueOf(s, key) ==
  LET k    == KeyAt(s, key)
      next == {i \in (k + 1)..Len(s) : s[i].t \in Sections}
  IN  (k + 1)..(IF next = {} THEN Len(s) ELSE Min(next) - 1)

InOrder(places, n) == SelectSeq([i \in 1..n |-> i], LAMBDA i : i \in places)
ItemsOf(s, key) == InOrder({i \in ValueOf(s, key) : IsItem(s[i])}, Len(s))

IsFlow(s, key) == \E i \in ValueOf(s, key) : s[i].t \in Opening

(* The range of an item written in lines runs on into the space after it.      *)
EndOf(s, i) ==
  IF s[i].t = "row" THEN i + 1
  ELSE CHOOSE e \in (i + 1)..(Len(s) + 1) :
         /\ \A j \in (i + 1)..(e - 1) : IsSpace(s[j])
         /\ e = Len(s) + 1 \/ ~IsSpace(s[e])

TrimEnd(s, end) ==
  CHOOSE e \in 1..end : (e = 1 \/ ~IsSpace(s[e - 1])) /\ \A j \in e..(end - 1) : IsSpace(s[j])

(* Before the spaces that end at an offset.                                    *)
BeforeSpaces(s, at) ==
  CHOOSE b \in 1..at : (b = 1 \/ s[b - 1].t # "sp") /\ \A j \in b..(at - 1) : s[j].t = "sp"

Says(s, items) == [k \in DOMAIN items |-> s[items[k]].v]

(* What the text says, as a document.                                          *)
Reading(s) ==
  [nodes  |-> Says(s, ItemsOf(s, "nodes:")),
   edges  |-> Says(s, ItemsOf(s, "edges:")),
   layout |-> {s[i].v.id : i \in Range(ItemsOf(s, "layout:"))}]

D == INSTANCE ManifestOps WITH doc <- Reading(text), Starts <- {Reading(s) : s \in Texts}

-----------------------------------------------------------------------------
(* Splices: the tokens from start up to end replaced by others.                *)

Splice(start, end, tokens) == [start |-> start, end |-> end, tokens |-> tokens]

Spliced(s, splice) ==
  SubSeq(s, 1, splice.start - 1) \o splice.tokens \o SubSeq(s, splice.end, Len(s))

(* Sorted by where they start, and applied back to front, so that no splice    *)
(* moves what an earlier one means.                                            *)
InSequence(s, splices) ==
  LET starts == InOrder({p.start : p \in splices}, Len(s))
  IN  [k \in DOMAIN starts |-> CHOOSE p \in splices : p.start = starts[k]]

OneByOne(s, ordered) ==
  LET after[n \in 0..Len(ordered)] ==
        IF n = 0 THEN s ELSE LET before == after[n - 1] IN Spliced(before, ordered[n])
  IN  after[Len(ordered)]

ApplySplices(s, splices) == OneByOne(s, Reverse(InSequence(s, splices)))

-----------------------------------------------------------------------------
(* Adding to a list, in the style of what is there. An empty list is replaced  *)
(* by its first item; wide says that the item does not fit on one line.        *)

AppendTo(s, key, v, wide) ==
  LET items == ItemsOf(s, key)
      open  == CHOOSE i \in ValueOf(s, key) : s[i].t = "["
      at    == TrimEnd(s, EndOf(s, Last(items)))
      row   == s[Head(items)].t = "row" /\ ~wide
      item(inline) == [t |-> IF inline THEN "row" ELSE "map", v |-> v]
  IN CASE items = <<>>   -> Splice(BeforeSpaces(s, open), open + 2, <<Tok("nl"), Tok("-"), item(FALSE)>>)
       [] items # <<>> /\ IsFlow(s, key) -> Splice(at, at, <<Tok(","), item(TRUE)>>)
       [] OTHER          -> Splice(at, at, <<Tok("nl"), Tok("-"), item(row)>>)

-----------------------------------------------------------------------------
(* Removing from a list. Neighbours in a flow list share a comma, so a run of  *)
(* them goes in one span: with the comma after it, or, at the end of the list, *)
(* the comma before it.                                                        *)

RunsOf(gone) == {r \in {<<i, j>> : i \in gone, j \in gone} :
                   /\ r[1] <= r[2]
                   /\ r[1]..r[2] \subseteq gone
                   /\ r[1] - 1 \notin gone
                   /\ r[2] + 1 \notin gone}

(* An item in lines owns its line: back over the dash to the line break.       *)
LineStart(s, i) ==
  CASE s[i - 1].t = "nl"                          -> i - 1
    [] s[i - 1].t = "-" /\ s[i - 2].t = "nl"      -> i - 2
    [] OTHER                                      -> i

(* Each run in one span.                                                       *)
FlowSpans(s, items, gone) ==
  {IF run[2] < Len(items) THEN Splice(items[run[1]], items[run[2] + 1], <<>>)
   ELSE Splice(IF run[1] > 1 THEN TrimEnd(s, EndOf(s, items[run[1] - 1])) ELSE items[run[1]],
               EndOf(s, items[run[2]]), <<>>) : run \in RunsOf(gone)}

LineSpans(s, items, gone) == {Splice(LineStart(s, items[i]), TrimEnd(s, EndOf(s, items[i])), <<>>) : i \in gone}

(* The list without those items; a list in lines that loses all of them is     *)
(* written back as brackets, or its key would have no value.                   *)
RemoveItems(s, key, gone, brackets) ==
  LET items == ItemsOf(s, key)
      all   == gone = DOMAIN items
  IN CASE all /\ IsFlow(s, key)  -> {Splice(Head(items), EndOf(s, Last(items)), <<>>)}
       [] all /\ ~IsFlow(s, key) -> {Splice(KeyAt(s, key) + 1, TrimEnd(s, EndOf(s, Last(items))),
                                            <<Tok("sp")>> \o brackets)}
       [] ~all /\ IsFlow(s, key) -> FlowSpans(s, items, gone)
       [] OTHER                  -> LineSpans(s, items, gone)

Lists == <<Tok("["), Tok("]")>>
Maps  == <<Tok("{"), Tok("}")>>

RemoveSequenceItems(s, key, ids) == RemoveItems(s, key, D!Doomed(Says(s, ItemsOf(s, key)), ids), Lists)

(* The position left behind: a plausible bug.                                  *)
KeepLayoutEntry(s, id) == {}

RemoveLayoutEntry(s, id) ==
  LET items == ItemsOf(s, "layout:")
      gone  == {i \in DOMAIN items : s[items[i]].v.id = id}
  IN  IF gone = {} THEN {} ELSE RemoveItems(s, "layout:", gone, Maps)

-----------------------------------------------------------------------------
(* The operations.                                                             *)

RemoveNode(s, op) ==
  LET d        == Reading(s)
      touching == D!Touching(d, op.id)
  IN  IF op.id \notin D!IdsOf(d.nodes) \/ (~op.cascade /\ touching # {}) THEN Refused
      ELSE ApplySplices(s,
             RemoveSequenceItems(s, "nodes:", {op.id})
               \union (IF touching = {} THEN {} ELSE RemoveSequenceItems(s, "edges:", touching))
               \union RemoveLayoutEntry(s, op.id))

RemoveEdge(s, op) ==
  IF op.id \notin D!IdsOf(Reading(s).edges) THEN Refused
  ELSE ApplySplices(s, RemoveSequenceItems(s, "edges:", {op.id}))

(* A splice for every item that reads differently afterwards.                  *)
Rewrite(s, key, items) ==
  LET at == ItemsOf(s, key)
  IN  {Splice(at[k], at[k] + 1, <<[s[at[k]] EXCEPT !.v = items[k]]>>) :
         k \in {j \in DOMAIN at : s[at[j]].v # items[j]}}

UpdateItem(s, key, id, patch, refused) ==
  LET items == Says(s, ItemsOf(s, key))
  IN  IF refused \cap DOMAIN patch # {} \/ DOMAIN patch = {} \/ id \notin D!IdsOf(items) THEN Refused
      ELSE ApplySplices(s, Rewrite(s, key, D!UpdateIn(items, id, patch)))

(* One set of splices from one parse: the node's own id, the lists, the ends   *)
(* and the key of its position.                                                *)
RenameNode(s, op) ==
  LET d     == Reading(s)
      at    == D!IndexOf(d.nodes, op.from)
      swap(id) == D!Swap(id, op.from, op.to)
      named(n) == [n EXCEPT !.names = D!SwapIn(@, op.from, op.to), !.overrides = D!SwapIn(@, op.from, op.to)]
      own(nodes) == [nodes EXCEPT ![at].id = op.to]
      lines == [i \in DOMAIN d.edges |-> [d.edges[i] EXCEPT !.from = swap(@), !.to = swap(@)]]
      spots == [k \in DOMAIN ItemsOf(s, "layout:") |-> [id |-> swap(Says(s, ItemsOf(s, "layout:"))[k].id)]]
  IN CASE op.from \notin D!IdsOf(d.nodes) \/ op.to \in D!IdsOf(d.nodes) -> Refused
       [] op.from \in D!IdsOf(d.nodes) /\ op.to \notin D!IdsOf(d.nodes) /\ ~op.references ->
            ApplySplices(s, Rewrite(s, "nodes:", own(d.nodes)))
       [] OTHER ->
            ApplySplices(s, Rewrite(s, "nodes:", own([i \in DOMAIN d.nodes |-> named(d.nodes[i])]))
                              \union Rewrite(s, "edges:", lines)
                              \union Rewrite(s, "layout:", spots))

(* A position is written over, is the first and replaces {}, or goes on a line *)
(* of its own after the last.                                                  *)
SetLayout(s, op) ==
  LET items == ItemsOf(s, "layout:")
      value == ValueOf(s, "layout:")
      open  == CHOOSE i \in value : s[i].t = "{"
      end   == CHOOSE i \in value : \A j \in value : j <= i
      close == IF IsFlow(s, "layout:") THEN CHOOSE i \in value : s[i].t = "}" ELSE end
      entry == <<Tok("nl"), [t |-> "map", v |-> [id |-> op.id]]>>
  IN CASE op.id \in Reading(s).layout -> s
       [] op.id \notin Reading(s).layout /\ IsFlow(s, "layout:") /\ s[open + 1].t = "}" ->
            ApplySplices(s, {Splice(BeforeSpaces(s, open), open + 2, entry)})
       [] OTHER ->
            LET at == TrimEnd(s, close + 1) IN ApplySplices(s, {Splice(at, at, entry)})

ApplyOne(s, op, wide) ==
  CASE op.op = "addNode"    -> ApplySplices(s, {AppendTo(s, "nodes:", op.node, wide)})
    [] op.op = "addEdge"    -> ApplySplices(s, {AppendTo(s, "edges:", op.edge, wide)})
    [] op.op = "setLayout"  -> SetLayout(s, op)
    [] op.op = "removeEdge" -> RemoveEdge(s, op)
    [] op.op = "removeNode" -> RemoveNode(s, op)
    [] op.op = "updateNode" -> UpdateItem(s, "nodes:", op.id, op.patch, {"id", "type"})
    [] op.op = "updateEdge" -> UpdateItem(s, "edges:", op.id, op.patch, {"id"})
    [] op.op = "renameNode" -> RenameNode(s, op)

(* The text is read again before each operation.                               *)
ApplyOps(s, ops, wide) ==
  LET after[n \in 0..Len(ops)] ==
        IF n = 0 THEN s
        ELSE LET before == after[n - 1]
             IN  IF before = Refused THEN Refused ELSE ApplyOne(before, ops[n], wide)
  IN  after[Len(ops)]

-----------------------------------------------------------------------------
Init == text \in Texts

Post(ops, wide) ==
  LET after == ApplyOps(text, ops, wide) IN text' = IF after = Refused THEN text ELSE after

Adds(ops) == Head(ops).op \in {"addNode", "addEdge"}

Next == \E ops \in D!OpsOf(Reading(text)) :
          \E wide \in IF Adds(ops) THEN BOOLEAN ELSE {FALSE} : Post(ops, wide)

Spec == Init /\ [][Next]_text

-----------------------------------------------------------------------------
(* What the splices must keep.                                                 *)

(* A text a parser reads: each key has its value, inline with a comma between  *)
(* neighbours or in lines of one item each, and no item is left outside.       *)
Written(s, key) ==
  LET bare  == SelectSeq([k \in 1..Cardinality(ValueOf(s, key)) |-> s[KeyAt(s, key) + k]],
                         LAMBDA token : token.t \notin {"sp", "#"})
      items == SelectSeq(bare, IsItem)
      inline == <<Tok(IF key = "layout:" THEN "{" ELSE "[")>>
                  \o (IF items = <<>> THEN <<>>
                      ELSE <<items[1]>> \o FlattenSeq([k \in 1..(Len(items) - 1) |-> <<Tok(","), items[k + 1]>>]))
                  \o <<Tok(IF key = "layout:" THEN "}" ELSE "]")>>
      lines == FlattenSeq([k \in DOMAIN items |->
                             <<Tok("nl")>> \o (IF key = "layout:" THEN <<>> ELSE <<Tok("-")>>) \o <<items[k]>>])
      broken == SelectSeq(bare, LAMBDA token : token.t # "nl")
      Ends(body) == Len(bare) > Len(body) /\ SubSeq(bare, 1, Len(body)) = body
                      /\ \A k \in (Len(body) + 1)..Len(bare) : bare[k].t = "nl"
  IN \/ broken = inline /\ \A k \in DOMAIN items : items[k].t = "row"
     \/ items # <<>> /\ Ends(lines)

(* No sequence of operations leaves a text that does not parse: no comma too   *)
(* many, no key without a value, no item outside its list (document.ts).       *)
StaysReadable == \A key \in Sections : Written(text, key)

(* Comments are the author's (PRD 6.5): an operation loses one only with the   *)
(* last item of the list it stands in, whatever it splices around it.          *)
CommentsIn(s, key) == Cardinality({i \in ValueOf(s, key) : s[i].t = "#"})
CommentsKept ==
  [][\A key \in Sections :
       Len(ItemsOf(text', key)) > 0 => CommentsIn(text', key) = CommentsIn(text, key)]_text

(* An operation on the text comes to what ManifestOps says of the document.    *)
ImplementsOps == D!Spec

(* Splicing the text is editing the document: it parses after any operations, *)
(* keeps its comments, and says what the operations on the document say.      *)
SplicingHolds == []StaysReadable /\ CommentsKept /\ ImplementsOps
=============================================================================
