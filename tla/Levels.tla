------------------------------- MODULE Levels --------------------------------
(* A grouping view of the composition: what the validator asks of it           *)
(* (src/packages/schema/src/validate-view.ts) and how each of its levels is    *)
(* drawn (src/apps/web/src/canvas/levels.ts). The composition holds every part *)
(* and every line once; a view places the parts in domains, one inside the     *)
(* other, and hides or shows those it does not place.                          *)
(*                                                                             *)
(* A view is [members, hide, domains]: the parts at its top, whether the       *)
(* others are hidden, and for each of its domains [parent, members].           *)
EXTENDS Naturals, Sequences, FiniteSets, SequencesExt

CONSTANTS
  Parts,        \* for each part of the composition, its type
  Lines,        \* the lines of the composition: [id, kind, from, to]
  DomainOrder,  \* the ids domains may have, in the order of their files
  Unknown,      \* an id that is neither a part nor a domain
  NoOne,        \* the top of a view; no parent
  Views         \* the views looked at, valid or not

VARIABLE view

DomainsOf(v) == DOMAIN v.domains
AllParts == DOMAIN Parts

-----------------------------------------------------------------------------
(* The validator.                                                              *)

Holders(v, part) == {d \in DomainsOf(v) : part \in v.domains[d].members}

MembersKnown(v) == v.members \union UNION {v.domains[d].members : d \in DomainsOf(v)} \subseteq AllParts

PlacedTwice(v) ==
  \E p \in AllParts : Cardinality(Holders(v, p)) + (IF p \in v.members THEN 1 ELSE 0) > 1

Parent(v, d) == v.domains[d].parent
ParentKnown(v, d) == Parent(v, d) \in DomainsOf(v)

(* The domains above one, as far as they are domains and each once.            *)
AboveOf(v, d) ==
  LET up[n \in 0..Len(DomainOrder)] ==
        IF n = 0 THEN <<d>>
        ELSE LET before == up[n - 1]
                 last   == Last(before)
             IN  IF ~ParentKnown(v, last) \/ Parent(v, last) \in Range(before) THEN before
                 ELSE Append(before, Parent(v, last))
  IN  up[Len(DomainOrder)]

(* A domain that names itself, and no longer way round: a plausible bug.       *)
InsideItself(v, d) == Parent(v, d) = d

InACycle(v, d) == Parent(v, Last(AboveOf(v, d))) = d

ViewDiagnostics(v) ==
  (IF ~MembersKnown(v) THEN {"unknown-node"} ELSE {})
    \union (IF PlacedTwice(v) THEN {"placed-twice"} ELSE {})
    \union (IF \E d \in DomainsOf(v) : Parent(v, d) # NoOne /\ ~ParentKnown(v, d) THEN {"parent-not-domain"} ELSE {})
    \union (IF \E d \in DomainsOf(v) : InACycle(v, d) THEN {"domain-cycle"} ELSE {})

Valid(v) == ViewDiagnostics(v) = {}

-----------------------------------------------------------------------------
(* Where everything sits (containmentOf, chainOf).                             *)

Hidden(v) == IF v.hide THEN {p \in AllParts \ v.members : Holders(v, p) = {}} ELSE {}

(* A part sits in the first domain that has it; a domain in its parent.        *)
SitsIn(v, id) ==
  CASE id \in DomainsOf(v) -> IF ParentKnown(v, id) THEN Parent(v, id) ELSE NoOne
    [] id \notin DomainsOf(v) /\ Holders(v, id) # {} ->
         DomainOrder[CHOOSE i \in DOMAIN DomainOrder :
                       /\ DomainOrder[i] \in Holders(v, id)
                       /\ \A j \in 1..(i - 1) : DomainOrder[j] \notin Holders(v, id)]
    [] OTHER -> NoOne

(* The domains a thing is in, outermost first, and itself.                     *)
Chain(v, id) ==
  LET up[n \in 0..(Len(DomainOrder) + 1)] ==
        IF n = 0 THEN <<id>>
        ELSE LET before == up[n - 1]
                 above  == SitsIn(v, Head(before))
             IN  IF above = NoOne \/ above \in Range(before) THEN before ELSE <<above>> \o before
  IN  up[Len(DomainOrder) + 1]

ScopeChain(v, scope) == IF scope = NoOne THEN <<>> ELSE Chain(v, scope)

-----------------------------------------------------------------------------
(* One level (projectLevel): the top, or the inside of a domain.               *)

StartsWith(chain, scope) == Len(chain) > Len(scope) /\ SubSeq(chain, 1, Len(scope)) = scope

DrawnHere(v, scope, id) ==
  LET above == ScopeChain(v, scope)
      chain == Chain(v, id)
  IN  Len(chain) = Len(above) + 1 /\ StartsWith(chain, above)

ItemsAt(v, scope) == {id \in DomainsOf(v) \union (AllParts \ Hidden(v)) : DrawnHere(v, scope, id)}

Common(chain, scope) ==
  CHOOSE k \in 0..Len(scope) :
    /\ k <= Len(chain) /\ SubSeq(chain, 1, k) = SubSeq(scope, 1, k)
    /\ k < Len(chain) /\ k < Len(scope) => chain[k + 1] # scope[k + 1]

(* The far end itself: a plausible bug.                                        *)
PlaceAtTheEnd(v, scope, id) ==
  LET chain == Chain(v, id)
      above == ScopeChain(v, scope)
      inside == StartsWith(chain, above)
  IN  [at |-> IF inside THEN chain[Len(above) + 1] ELSE id, outside |-> ~inside]

(* What stands for a part on a level: itself or the domain that holds it, or,  *)
(* outside, the highest thing that does not contain the level.                 *)
PlaceOf(v, scope, id) ==
  LET chain == Chain(v, id)
      above == ScopeChain(v, scope)
      k     == Common(chain, above)
  IN  IF StartsWith(chain, above) THEN [at |-> chain[Len(above) + 1], outside |-> FALSE]
      ELSE [at |-> IF k < Len(chain) THEN chain[k + 1] ELSE id, outside |-> TRUE]

(* The stored lines with the ends they have on a level.                        *)
DrawnLines(v, scope) ==
  LET drawn(e) == [id |-> e.id, kind |-> e.kind, from |-> PlaceOf(v, scope, e.from), to |-> PlaceOf(v, scope, e.to),
                   exact |-> LET a == PlaceOf(v, scope, e.from)
                                 b == PlaceOf(v, scope, e.to)
                             IN  ~a.outside /\ ~b.outside /\ a.at = e.from /\ b.at = e.to]
  IN  {l \in {drawn(e) : e \in {x \in Lines : {x.from, x.to} \cap Hidden(v) = {}}} :
         /\ ~(l.from.outside /\ l.to.outside)
         /\ ~(~l.from.outside /\ ~l.to.outside /\ l.from.at = l.to.at)}

(* How many stored lines a drawn one stands for, summed over ends.              *)
Rolled(lines, froms, tos, kind) ==
  Cardinality({l \in lines : l.from \in froms /\ l.to \in tos /\ l.kind = kind})

StubsAt(v, scope) == {end.at : end \in {x \in UNION {{l.from, l.to} : l \in DrawnLines(v, scope)} : x.outside}}

(* The levels one reaches by stepping into what is drawn, from the top.        *)
ReachableLevels(v) ==
  LET down[n \in 0..Len(DomainOrder)] ==
        IF n = 0 THEN {NoOne}
        ELSE LET before == down[n - 1]
             IN  before \union {d \in DomainsOf(v) : \E s \in before : d \in ItemsAt(v, s)}
  IN  down[Len(DomainOrder)]

-----------------------------------------------------------------------------
(* What a domain says it holds (domainSummary).                                *)
Summary(v, d) ==
  [domains |-> Cardinality({x \in DomainsOf(v) : Parent(v, x) = d}),
   parts   |-> [t \in {Parts[p] : p \in AllParts} |->
                  Cardinality({p \in v.domains[d].members \cap AllParts : Parts[p] = t})]]

LevelsInit == view \in Views

-----------------------------------------------------------------------------
(* A part the view does not hide is drawn on exactly one level one can step    *)
(* to, and so is every domain, or the validator says what is wrong: "never     *)
(* silently lost" (view.ts).                                                   *)
NothingSilentlyLost ==
  Valid(view) =>
    \A id \in DomainsOf(view) \union AllParts :
      Cardinality({s \in ReachableLevels(view) : id \in ItemsAt(view, s)})
        = (IF id \in Hidden(view) THEN 0 ELSE 1)

(* Each line of a level runs between what is drawn there and stubs for what is *)
(* drawn further up, with one end here; and each stored line between two parts *)
(* in sight has one level on which both its ends are.                          *)
LinesEndWhereDrawn ==
  Valid(view) =>
    /\ \A s \in ReachableLevels(view) :
         LET above == UNION {ItemsAt(view, x) : x \in {NoOne} \union Range(ScopeChain(view, s))}
         IN  \A l \in DrawnLines(view, s) :
               /\ \A end \in {l.from, l.to} : end.at \in (IF end.outside THEN above \ ItemsAt(view, s) ELSE ItemsAt(view, s))
               /\ {l.from.outside, l.to.outside} # {TRUE}
    /\ \A e \in Lines :
         {e.from, e.to} \cap Hidden(view) = {} /\ e.from # e.to =>
           Cardinality({s \in ReachableLevels(view) :
                          \E l \in DrawnLines(view, s) : l.id = e.id /\ ~l.from.outside /\ ~l.to.outside}) = 1

(* "No level can disagree with another" (levels.ts): a line between a domain   *)
(* and something else on a level counts as many stored lines as, inside the    *)
(* domain, run to the stub of that thing.                                      *)
LevelsAgree ==
  Valid(view) =>
    \A s \in ReachableLevels(view) :
      LET here == DrawnLines(view, s)
      IN \A d \in ItemsAt(view, s) \cap DomainsOf(view) :
           LET inside == DrawnLines(view, d)
               domain == [at |-> d, outside |-> FALSE]
           IN \A t \in (ItemsAt(view, s) \union StubsAt(view, s)) \ {d}, kind \in {l.kind : l \in Lines} :
                LET end   == [at |-> t, outside |-> t \notin ItemsAt(view, s)]
                    stub  == [at |-> t, outside |-> TRUE]
                    within == ItemsAt(view, d)
                    ends  == [at : within, outside : {FALSE}]
                IN  /\ Rolled(here, {domain}, {end}, kind) = Rolled(inside, ends, {stub}, kind)
                    /\ Rolled(here, {end}, {domain}, kind) = Rolled(inside, {stub}, ends, kind)

(* A domain says of itself what one finds on stepping in.                      *)
SummaryIsTheInside ==
  Valid(view) =>
    \A d \in DomainsOf(view) :
      LET inside == ItemsAt(view, d)
      IN  /\ Summary(view, d).domains = Cardinality(inside \cap DomainsOf(view))
          /\ \A t \in {Parts[p] : p \in AllParts} :
               Summary(view, d).parts[t] = Cardinality({p \in inside \cap AllParts : Parts[p] = t})

(* The levels of a view show the composition: every part on one of them, and   *)
(* no two at odds about a line.                                                *)
LevelsHold == NothingSilentlyLost /\ LinesEndWhereDrawn /\ LevelsAgree /\ SummaryIsTheInside
=============================================================================
