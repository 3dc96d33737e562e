------------------------------- MODULE MCCanvas ------------------------------
(* What the page draws and what the validator says of it, one thing at a time: *)
(* the gestures of the composition canvas, or the views of a composition. A    *)
(* behavior begins with one of the two and stays with it.                      *)
EXTENDS Canvas, Levels

VARIABLE about

MCNames == [boundary |-> <<"api">>, service |-> <<"svc", "svc-2">>]
MCEdgeNames == <<"c1", "c2", "c3">>
Node(id, t, names, overrides) == [id |-> id, type |-> t, names |-> names, overrides |-> overrides]
Line(e, k, a, b) == [id |-> e, kind |-> k, from |-> a, to |-> b]

(* As scaffolded; a client and a store, with parts that may reach them; and    *)
(* two lines from one boundary to one service, which it calls out of turn.     *)
Scaffolded == [nodes |-> <<>>, edges |-> <<>>, layout |-> {}]
MCStarts == {
  Scaffolded,
  [nodes |-> <<Node("web", "client", {}, {}), Node("api", "boundary", {}, {}), Node("db", "datastore", {}, {})>>,
   edges |-> <<>>, layout |-> {"web", "api", "db"}],
  [nodes |-> <<Node("job", "process", {}, {}), Node("svc", "service", {}, {}), Node("db", "datastore", {}, {})>>,
   edges |-> <<>>, layout |-> {"job", "svc", "db"}],
  [nodes |-> <<Node("api", "boundary", {"svc"}, {"svc"}), Node("svc", "service", {}, {})>>,
   edges |-> <<Line("c1", "routes-to", "api", "svc"), Line("c2", "routes-to", "api", "svc")>>,
   layout |-> {"api", "svc"}]}

(* Up to three domains, one inside the other or in a ring, one of them in      *)
(* something unknown; two parts with lines both ways, one of them twice.       *)
MCParts == [p |-> "service", q |-> "datastore"]
MCDomains == <<"d", "e", "f">>
MCLines == {Line("c1", "depends-on", "p", "q"), Line("c2", "depends-on", "p", "q"), Line("c3", "calls", "q", "p")}
MCViews ==
  UNION {[members : {{}, {"p"}}, hide : BOOLEAN,
          domains : [ds -> [parent  : {"d", "e", "f", "x", "none"},
                            members : {{}, {"p"}, {"q"}, {"p", "q"}, {"x"}}]]] :
           ds \in SUBSET {"d", "e", "f"}}
NoView == [members |-> {}, hide |-> FALSE, domains |-> [d \in {} |-> 0]]

PagesInit ==
  \/ about = "canvas" /\ InInit /\ view = NoView
  \/ about = "views"  /\ doc = Scaffolded /\ level = "top" /\ typed = FALSE /\ gone = {} /\ LevelsInit

PagesNext == about = "canvas" /\ CanvasNext /\ UNCHANGED <<about, view>>

PagesSpec == PagesInit /\ [][PagesNext]_<<about, vars, view>>
=============================================================================
