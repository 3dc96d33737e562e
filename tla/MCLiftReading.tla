--------------------------- MODULE MCLiftReading ---------------------------
(***************************************************************************)
(* The algorithms of the lift that are pure, each checked over its own     *)
(* inputs: one run, of which each behavior is about one of them while the  *)
(* others keep an empty repository.                                        *)
(***************************************************************************)
EXTENDS LiftClaims, Containment, NestModules

VARIABLE about      \* the algorithm a behavior is about

(* Services and stores, directories and features of a small repository.     *)
CONSTANTS
    orders, ledger, nightly,
    app, worker, ordersCtrl, exportCtrl, fireCtrl

-----------------------------------------------------------------------------
NothingRead == [has |-> {}, lines |-> {}, within |-> [x \in {} |-> 1], unsure |-> {}]

(* Two repositories: one nested two deep with a part placed on weak         *)
(* evidence, one nested three deep.                                         *)
McBases ==
    {[has |-> {orders, ledger, 1, 2}, lines |-> {<<"depends-on", orders, ledger>>},
      within |-> [x \in {orders, ledger, 1} |-> IF x = ledger THEN 1 ELSE 2], unsure |-> {ledger}],
     [has |-> {orders, 1, 2, 3}, lines |-> {},
      within |-> [x \in {1, 2, orders} |-> IF x = 1 THEN 2 ELSE 3], unsure |-> {}]}

(* What the other voices speak about: a part, a domain, a line, and places  *)
(* that close a round.                                                      *)
McTopics ==
    {<<orders>>, <<ledger>>, <<3>>, <<"depends-on", orders, ledger>>}
    \cup {<<"contains", d[1], d[2]>> :
            d \in {<<1, 2>>, <<3, 1>>, <<2, 3>>, <<1, orders>>, <<3, ledger>>}}

NoSurfaces == [f \in {} |-> {}]
McStarts == {[f \in {1, 2} |-> {}], [f \in {1, 2} |-> {f}], NoSurfaces}
McFiledIn ==
    [x \in {1, 2, nightly} |-> <<"src", "a">>] @@ [x \in {3, 4} |-> <<"src", "b">>] @@ (5 :> <<"src", "c">>)

McDirOf ==
    [x \in {app, worker} |-> <<"src">>] @@ [x \in {orders, ordersCtrl} |-> <<"src", "orders">>]
    @@ (ledger :> <<"src", "ledger">>) @@ (exportCtrl :> <<"src", "orders", "export">>)
    @@ (fireCtrl :> <<"src", "jobs">>)
McByName == <<app, ledger, orders, worker>>
McRootDirs == {<<"src">>}
McConditions ==
    {Always, <<"is", "api">>, <<"flag">>, <<"and", <<"is", "api">>, <<"flag">>>>}
McNestStarts ==
    {[roots |-> <<app>>, declares |-> {}, provides |-> {app, orders, ledger}, listed |-> {}],
     [roots |-> <<app, worker>>, declares |-> {<<worker, fireCtrl, Always>>}, provides |-> {orders}, listed |-> {}],
     [roots |-> <<app, worker>>, declares |-> {<<worker, ordersCtrl, Always>>, <<app, exportCtrl, Always>>},
      provides |-> {orders, ledger}, listed |-> {exportCtrl}],
     [roots |-> <<>>, declares |-> {<<orders, fireCtrl, Always>>}, provides |-> {}, listed |-> {fireCtrl}]}

-----------------------------------------------------------------------------
NoClaims == read = NothingRead /\ said = <<>>
NoCode ==
    /\ backend = NoSurfaces /\ uses = NoSurfaces /\ depends = {}
    /\ calls = [w \in Works |-> {}] /\ exposed = {} /\ facts = MaxFacts
NoModules ==
    /\ roots = <<>> /\ declares = {} /\ provides = {} /\ listed = {} /\ imports = {}
    /\ entries = MaxEntries

McInit ==
    \/ about = "claims" /\ ClaimsInit /\ NoCode /\ NoModules
    \/ about = "containment" /\ NoClaims /\ ContainmentInit /\ NoModules
    \/ about = "modules" /\ NoClaims /\ NoCode /\ NestInit

ReadClaims ==
    /\ about = "claims" /\ ClaimsNext
    /\ UNCHANGED <<about, codeVars, nestVars>>
ReadCode ==
    /\ about = "containment" /\ ContainmentNext
    /\ UNCHANGED <<about, claimsVars, nestVars>>
ReadModules ==
    /\ about = "modules" /\ NestNext
    /\ UNCHANGED <<about, claimsVars, codeVars>>
McNext == ReadClaims \/ ReadCode \/ ReadModules
McSpec == McInit /\ [][McNext]_<<about, claimsVars, codeVars, nestVars>>
=============================================================================
