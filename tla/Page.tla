-------------------------------- MODULE Page --------------------------------
(* Where the author is (apps/web/src/App.tsx, routes.ts): the project in     *)
(* front, the stack of levels they went down, the bundle that is drawn, and  *)
(* the address bar that mirrors the place.  Three things move it: gestures   *)
(* (commands/registry.ts, canvas/Editor.tsx), Back and Forward, and answers  *)
(* of the API, which come when they come.                                    *)
(*                                                                           *)
(* An action is an event with the effects the render after it runs: the      *)
(* push of a new path, the cleanup of the load of a project left, the load   *)
(* of the one entered.                                                       *)
EXTENDS Naturals, Sequences, SequencesExt

CONSTANTS
    Projects,
    Existing,      \* those that are still there when the page is opened
    Documents,     \* project -> what its bundle holds of views and graphs
    Views, Insides, GraphPaths, Files,
    None,
    Links,         \* the places the page may be opened at
    Unhurried,       \* a project is not left while a refresh of it is under way
    MaxPlaces      \* bounds the browser's history

ASSUME PageAssumption ==
    /\ Existing \subseteq Projects
    /\ Unhurried \in BOOLEAN
    /\ MaxPlaces \in Nat \ {0}
    /\ None \notin Projects \cup Views \cup Insides \cup GraphPaths \cup Files

VARIABLES
    atHome, active, stack,
    load,          \* [status, of]: the bundle drawn, if there is one
    fetches,       \* bundles on their way: [for, of]
    listed,        \* the list of projects has come
    selectedOn,    \* the canvas the selection was made on, None without one
    visited, at,   \* the browser's history and the place in it
    gesture        \* what the last step was

pageVars == <<atHome, active, stack, load, fetches, listed, selectedOn, visited, at, gesture>>

-----------------------------------------------------------------------------
(* Levels and routes.  A domain and a diagram are both "inside" in a path.   *)

Composition(view, domain, diagram) ==
    [kind |-> "composition", view |-> view, domain |-> domain, diagram |-> diagram]
GraphLevel(path) == [kind |-> "graph", path |-> path]
CodeLevel(files, file) == [kind |-> "code", files |-> files, file |-> file]

PlaceAt(kind, project, view, inside, graph) ==
    [kind |-> kind, project |-> project, view |-> view, inside |-> inside, graph |-> graph]
HomeRoute == PlaceAt("home", None, None, None, None)

Routes ==
    {HomeRoute}
    \cup {PlaceAt("project", p, None, None, None) : p \in Projects}
    \cup {PlaceAt("view", p, view, inside, None) :
              p \in Projects, view \in Views, inside \in Insides \cup {None}}
    \cup {PlaceAt("graph", p, None, None, g) : p \in Projects, g \in GraphPaths}

ASSUME LinksAssumption == Links \subseteq Routes

StackForRoute(route) ==
    <<Composition(route.view, None, None)>>
    \o (IF route.inside # None THEN <<Composition(route.view, route.inside, None)>> ELSE <<>>)
    \o (IF route.kind = "graph" THEN <<GraphLevel(route.graph)>> ELSE <<>>)

(* The deepest level the path can name: a graph, or a composition in a view. *)
Named(levels) ==
    SelectInSeq(Reverse(levels), LAMBDA l : l.kind = "graph" \/ (l.kind = "composition" /\ l.view # None))

CurrentPath(home, project, levels) ==
    LET n == Named(levels)
        level == Reverse(levels)[n]
    IN IF home \/ project = None THEN HomeRoute
       ELSE IF n = 0 THEN PlaceAt("project", project, None, None, None)
       ELSE IF level.kind = "graph" THEN PlaceAt("graph", project, None, None, level.path)
       ELSE PlaceAt("view", project, level.view,
                    IF level.domain # None THEN level.domain ELSE level.diagram, None)

Top(levels) == Last(levels)

-----------------------------------------------------------------------------
(* What a bundle holds: views, each with its domains (domain -> parent) or   *)
(* its diagrams (diagram -> those it leads to) and their entry; the view it  *)
(* opens in; its graphs (graph -> those in it) and the services' own.        *)

ViewsOf(p) == Documents[p].views

ASSUME DocumentsAssumption ==
    \A p \in Projects :
        /\ DOMAIN ViewsOf(p) \subseteq Views /\ Documents[p].opens \in DOMAIN ViewsOf(p) \cup {None}
        /\ \A view \in DOMAIN ViewsOf(p) :
              LET diagrams == ViewsOf(p)[view].diagrams
              IN /\ DOMAIN ViewsOf(p)[view].domains \subseteq Insides
                 /\ DOMAIN diagrams \subseteq Insides
                 /\ \A d \in DOMAIN diagrams : diagrams[d] \subseteq Insides
                 /\ ViewsOf(p)[view].entry \in Insides \cup {None}
        /\ DOMAIN Documents[p].graphs \subseteq GraphPaths /\ Documents[p].services \subseteq GraphPaths
        /\ \A g \in DOMAIN Documents[p].graphs : Documents[p].graphs[g] \subseteq GraphPaths

(* The domains above one, down to it; at most thirty-two.                    *)
ChainOf(view, domains, d) ==
    LET up[n \in 0 .. 31] ==
            IF n = 0 THEN <<d>>
            ELSE LET before == up[n - 1]
                     above  == domains[Head(before)]
                 IN IF above \notin DOMAIN domains THEN before ELSE <<above>> \o before
    IN [i \in DOMAIN up[31] |-> Composition(view, up[31][i], None)]

(* Faulty: the view asked for is kept, whatever the bundle has.              *)
LandedInAnyView(levels, p) ==
    LET asked == Head(levels).view
        view == IF asked # None THEN asked ELSE Documents[p].opens
    IN <<Composition(view, None, None)>>

(* The stack when a project's bundle has come: the place survives as far as  *)
(* the bundle has it; otherwise the top of the view.                         *)
Landed(levels, p) ==
    LET asked == Head(levels).view
        view == IF asked # None THEN (IF asked \in DOMAIN ViewsOf(p) THEN asked ELSE None)
                ELSE Documents[p].opens
        loaded == IF view = None THEN [domains |-> <<>>, diagrams |-> <<>>, entry |-> None]
                  ELSE ViewsOf(p)[view]
        top == Top(levels)
        composition == Composition(view, None, None)
        into == IF top.kind # "composition" THEN None
                ELSE IF top.diagram # None THEN top.diagram ELSE top.domain
    IN IF into \in DOMAIN loaded.diagrams \ {loaded.entry}
       THEN <<composition, Composition(view, None, into)>>
       ELSE <<composition>> \o
            CASE top.kind = "composition" /\ top.domain \in DOMAIN loaded.domains ->
                     ChainOf(view, loaded.domains, top.domain)
              [] top.kind = "graph" /\ top.path \in DOMAIN Documents[p].graphs -> <<top>>
              [] OTHER -> <<>>

(* The diagram a level of a view of diagrams shows.                          *)
DiagramShown(p, level) ==
    IF level.kind # "composition" THEN None
    ELSE IF level.view \notin DOMAIN ViewsOf(p) THEN None
    ELSE IF ViewsOf(p)[level.view].diagrams = <<>> THEN None
    ELSE IF level.diagram # None THEN level.diagram ELSE ViewsOf(p)[level.view].entry

(* Where a double-click or Enter leads from a canvas.                        *)
Targets(p, level) ==
    IF level.kind = "graph"
    THEN {GraphLevel(g) : g \in IF level.path \in DOMAIN Documents[p].graphs
                                THEN Documents[p].graphs[level.path] ELSE {}}
         \cup {CodeLevel({f}, None) : f \in Files}
    ELSE IF DiagramShown(p, level) # None
    THEN {Composition(level.view, None, d) :
              d \in LET diagrams == ViewsOf(p)[level.view].diagrams
                        shown == DiagramShown(p, level)
                    IN IF shown \in DOMAIN diagrams THEN diagrams[shown] ELSE {}}
    ELSE {GraphLevel(g) : g \in Documents[p].services}
         \cup IF level.view \notin DOMAIN ViewsOf(p) THEN {}
              ELSE LET domains == ViewsOf(p)[level.view].domains
                   IN {Composition(level.view, d, None) :
                           d \in {x \in DOMAIN domains : domains[x] = level.domain}}

-----------------------------------------------------------------------------
(* Effects of a render.                                                      *)

(* The address bar mirrors the place: equality is the loop guard.            *)
MirrorAt(n, home, project, levels) ==
    LET place == CurrentPath(home, project, levels)
    IN IF visited[n] = place
       THEN visited' = visited /\ at' = n
       ELSE /\ n < MaxPlaces
            /\ visited' = Append(SubSeq(visited, 1, n), place) /\ at' = n + 1

(* Another project in front: the load of the one left is aborted, and the    *)
(* new one's begins.  A refresh under way is not aborted.                    *)
SwitchTo(project) ==
    /\ active' = project
    /\ fetches' = {f \in fetches : f.for = "refresh"}
                  \cup (IF project = None THEN {} ELSE {[for |-> "load", of |-> project]})
    /\ load' = IF project = None THEN load ELSE [status |-> "loading", of |-> None]

Show(home, project, levels) ==
    /\ atHome' = home /\ stack' = levels
    /\ MirrorAt(at, home, project, levels)
    /\ IF project = active THEN UNCHANGED <<active, fetches, load>>
       ELSE /\ Unhurried => \A f \in fetches : f.for # "refresh"
            /\ SwitchTo(project)

Go(levels) == Show(atHome, active, levels) /\ selectedOn' = None /\ UNCHANGED listed

PageInit ==
    /\ \E route \in Links :
          /\ stack = StackForRoute(route) /\ visited = <<route>>
          /\ atHome = (route.kind = "home")
          /\ active \in IF route.kind = "home" THEN Projects \cup {None} ELSE {route.project}
    /\ at = 1
    /\ load = [status |-> "loading", of |-> None]
    /\ fetches = IF active = None THEN {} ELSE {[for |-> "load", of |-> active]}
    /\ listed = FALSE /\ selectedOn = None /\ gesture = "none"

-----------------------------------------------------------------------------
(* Gestures.                                                                 *)

Ready == ~atHome /\ load.status = "ready"
OnCanvas == Ready /\ Top(stack).kind # "code"

EnterProject(p) ==
    /\ listed /\ p \in Existing
    /\ gesture' = "entered"
    /\ Show(FALSE, p, stack) /\ UNCHANGED <<listed, selectedOn>>

GoHome ==
    /\ ~atHome /\ gesture' = "home"
    /\ Show(TRUE, active, stack) /\ UNCHANGED <<listed, selectedOn>>

Select ==
    /\ OnCanvas /\ selectedOn' = Top(stack) /\ gesture' = "selected"
    /\ UNCHANGED <<atHome, active, stack, load, fetches, listed, visited, at>>

(* One double-click, and the quarter second of its zoom waited for.          *)
Descend ==
    /\ OnCanvas /\ gesture' = "descended"
    /\ \E target \in Targets(load.of, Top(stack)) : Go(Append(stack, target))

Ascended(levels) == IF Len(levels) > 1 THEN Front(levels) ELSE levels

(* Escape is the command that ascends, enabled wherever there is depth; and  *)
(* the canvas has a listener of its own, which ascends too.                  *)
Escape ==
    /\ Len(stack) > 1 /\ gesture' = "escaped"
    /\ Go(IF OnCanvas THEN Ascended(Ascended(stack)) ELSE Ascended(stack))

AscendTo(i) ==
    /\ ~atHome /\ i \in 1 .. Len(stack) - 1 /\ gesture' = "crumb"
    /\ Go(SubSeq(stack, 1, i))

SwitchView(view) ==
    /\ OnCanvas /\ ViewsOf(load.of) # <<>> /\ view \in DOMAIN ViewsOf(load.of) \cup {None}
    /\ gesture' = "view"
    /\ Go(<<Composition(view, None, None)>>)

(* Code contexts do not nest: a file opened from one is another tab of it.   *)
Opened(levels, file) ==
    LET top == Top(levels)
    IN IF top.kind = "code"
       THEN Append(Front(levels), CodeLevel(top.files \cup {file}, file))
       ELSE Append(levels, CodeLevel({file}, file))

OpenFile(file) == Ready /\ gesture' = "file" /\ Go(Opened(stack, file))

(* The editor says which of its tabs is in front.                            *)
ReportActiveFile(file) ==
    /\ Ready /\ Top(stack).kind = "code"
    /\ file \in Top(stack).files \ {Top(stack).file}
    /\ gesture' = "file"
    /\ Show(atHome, active, Append(Front(stack), CodeLevel(Top(stack).files, file)))
    /\ UNCHANGED <<listed, selectedOn>>

(* Back and Forward, within the page.                                        *)
Pop(n) ==
    LET route == visited[n]
    IN /\ n \in {at - 1, at + 1} \cap DOMAIN visited
       /\ gesture' = "popped"
       /\ LET home == route.kind = "home"
              project == IF home THEN active ELSE route.project
              levels == StackForRoute(route)
          IN /\ atHome' = home /\ stack' = levels
             /\ MirrorAt(n, home, project, levels)
             /\ IF project = active THEN UNCHANGED <<active, fetches, load>>
                ELSE /\ Unhurried => \A f \in fetches : f.for # "refresh"
                     /\ SwitchTo(project)
       /\ UNCHANGED <<listed, selectedOn>>

-----------------------------------------------------------------------------
(* Answers.                                                                  *)

(* The first list: the project the page was opened on may be gone.           *)
ListProjects ==
    /\ ~listed /\ listed' = TRUE /\ gesture' = "answer"
    /\ IF active = None \/ active \in Existing
       THEN UNCHANGED <<atHome, active, stack, load, fetches, visited, at>>
       ELSE Show(atHome, None, stack)
    /\ UNCHANGED selectedOn

LoadAnswers(f) ==
    /\ f \in fetches /\ f.for = "load" /\ gesture' = "answer"
    /\ fetches' = fetches \ {f}
    /\ \/ /\ f.of \in Existing
          /\ load' = [status |-> "ready", of |-> f.of]
          /\ stack' = Landed(stack, f.of)
          /\ MirrorAt(at, atHome, active, Landed(stack, f.of))
          /\ selectedOn' = None
       \/ /\ load' = [status |-> "error", of |-> None]
          /\ UNCHANGED <<stack, selectedOn, visited, at>>
    /\ UNCHANGED <<atHome, active, listed>>

(* A save, an operation, a commit...: the bundle is read again, and the      *)
(* answer is drawn whatever is in front by then.                             *)
Refresh ==
    /\ Ready /\ active # None /\ \A f \in fetches : f.for # "refresh"
    /\ gesture' = "refresh"
    /\ fetches' = fetches \cup {[for |-> "refresh", of |-> active]}
    /\ UNCHANGED <<atHome, active, stack, load, listed, selectedOn, visited, at>>

RefreshAnswers(f) ==
    /\ f \in fetches /\ f.for = "refresh" /\ gesture' = "answer"
    /\ fetches' = fetches \ {f}
    /\ load' \in {load, [status |-> "ready", of |-> f.of]}
    /\ UNCHANGED <<atHome, active, stack, listed, selectedOn, visited, at>>

PageNext ==
    \/ \E p \in Projects : EnterProject(p)
    \/ GoHome \/ Select \/ Descend \/ Escape
    \/ \E n \in 1 .. MaxPlaces : AscendTo(n) \/ Pop(n)
    \/ \E view \in Views \cup {None} : SwitchView(view)
    \/ \E file \in Files : OpenFile(file) \/ ReportActiveFile(file)
    \/ ListProjects \/ Refresh
    \/ \E f \in fetches : LoadAnswers(f) \/ RefreshAnswers(f)

PageSpec == PageInit /\ [][PageNext]_pageVars

-----------------------------------------------------------------------------
IsLevel(l) ==
    \/ l.kind = "composition" /\ {l.view, l.domain, l.diagram} \subseteq Views \cup Insides \cup {None}
    \/ l.kind = "graph" /\ l.path \in GraphPaths
    \/ l.kind = "code" /\ l.files \subseteq Files /\ l.files # {} /\ l.file \in l.files \cup {None}

PageTypeOK ==
    /\ active \in Projects \cup {None}
    /\ stack # <<>> /\ \A i \in DOMAIN stack : IsLevel(stack[i])
    /\ load.status \in {"loading", "ready", "error"}
    /\ fetches \subseteq [for : {"load", "refresh"}, of : Projects]
    /\ at \in DOMAIN visited /\ Len(visited) <= MaxPlaces

(* The bundle drawn is the one of the project in front, whichever loads were *)
(* begun and overtaken on the way there (App.tsx:384-456).                   *)
FrontShowsItsOwn ==
    load.status = "ready" /\ active # None => load.of = active

(* A composition at the bottom, of one view throughout, then graphs, and at  *)
(* most one level of code, on top: leaving code always leads to the canvas   *)
(* it was entered from (App.tsx:488).                                        *)
StackIsWhole ==
    /\ Head(stack).kind = "composition"
    /\ \A i, j \in DOMAIN stack : i < j =>
          /\ stack[i].kind # "code"
          /\ stack[j].kind = "composition" =>
                stack[i].kind = "composition" /\ stack[i].view = stack[j].view

(* Back and Forward walk the history and never write it: what is rebuilt     *)
(* from a path leads to that path (App.tsx:309, routes.ts:7).                *)
PopPushesNothing == [][gesture' = "popped" => visited' = visited]_pageVars

(* A place in the address bar that the project has is still there, and in    *)
(* the address bar, when the project has loaded; and what the project does   *)
(* not have is nowhere on the stack (App.tsx:391, routes.ts:6).  A path      *)
(* names a diagram like a domain; that of a view's entry, which one may step *)
(* back into, is the exception: it lands on the view (App.tsx:421).          *)
Holds(p, level) ==
    CASE level.kind = "composition" ->
             level.view = None \/
             (/\ level.view \in DOMAIN ViewsOf(p)
              /\ level.domain \in {None} \cup DOMAIN ViewsOf(p)[level.view].domains
              /\ level.diagram \in {None} \cup DOMAIN ViewsOf(p)[level.view].diagrams)
      [] level.kind = "graph" -> level.path \in DOMAIN Documents[p].graphs
      [] OTHER -> FALSE
SteppedInto(p, view) == DOMAIN ViewsOf(p)[view].diagrams \ {ViewsOf(p)[view].entry}
Keeps(p, level) ==
    \/ Holds(p, level) /\ (level.kind = "composition" /\ level.view # None =>
                               level.diagram \in {None} \cup SteppedInto(p, level.view))
    \/ /\ level.kind = "composition" /\ level.view \in DOMAIN ViewsOf(p)
       /\ level.domain \in SteppedInto(p, level.view)
LinksLandWhereTheySay ==
    [][load.status = "loading" /\ load'.status = "ready" =>
          /\ \A i \in DOMAIN stack' : Holds(load'.of, stack'[i])
          /\ (~atHome /\ visited[at].kind # "project"
              /\ \A i \in DOMAIN stack : Keeps(load'.of, stack[i])) => visited'[at'] = visited[at]]_pageVars

(* A selection ends with the canvas it was made on: Delete asks about what   *)
(* is on screen.  Not so for Back, Forward and another project.              *)
SelectionEndsWithItsCanvas ==
    [][stack' # stack /\ gesture' # "popped" => selectedOn' = None]_pageVars

(* nav.ascend: leave this context and return to the one that contains it     *)
(* (commands/registry.ts:171).                                               *)
EscapeLeavesOneLevel ==
    [][gesture' = "escaped" /\ stack' # stack => stack' = Front(stack)]_pageVars

(* routes.ts:2-8: the URL is a place, and Back and Forward walk the places   *)
(* visited: the canvas drawn at a path is the one the path names.            *)
PathShowsItsPlace ==
    OnCanvas /\ load.of = active /\ visited[at].inside # None =>
        LET shown == DiagramShown(active, Top(stack))
        IN visited[at].inside = IF shown = None THEN Top(stack).domain ELSE shown

(* The page is where its address says, at each step of any way there: loads, *)
(* links, Back, tabs, crumbs and code opened from the canvas.                *)
NavigationHolds ==
    /\ []FrontShowsItsOwn
    /\ []StackIsWhole
    /\ PopPushesNothing
    /\ LinksLandWhereTheySay
    /\ SelectionEndsWithItsCanvas
=============================================================================
