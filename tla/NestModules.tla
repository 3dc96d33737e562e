----------------------------- MODULE NestModules -----------------------------
(***************************************************************************)
(* What a NestJS server loads, read from its @Module graph without running *)
(* it: which modules each root reaches, which only behind a role check,    *)
(* which controllers a registry gives to a feature, and the deployment a   *)
(* service is filed under (lift/nest.ts).                                  *)
(*                                                                         *)
(* An import or a controller is listed in one or more places, each behind  *)
(* a condition of the source; the conditions are terms, so that what the   *)
(* reader makes of one can be compared with when it is true.               *)
(***************************************************************************)
EXTENDS Integers, FiniteSets, Sequences, SequencesExt, TLC

CONSTANTS
    Mods,           \* the @Module classes
    ByName,         \* their names in order: deployments that are alike go by name
    Ctrls,          \* controllers
    DirOf,          \* module or controller -> its directory, a path
    RootDirs,       \* the package's own directories
    Public,         \* controllers that serve under the global prefix
    Roles,          \* what a role check compares with
    Conditions,     \* the conditions met in the source, with their parts
    NestStarts,     \* what the modules declare, before any import is read
    MaxEntries      \* bound: entries listed after that

Always == <<"always">>

ASSUME NestAssumption ==
    /\ IsFiniteSet(Mods) /\ Mods = {ByName[i] : i \in DOMAIN ByName} /\ Public \subseteq Ctrls /\ MaxEntries \in Nat
    /\ DOMAIN DirOf = Mods \cup Ctrls /\ Always \in Conditions
    /\ \A c \in Conditions :
        \/ c[1] = "is" /\ c[2] \in Roles
        \/ c[1] \in {"and", "or"} /\ {c[2], c[3]} \subseteq Conditions
        \/ c[1] = "not" /\ c[2] \in Conditions
        \/ c[1] \in {"always", "flag"}

VARIABLES
    roots,          \* what the bootstraps create, in order
    imports,        \* {<<module, module, condition>>}
    declares,       \* {<<module, controller, condition>>}
    provides,       \* modules with providers of their own
    listed,         \* controllers a registry lists
    entries         \* how many entries were listed

nestVars == <<roots, imports, declares, provides, listed, entries>>

-----------------------------------------------------------------------------
(* The values a condition checks; a negation or a flag gives none.          *)
Labels[c \in Conditions] ==
    CASE c[1] = "is"            -> {c[2]}
      [] c[1] \in {"and", "or"} -> Labels[c[2]] \cup Labels[c[3]]
      [] OTHER                  -> {}

(* Whether it is true, of a process with these roles.                       *)
True(roles, flag) ==
    LET of[c \in Conditions] ==
        CASE c[1] = "is"   -> c[2] \in roles
          [] c[1] = "and"  -> of[c[2]] /\ of[c[3]]
          [] c[1] = "or"   -> of[c[2]] \/ of[c[3]]
          [] c[1] = "not"  -> ~of[c[2]]
          [] c[1] = "flag" -> flag
          [] OTHER         -> TRUE
    IN  of

(* Everything from some starts along some edges.                            *)
From(starts, edges) ==
    LET grown[n \in 0 .. Cardinality(Mods) + Cardinality(Ctrls)] ==
            IF n = 0 THEN starts
            ELSE LET before == grown[n - 1] IN before \cup {e[2] : e \in {x \in edges : x[1] \in before}}
    IN  grown[Cardinality(Mods) + Cardinality(Ctrls)]

RootSet == {roots[i] : i \in DOMAIN roots}
StartSet == IF roots = <<>> THEN Mods ELSE RootSet
IsUnder(dir, other) == IsPrefix(other, dir)

-----------------------------------------------------------------------------
(* Features: a directory whose controllers a registry lists and which no    *)
(* loaded module has to itself.  A candidate under another is part of it.   *)
OwnedDirs ==
    LET declaring == {m \in From(StartSet, imports) : m \in provides \/ \E d \in declares : d[1] = m}
    IN  {DirOf[m] : m \in {x \in declaring : \A y \in declaring : DirOf[y] = DirOf[x] => y = x}}
        \ (RootDirs \cup {DirOf[r] : r \in RootSet})

Features ==
    LET owned == OwnedDirs
        candidates == {DirOf[c] : c \in {x \in listed :
                          /\ DirOf[x] \notin RootDirs \cup {DirOf[r] : r \in RootSet}
                          /\ \A d \in owned : ~IsUnder(DirOf[x], d)}}
    IN  {f \in candidates : \A g \in candidates \ {f} : ~IsUnder(f, g)}

FeatureOf(c) == {f \in Features : c \in listed /\ IsUnder(DirOf[c], f)}
Mounts == UNION {{<<d[1], f, d[3]>> : f \in FeatureOf(d[2])} : d \in declares}

(* Modules that declare a feature's controller mount it; one nothing mounts *)
(* is still declared by its registry, and served at the first root.         *)
WithUnmounted(mounts) ==
    mounts \cup {<<roots[1], f, Always>> : f \in {g \in Features : roots # <<>> /\ \A e \in mounts : e[2] # g}}

Edges == imports \cup WithUnmounted(Mounts)
ModulesFrom(starts) == From(starts, Edges)
Reachable == ModulesFrom(IF roots = <<>> THEN Mods \cup Features ELSE RootSet)

(* A controller of a feature is the feature's, else its module's.           *)
ControllersOf(k) ==
    IF k \notin Mods THEN {c \in listed : IsUnder(DirOf[c], k)}
    ELSE {c \in Ctrls : FeatureOf(c) = {} /\ \E d \in declares : d[1] = k /\ d[2] = c}

ServiceMods == {k \in Reachable : k \notin Mods \/ k \in provides \/ ControllersOf(k) # {}}

-----------------------------------------------------------------------------
(* Mutation: the last occurrence is remembered, guarded or not.             *)
GuardedOnce(conditions) == UNION {Labels[c] : c \in conditions}

(* The role checks on an edge; unguarded in one place is unguarded.         *)
Merged(conditions) ==
    IF \E c \in conditions : Labels[c] = {} THEN {} ELSE UNION {Labels[c] : c \in conditions}

Guard(edges, m, t) == Merged({e[3] : e \in {x \in edges : x[1] = m /\ x[2] = t}})

LedTo(edges, t) == From({t}, edges)

(* Loaded whatever the role, and else by the checks that lead there.        *)
RolesFrom(root, edges, services) ==
    LET guards == [e \in {<<x[1], x[2]>> : x \in edges} |-> Guard(edges, e[1], e[2])]
        open   == From({root}, {e \in DOMAIN guards : guards[e] = {}})
        loaded == From({root}, edges)
        checked == {e \in DOMAIN guards : e[1] \in loaded /\ guards[e] # {}}
        credit == UNION {guards[e] \X ((LedTo(edges, e[2]) \cap services) \ open) : e \in checked}
    IN  [open |-> open, byRole |-> credit]

-----------------------------------------------------------------------------
(* One deployment per root when there are several, one in all otherwise.    *)
NoRoot == "no root"
Surface(reach) == UNION {ControllersOf(k) : k \in reach}
ReachOf(root) == IF root = NoRoot THEN Reachable ELSE ModulesFrom({root})
IsPublic(root) == Surface(ReachOf(root)) \cap Public # {}

(* The public one first, then by name.                                      *)
Before(a, b) ==
    \/ IsPublic(a) /\ ~IsPublic(b)
    \/ /\ IsPublic(a) <=> IsPublic(b)
       /\ \E i, j \in DOMAIN ByName : ByName[i] = a /\ ByName[j] = b /\ i < j

Deployments == IF Len(roots) > 1 THEN RootSet ELSE IF roots = <<>> THEN {NoRoot} ELSE {roots[1]}

(* A service is filed under the first deployment that loads it.             *)
ServerOf(s) ==
    LET loading == {d \in Deployments : s \in ReachOf(d)} IN
    CHOOSE d \in loading : \A e \in loading \ {d} : Before(d, e)

-----------------------------------------------------------------------------
NestInit ==
    /\ \E start \in NestStarts :
        roots = start.roots /\ declares = start.declares /\ provides = start.provides
        /\ listed = start.listed
    /\ imports = {} /\ entries = 0

Entry == entries < MaxEntries /\ entries' = entries + 1

Imports(m, t, c) ==
    /\ Entry /\ m # t /\ <<m, t, c>> \notin imports
    /\ imports' = imports \cup {<<m, t, c>>}
    /\ UNCHANGED <<roots, declares, provides, listed>>

Declares(m, x, c) ==
    /\ Entry /\ <<m, x, c>> \notin declares
    /\ declares' = declares \cup {<<m, x, c>>}
    /\ UNCHANGED <<roots, imports, provides, listed>>

Lists(x) ==
    /\ Entry /\ x \notin listed
    /\ listed' = listed \cup {x}
    /\ UNCHANGED <<roots, imports, declares, provides>>

NestNext ==
    \/ \E m \in Mods, c \in Conditions :
        \/ \E t \in Mods : Imports(m, t, c)
        \/ \E x \in Ctrls : Declares(m, x, c)
    \/ \E x \in Ctrls : Lists(x)
NestSpec == NestInit /\ [][NestNext]_nestVars

-----------------------------------------------------------------------------
(* What a process with these roles loads: the reference.                    *)
LoadedUnder(edges, root, roles, flag) ==
    LET true == True(roles, flag) IN From({root}, {e \in edges : true[e[3]]})

(* The reader's rule reads a condition right when its values are necessary: *)
(* true, one of them holds.                                                 *)
ReadRight(c) ==
    Labels[c] = {} \/ \A roles \in SUBSET Roles, flag \in BOOLEAN :
                          True(roles, flag)[c] => roles \cap Labels[c] # {}

(* "ServiceMods a root loads only behind a role check, by the value checked":  *)
(* a process that loads a service listed under roles has one of them, over  *)
(* every path of imports, and every service loaded is open or under a role. *)
RolesAreNecessary ==
    LET edges == Edges  services == ServiceMods IN
    (\A e \in edges : ReadRight(e[3])) =>
    \A root \in RootSet : LET read == RolesFrom(root, edges, services) IN
        \A roles \in SUBSET Roles, flag \in BOOLEAN :
            \A s \in LoadedUnder(edges, root, roles, flag) \cap services :
                s \in read.open \/ \E r \in roles : <<r, s>> \in read.byRole

(* A service the public deployment loads is filed under it, whatever order  *)
(* the bootstraps come in, so its routes are not drawn as internal.         *)
PublicComesFirst ==
    LET public == {d \in Deployments : IsPublic(d)} IN
    \A s \in ServiceMods : (\E d \in public : s \in ReachOf(d)) => ServerOf(s) \in public

(* Nothing listed is lost by moving it to a feature: a controller that a    *)
(* module loaded from a root declares is served there, and a listed one     *)
(* that no module declares is served by the first root.                     *)
EveryControllerServed ==
    /\ \A root \in RootSet : LET served == Surface(ReachOf(root))  loaded == From({root}, imports) IN
        \A d \in declares : d[1] \in loaded => d[2] \in served
    /\ roots # <<>> => LET served == Surface(ReachOf(roots[1]))  mounts == Mounts IN
        \A c \in listed : FeatureOf(c) # {} /\ (\A e \in mounts : e[2] \notin FeatureOf(c)) => c \in served

(* The comment of readNestServer: a feature serves its controllers wherever *)
(* a module mounts them - and a root that mounts one of them not the other. *)
ServedWhereMounted ==
    \A root \in RootSet : \A c \in Surface(ReachOf(root)) :
        (\E d \in declares : d[2] = c) => \E d \in declares : d[2] = c /\ d[1] \in From({root}, imports)

(* The comment of guardLabels: what is not a recognisable check is read as  *)
(* unguarded, the union every reading includes.                             *)
EveryConditionReadRight == \A e \in Edges : ReadRight(e[3])

(* The deployments are of the modules: role checks that guard every path,    *)
(* the public one first, and no listed controller lost.                      *)
DeploymentsHold == RolesAreNecessary /\ PublicComesFirst /\ EveryControllerServed
=============================================================================
