---------------------------- MODULE Containment ----------------------------
(***************************************************************************)
(* The levels a graph is drawn at: services joined into capabilities by    *)
(* the surfaces they are the backend of, the rest inside the one           *)
(* capability that uses them or in the shared foundation, work and stores  *)
(* where their services are (lift/containment.ts).                         *)
(*                                                                         *)
(* What a surface reaches is abstracted to the two lists it is scored      *)
(* into: the services it is the frontend of, and those it uses.  A         *)
(* capability is the set of backends it is made of.                        *)
(***************************************************************************)
EXTENDS Integers, FiniteSets, FiniteSetsExt, Sequences, Functions

CONSTANTS
    Services,       \* numbers: the code sorts ids
    Surfaces,       \* numbers: the frontend feature directories there may be
    Works, Stores,  \* background processes, datastores
    FiledIn,        \* service or work -> the directories its code is filed under
    MaxChildren,    \* MAX_CHILDREN
    Starts,         \* repositories to begin from: their surfaces and backends
    MaxFacts        \* bound: facts found after that

ASSUME ContainmentAssumption ==
    /\ Services \subseteq Nat /\ Surfaces \subseteq Nat /\ IsFiniteSet(Services) /\ IsFiniteSet(Surfaces)
    /\ DOMAIN FiledIn = Services \cup Works /\ MaxChildren \in Nat /\ MaxFacts \in Nat
    /\ \A start \in Starts : /\ DOMAIN start \subseteq Surfaces
                              /\ \A f \in DOMAIN start : start[f] \subseteq Services

VARIABLES
    backend,        \* surface -> the services a surface is the frontend of
    uses,           \* surface -> the services it uses besides
    depends,        \* pairs: a service depends on a service or a store
    calls,          \* Works -> the services it runs
    exposed,        \* services a server serves routes for
    facts           \* how many facts were found

codeVars == <<backend, uses, depends, calls, exposed, facts>>

Elements == Services \cup Works \cup Stores
Ascending(S) == [i \in 1 .. Cardinality(S) |-> CHOOSE x \in S : Cardinality({y \in S : y <= x}) = i]

-----------------------------------------------------------------------------
(* Capabilities: the services that are a surface's backend; where no client *)
(* has surfaces, the tops of what a server exposes.                         *)
Seeds ==
    IF DOMAIN backend # {} THEN UNION {backend[f] : f \in DOMAIN backend}
    ELSE LET tops == {s \in exposed : \A t \in Services : <<t, s>> \notin depends} IN
         IF tops # {} THEN tops ELSE exposed

(* The surfaces in turn join their backends, each to the first.             *)
Joins ==
    LET of(f) == LET bs == Ascending(backend[f]) IN
                 [i \in DOMAIN bs |-> <<bs[1], bs[i]>>]
        order == Ascending(DOMAIN backend)
        upTo[n \in 0 .. Cardinality(DOMAIN backend)] == IF n = 0 THEN <<>> ELSE upTo[n - 1] \o of(order[n])
    IN  upTo[Cardinality(DOMAIN backend)]

Find(group, s) ==
    LET at[n \in 0 .. Cardinality(Services)] == IF n = 0 THEN s ELSE group[at[n - 1]]
    IN  at[Cardinality(Services)]

Joined(group, first, other) == [group EXCEPT ![Find(group, other)] = Find(group, first)]

Group ==
    LET joins == Joins
        upTo[n \in 0 .. Len(joins)] ==
            IF n = 0 THEN [s \in Seeds |-> s] ELSE Joined(upTo[n - 1], joins[n][1], joins[n][2])
    IN  upTo[Len(joins)]

Capability(group, s) == {t \in DOMAIN group : Find(group, t) = Find(group, s)}

(* Mutation: only the direct users are looked at.                           *)
WalkedThroughNone(seeds, s) == FALSE

(* The walk to a service's users stops at a capability.                     *)
WalkedThrough(seeds, s) == s \notin seeds

(* The services that reach one, through services that are not capabilities. *)
Reaching(seeds, s) ==
    LET via[n \in 0 .. Cardinality(Services)] ==
            IF n = 0 THEN {s}
            ELSE LET before == via[n - 1] IN
                 before \cup {t \in Services : \E d \in before :
                    <<t, d>> \in depends /\ (d = s \/ WalkedThrough(seeds, d))}
    IN  via[Cardinality(Services)] \ {s}

(* The capabilities that use a service: those that reach it, and those      *)
(* whose surface uses it.                                                   *)
UsersOf(group, s) ==
    LET seeds == DOMAIN group
        fronts == {f \in DOMAIN backend : s \in uses[f] /\ backend[f] # {}}
    IN  {Capability(group, t) : t \in Reaching(seeds, s) \cap seeds}
        \cup {Capability(group, CHOOSE t \in backend[f] : \A u \in backend[f] : t <= u) : f \in fronts}

(* Where each service is: a capability, or the foundation.                  *)
HomeOf(group) ==
    [s \in Services |->
        IF s \in DOMAIN group THEN Capability(group, s)
        ELSE LET users == UsersOf(group, s) IN
             IF Cardinality(users) = 1 THEN CHOOSE c \in users : TRUE ELSE {}]

(* Background work goes with what it runs when that is in one place; a      *)
(* store only one capability uses is part of it.  Absent: at the top.       *)
WithWork(home) ==
    LET homes(w) == {home[s] : s \in calls[w]}
        placed   == {w \in Works : Cardinality(homes(w)) = 1}
    IN  [x \in DOMAIN home \cup placed |->
            IF x \in DOMAIN home THEN home[x] ELSE CHOOSE h \in homes(x) : TRUE]

WithStores(home) ==
    LET homes(x) == {home[s] : s \in {t \in Services : <<t, x>> \in depends}}
        placed   == {x \in Stores : Cardinality(homes(x)) = 1 /\ homes(x) # {{}}}
    IN  [x \in DOMAIN home \cup placed |->
            IF x \in DOMAIN home THEN home[x] ELSE CHOOSE h \in homes(x) : TRUE]

(* The foundation, parted at the first directory where its files part ways, *)
(* when it is too big to read and parts in two groups at least.             *)
FileOf(x) ==
    IF x \in Works /\ calls[x] # {} THEN FiledIn[CHOOSE s \in calls[x] : \A t \in calls[x] : s <= t]
    ELSE FiledIn[x]

SharedDepth(files) ==
    LET one == CHOOSE f \in files : TRUE
    IN  Max({n \in 0 .. Len(one) : \A f \in files : Len(f) >= n /\ SubSeq(f, 1, n) = SubSeq(one, 1, n)})

PartOf(file, depth) == IF Len(file) > depth THEN file[depth + 1] ELSE "other"

(* What stands alone in its directory is directly in the foundation.        *)
NotParted(members, groups) == {x \in members : \A g \in groups : x \notin g}

Parted(members) ==
    LET depth == SharedDepth({FileOf(x) : x \in members})
        part == [x \in members |-> PartOf(FileOf(x), depth)]
        groups == {g \in {{x \in members : part[x] = p} : p \in Range(part)} : Cardinality(g) >= 2}
    IN  IF Cardinality(members) > MaxChildren /\ Cardinality(groups) >= 2
        THEN groups \cup ({NotParted(members, groups)} \ {{}})
        ELSE {members} \ {{}}

(* Levels only where one level would not be readable: the domains, each     *)
(* with what is directly inside, the foundation in its parts.               *)
Levels ==
    IF Cardinality(Elements) <= MaxChildren THEN {}
    ELSE LET home == WithStores(WithWork(HomeOf(Group)))
             inside(h) == {x \in DOMAIN home : home[x] = h}
         IN  {inside(h) : h \in Range(home) \ {{}}} \cup Parted(inside({}))

-----------------------------------------------------------------------------
ContainmentInit ==
    /\ backend \in Starts
    /\ uses = [f \in DOMAIN backend |-> {}] /\ depends = {}
    /\ calls = [w \in Works |-> {}] /\ exposed = {} /\ facts = 0

Fact == facts < MaxFacts /\ facts' = facts + 1

FrontOf(f, s) ==
    /\ Fact /\ s \notin backend[f] \cup uses[f]
    /\ backend' = [backend EXCEPT ![f] = @ \cup {s}]
    /\ UNCHANGED <<uses, depends, calls, exposed>>

(* The best match is the backend: a surface that uses a service has one.    *)
Uses(f, s) ==
    /\ Fact /\ backend[f] # {} /\ s \notin backend[f] \cup uses[f]
    /\ uses' = [uses EXCEPT ![f] = @ \cup {s}]
    /\ UNCHANGED <<backend, depends, calls, exposed>>

DependsOn(s, x) ==
    /\ Fact /\ s # x /\ <<s, x>> \notin depends
    /\ depends' = depends \cup {<<s, x>>}
    /\ UNCHANGED <<backend, uses, calls, exposed>>

Runs(w, s) ==
    /\ Fact /\ s \notin calls[w]
    /\ calls' = [calls EXCEPT ![w] = @ \cup {s}]
    /\ UNCHANGED <<backend, uses, depends, exposed>>

Exposes(s) ==
    /\ Fact /\ DOMAIN backend = {} /\ s \notin exposed
    /\ exposed' = exposed \cup {s}
    /\ UNCHANGED <<backend, uses, depends, calls>>

ContainmentNext ==
    \/ \E s \in Services :
        \/ \E f \in DOMAIN backend : FrontOf(f, s) \/ Uses(f, s)
        \/ \E x \in Services \cup Stores : DependsOn(s, x)
        \/ \E w \in Works : Runs(w, s)
        \/ Exposes(s)
ContainmentSpec == ContainmentInit /\ [][ContainmentNext]_codeVars

-----------------------------------------------------------------------------
In(domains, x) == {d \in domains : x \in d}

(* Nothing is lost or drawn twice: a service is in exactly one domain, work *)
(* and a store in one at most, and no domain is empty (step 7).             *)
EverythingOnce ==
    LET domains == Levels IN domains # {} =>
        /\ {} \notin domains
        /\ \A s \in Services : Cardinality(In(domains, s)) = 1
        /\ \A x \in Works \cup Stores : Cardinality(In(domains, x)) <= 1

(* Two backends are one capability exactly when a chain of surfaces joins   *)
(* them: the reference for the union of groups.                             *)
Linked(s, t) ==
    LET near[n \in 0 .. Cardinality(Services)] ==
            IF n = 0 THEN {s}
            ELSE LET before == near[n - 1] IN
                 before \cup UNION {backend[f] : f \in {g \in DOMAIN backend : backend[g] \cap before # {}}}
    IN  t \in near[Cardinality(Services)]

CapabilitiesAreWhatSurfacesJoin ==
    LET group == Group IN
    \A s, t \in DOMAIN group : (Find(group, s) = Find(group, t)) <=> Linked(s, t)

(* Rule 5's "a service no surface reaches is used by capabilities": one     *)
(* that is no backend is in a capability only when every service that       *)
(* depends on it is in it as well, or is in nobody's use.                   *)
InsideIsUsedInside ==
    LET group == Group  home == HomeOf(group) IN
    \A s, t \in Services :
        /\ s \notin DOMAIN group /\ home[s] # {} /\ <<t, s>> \in depends
        /\ \A f \in DOMAIN backend : uses[f] = {}
        => home[t] = home[s] \/ (t \notin DOMAIN group /\ UsersOf(group, t) = {})

(* The rule as it is stated: inside the one capability that uses it, or,    *)
(* when several do, in the shared foundation - through surfaces as well.    *)
SharedIsInTheFoundation ==
    LET group == Group  home == HomeOf(group) IN
    \A s, t \in Services :
        s \notin DOMAIN group /\ home[s] # {} /\ <<t, s>> \in depends /\ home[t] # {}
        => home[t] = home[s]

(* The levels are of the code: everything once, surfaces that share a        *)
(* service together, and inside a capability only what is used there.        *)
ContainmentHolds == EverythingOnce /\ CapabilitiesAreWhatSurfacesJoin /\ InsideIsUsedInside
=============================================================================
