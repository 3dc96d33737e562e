----------------------------- MODULE Refinement -----------------------------
(***************************************************************************)
(* What the model pass may say about what was found: new ids and which     *)
(* services are plumbing.  A fresh answer is held to the rules strictly; a *)
(* recorded one is reused leniently on a skeleton that has changed since   *)
(* (lift/refine.ts).  Ids are numbers: the code sorts them.                *)
(***************************************************************************)
EXTENDS Integers, FiniteSets, Functions

CONSTANTS
    Names,          \* every id an entity has or may be given
    MaxRenames      \* bound: renames in one answer

ASSUME RefinementAssumption == Names \subseteq Nat /\ IsFiniteSet(Names) /\ MaxRenames \in Nat

VARIABLES
    ids,            \* the entities of the skeleton: clients, servers, services, ...
    guarded,        \* services that serve routes, run agents, or are a root
    recorded        \* lifted_from.refinement in the registry; Unasked before any

refinementVars == <<ids, guarded, recorded>>

NoRenames == [id \in {} |-> 0]
Unasked == [renames |-> NoRenames, infrastructure |-> {}]

(* Renames of at most MaxRenames ids, none to itself.                       *)
Renamings(of) ==
    UNION {{r \in [dom -> Names] : \A id \in dom : r[id] # id} :
           dom \in {d \in SUBSET of : Cardinality(d) <= MaxRenames}}

-----------------------------------------------------------------------------
Renamed(renames, id) == IF id \in DOMAIN renames THEN renames[id] ELSE id

InOrder(of) ==
    [i \in 1 .. Cardinality(of) |-> CHOOSE id \in of : Cardinality({x \in of : x <= id}) = i]

(* The ids in order take their names; the first to be called something has  *)
(* the name, and in lenient mode the later of two gives its rename up.      *)
Walk(of, renames, lenient) ==
    LET id == InOrder(of)
        upTo[n \in 0 .. Cardinality(of)] ==
            IF n = 0 THEN [renames |-> renames, final |-> NoRenames, clashes |-> FALSE]
            ELSE LET w     == upTo[n - 1]
                     clash == Renamed(w.renames, id[n]) \in DOMAIN w.final
                     gives == clash /\ lenient /\ id[n] \in DOMAIN w.renames
                     name  == IF gives THEN id[n] ELSE Renamed(w.renames, id[n])
                 IN  [renames |-> Restrict(w.renames, {x \in DOMAIN w.renames : gives => x # id[n]}),
                      final   |-> [m \in DOMAIN w.final \cup {name} |->
                                     IF m \in DOMAIN w.final THEN w.final[m] ELSE id[n]],
                      clashes |-> w.clashes \/ clash]
    IN  upTo[Cardinality(of)]

Clashes(of, renames) == Walk(of, renames, FALSE).clashes

(* The model may call a service plumbing unless it is guarded: the name is  *)
(* read back to the entity that has it now.                                 *)
Plumbing(of, keep, final, names) == {n \in names : n \in DOMAIN final /\ final[n] \notin keep}

(* Mutation: one entry that no longer fits costs every rename.              *)
FittingAllOrNone(of, renames) == IF DOMAIN renames \subseteq of THEN renames ELSE NoRenames

(* An entry of a recorded answer that no longer fits costs only itself.     *)
Fitting(of, renames) == Restrict(renames, DOMAIN renames \cap of)

(* A recorded answer on a skeleton, what is called what, and what is drawn  *)
(* as plumbing: one map for every id.                                       *)
Leniently(of, value) == Walk(of, Fitting(of, value.renames), TRUE)
DrawnAs(of, value) ==
    LET renames == Leniently(of, value).renames IN [id \in of |-> Renamed(renames, id)]
DrawnPlumbing(of, keep, value) ==
    LET walk     == Leniently(of, value)
        plumbing == Plumbing(of, keep, walk.final, value.infrastructure)
    IN  {id \in of : Renamed(walk.renames, id) \in plumbing}

-----------------------------------------------------------------------------
RefinementInit == ids \in SUBSET Names /\ guarded \in SUBSET ids /\ recorded = Unasked

(* The model answers, and the answer is accepted whole.                     *)
Answered ==
    /\ recorded = Unasked
    /\ \E renames \in Renamings(ids), names \in SUBSET Names :
        /\ Cardinality(names) <= 1
        /\ ~Clashes(ids, renames)
        /\ LET final == Walk(ids, renames, FALSE).final IN
           /\ names \subseteq DOMAIN final
           /\ recorded' = [renames |-> renames, infrastructure |-> Plumbing(ids, guarded, final, names)]
    /\ recorded' # Unasked
    /\ UNCHANGED <<ids, guarded>>

(* The code gains a part, loses one, or a part begins to serve routes.      *)
Found(id) == id \notin ids /\ ids' = ids \cup {id} /\ UNCHANGED <<guarded, recorded>>
Gone(id) == id \in ids /\ ids' = ids \ {id} /\ guarded' = guarded \ {id} /\ UNCHANGED recorded
Serves(id) == id \in ids \ guarded /\ guarded' = guarded \cup {id} /\ UNCHANGED <<ids, recorded>>

RefinementNext == Answered \/ \E id \in Names : Found(id) \/ Gone(id) \/ Serves(id)
RefinementSpec == RefinementInit /\ [][RefinementNext]_refinementVars

-----------------------------------------------------------------------------
Distinct(named) == \A a, b \in DOMAIN named : a # b => named[a] # named[b]

(* A fresh answer never merges two entities: accepted, it is one to one on  *)
(* the skeleton it is about (validateRefinement, strict).                   *)
FreshAnswerIsOneToOne ==
    [][recorded' # recorded =>
        Distinct([id \in ids |-> Renamed(recorded'.renames, id)])]_refinementVars

(* A service that serves routes or runs agents is not filed under plumbing  *)
(* by the model, under whatever name, also when it began to after the       *)
(* answer, as long as its name is its own.                                  *)
GuardedStaysOnTheCanvas ==
    Distinct(DrawnAs(ids, recorded)) => DrawnPlumbing(ids, guarded, recorded) \cap guarded = {}

(* A part that goes costs its own entries and no others: the rest are drawn *)
(* as they were, or as the model named them when that name is free now.     *)
GoneCostsItself ==
    LET before == DrawnAs(ids, recorded) IN
    \A id \in ids : LET after == DrawnAs(ids \ {id}, recorded) IN
        \A other \in ids \ {id} : after[other] \in {before[other], Renamed(recorded.renames, other)}

(* The comment of validateRefinement: otherwise two entities merge, which   *)
(* the model may never do.                                                  *)
NeverMerged == Distinct(DrawnAs(ids, recorded))

(* A recorded answer holds on a skeleton it was not given for: it merges     *)
(* nothing while fresh, hides nothing that serves, and what has gone takes   *)
(* along only its own entries (applyRefinement, strict and lenient).         *)
RecordedAnswersHold == FreshAnswerIsOneToOne /\ [](GuardedStaysOnTheCanvas /\ GoneCostsItself)
=============================================================================
