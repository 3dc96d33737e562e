----------------------------- MODULE MCLiftRun -----------------------------
(* Model-checking instance of LiftRun, which says when a reading lands, of  *)
(* Refinement, which says what a recorded answer does to a later reading,   *)
(* and of Documents, which says what the landing changes.  A behavior is    *)
(* about one of the three and leaves the others alone.                      *)
EXTENDS LiftRun, Refinement, Documents, TLC

CONSTANTS a1, a2, angle, overview, l1,
          api, orders, cron

VARIABLE about

TwoAreas == <<a1, a2>>

(* A boundary, a service and a schedule, which no file tells from others.   *)
McTypeOf == api :> "boundary" @@ cron :> "process" @@ orders :> "service"
McNamed == api :> "a" @@ cron :> "c" @@ orders :> "b"
McNameOrder == <<"a", "b", "c", "d">>
McNeeds == {<<api, orders>>, <<cron, orders>>}

NotAsked == ids = {} /\ guarded = {} /\ recorded = Unasked

(* The service may come later than the rest.                                *)
AboutInit ==
    /\ Init /\ DocumentsInit
    /\ about \in {"lift", "answer", "documents"}
    /\ IF about = "answer" THEN RefinementInit ELSE NotAsked
    /\ \/ DOMAIN shows = Finds
       \/ about = "documents" /\ DOMAIN shows = Finds \ {orders}

LiftStep == about = "lift" /\ Next /\ UNCHANGED <<about, refinementVars, documentsVars>>
AnswerStep == about = "answer" /\ RefinementNext /\ UNCHANGED <<about, vars, documentsVars>>
DocumentsStep == about = "documents" /\ DocumentsNext /\ UNCHANGED <<about, vars, refinementVars>>

AboutSpec ==
    /\ AboutInit
    /\ [][LiftStep \/ AnswerStep \/ DocumentsStep]_<<about, vars, refinementVars, documentsVars>>
    /\ \A l \in Lifts : WF_vars(Progress(l))
=============================================================================
