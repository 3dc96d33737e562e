------------------------------ MODULE LiftRun ------------------------------
(***************************************************************************)
(* Generate / Update graph from repo: the code is read, agents are asked   *)
(* about it task by task through a pool, with a memo of what they said,    *)
(* the model pass names what was found, and the documents land as pending  *)
(* changes (http/lift-routes.ts, lift/index.ts, lift/analysts.ts,          *)
(* lift/interpret.ts).                                                     *)
(*                                                                         *)
(* The code of an area is a version.  An answer of an agent or of the      *)
(* model is a number, new each time a task is asked: "agents word things   *)
(* differently each run".  How claims are weighed is LiftClaims.           *)
(***************************************************************************)
EXTENDS Integers, Sequences, FiniteSets, SequencesExt

CONSTANTS
    AreaOrder,      \* the areas of the repository, in the order they are listed
    Readings,       \* interpretation tasks: the angles of the architecture
    Overview,       \* the reading made from those that drew something
    Lifts,          \* lifts that may run at once
    Edits,          \* bound: versions of an area's code, 1 .. n
    HandEdits,      \* bound: edits of the documents by hand
    Upgrades,       \* bound: versions of the runner's prompts and model, 1 .. n
    MaxAnswers,     \* bound: answers given to one task
    MaxLifts,       \* bound: lifts started
    MaxFailures,    \* bound: failures
    Faults          \* what may fail: "ask", "put", "refine", "meta"

Areas == ToSet(AreaOrder)
Tasks == Areas \cup Readings \cup {Overview}
Naming == "naming"          \* what the model pass is asked

ASSUME LiftAssumption ==
    /\ AreaOrder \in Seq(Areas) /\ Overview \notin Areas \cup Readings
    /\ Areas \cap Readings = {} /\ IsFiniteSet(Tasks)
    /\ Edits \in Nat \ {0} /\ HandEdits \in Nat /\ Upgrades \in Nat \ {0} /\ MaxAnswers \in Nat /\ MaxLifts \in Nat
    /\ MaxFailures \in Nat
    /\ Faults \subseteq {"ask", "put", "refine", "meta"}

VARIABLES
    code,           \* Areas -> the version of its files
    version,        \* the runner's analyzeVersion and model
    hand,           \* what the author wrote into the documents
    doc,            \* the civil documents, pending over HEAD
    memo,           \* lift_area_memos: Tasks -> the rows [fp, answer], and the newest answer
    answers,        \* how many answers each question was given
    lift,           \* the requests
    started,        \* how many were made
    failures,       \* how many calls failed
    settled         \* history: the last landing, and whether nothing failed in it

vars == <<code, version, hand, doc, memo, answers, lift, started, failures, settled>>

Nothing == 0
Answers(t) == 1 .. answers[t]

(* The skeleton the claims come to, the readings, the model's words, the    *)
(* skeleton they were asked for, and the author's hand.                     *)
NoSkeleton == [code |-> [a \in Areas |-> 0], claims |-> <<>>]
NoDoc == [skeleton |-> NoSkeleton, readings |-> [r \in Readings \cup {Overview} |-> {}],
          words |-> Nothing, wordsFor |-> NoSkeleton, hand |-> 0]
NoLift == [pc |-> "idle", code |-> [a \in Areas |-> 0], version |-> 0, doc |-> NoDoc,
           step |-> [t \in Tasks |-> "queued"], got |-> [t \in Tasks |-> {}],
           raw |-> <<>>, failed |-> FALSE, words |-> Nothing, wordsFor |-> NoSkeleton]

Skeletons == [code : [Areas -> 0 .. Edits], claims : Seq(Areas \X SUBSET Nat)]
Docs == [skeleton : Skeletons, readings : [Readings \cup {Overview} -> SUBSET Nat],
         words : 0 .. MaxAnswers, wordsFor : Skeletons, hand : Nat]
Records == [pc : {"idle", "asking", "refine", "land"}, code : [Areas -> 0 .. Edits],
            version : 0 .. Upgrades, doc : Docs,
            step : [Tasks -> {"queued", "missed", "answered", "refused", "done"}],
            got : [Tasks -> SUBSET Nat], raw : Seq(Areas), failed : BOOLEAN,
            words : 0 .. MaxAnswers, wordsFor : Skeletons]

TypeOK ==
    /\ code \in [Areas -> 1 .. Edits] /\ version \in 1 .. Upgrades /\ hand \in Nat
    /\ answers \in [Tasks \cup {Naming} -> 0 .. MaxAnswers] /\ started \in 0 .. MaxLifts
    /\ failures \in 0 .. MaxFailures
    /\ doc \in Docs /\ doc.hand <= hand /\ doc.words \in Answers(Naming) \cup {Nothing}
    /\ DOMAIN memo = Tasks
    /\ \A t \in Tasks :
        /\ memo[t].last \subseteq Answers(t)
        /\ \A row \in memo[t].rows : row.answer \in Answers(t)
    /\ lift \in [Lifts -> Records]
    /\ \A l \in Lifts : \A t \in Tasks : lift[l].got[t] \subseteq Answers(t)
    /\ settled \in [code : [Areas -> 0 .. Edits], version : 0 .. Upgrades, clean : BOOLEAN]

Init ==
    /\ code = [a \in Areas |-> 1] /\ version = 1 /\ hand = 0
    /\ doc = NoDoc
    /\ memo = [t \in Tasks |-> [rows |-> {}, last |-> {}]]
    /\ answers = [t \in Tasks \cup {Naming} |-> 0] /\ started = 0 /\ failures = 0
    /\ lift = [l \in Lifts |-> NoLift]
    /\ settled = [code |-> [a \in Areas |-> 0], version |-> 0, clean |-> FALSE]

-----------------------------------------------------------------------------
(* The fingerprint of a task: an area's own files; for a reading all of     *)
(* them, and for the overview also what the other readings drew.  Without   *)
(* the runner's version nothing is remembered or reused.                    *)
Fingerprint(l, t) ==
    [version |-> lift[l].version,
     code    |-> IF t \in Areas THEN [a \in {t} |-> lift[l].code[a]] ELSE lift[l].code,
     inputs  |-> IF t = Overview THEN [r \in Readings |-> lift[l].got[r]] ELSE <<>>]

Drawn(l) == {r \in Readings : lift[l].got[r] # {}}

Known(l, t) == {row \in memo[t].rows : lift[l].version # 0 /\ row.fp = Fingerprint(l, t)}

(* The memo row of a fingerprint is replaced and becomes the newest.        *)
Put(kept, fp, answer) ==
    [rows |-> {row \in kept.rows : row.fp # fp} \cup {[fp |-> fp, answer |-> answer]},
     last |-> {answer}]

(* The last answer under any fingerprint.                                   *)
Latest(t) == memo[t].last

(* The workers take areas from the queue in order; the overview waits for   *)
(* the readings it is made from.                                            *)
Ready(l, t) ==
    /\ lift[l].pc = "asking"
    /\ t = Overview => \A r \in Readings : lift[l].step[r] = "done"
    /\ \A i \in DOMAIN AreaOrder : AreaOrder[i] = t =>
         \A j \in 1 .. i - 1 : lift[l].step[AreaOrder[j]] # "queued"

Finished(record, t, found) ==
    [record EXCEPT !.step[t] = "done", !.got[t] = found,
                   !.raw = IF t \in Areas /\ found # {} THEN Append(@, t) ELSE @]

Fails(what) ==
    /\ what \in Faults /\ failures < MaxFailures
    /\ failures' = failures + 1

-----------------------------------------------------------------------------
(* The author and the world.                                                *)

(* A lift reads the code as it was when the request began, so that edits    *)
(* are made between requests.                                               *)
EditCode(a) ==
    /\ \A l \in Lifts : lift[l].pc = "idle"
    /\ code' = [code EXCEPT ![a] = IF @ < Edits THEN @ + 1 ELSE 1]
    /\ Edits > 1
    /\ UNCHANGED <<version, hand, doc, memo, answers, lift, started, failures, settled>>

Upgrade ==
    /\ version < Upgrades /\ \A l \in Lifts : lift[l].pc = "idle"
    /\ version' = version + 1
    /\ UNCHANGED <<code, hand, doc, memo, answers, lift, started, failures, settled>>

(* An edit of the documents on the canvas (Editing).                        *)
EditByHand ==
    /\ doc # NoDoc /\ hand < HandEdits
    /\ hand' = hand + 1
    /\ doc' = [doc EXCEPT !.hand = hand']
    /\ UNCHANGED <<code, version, memo, answers, lift, started, failures, settled>>

-----------------------------------------------------------------------------
(* The request.                                                             *)

(* Opens the source, lists the pending rows, asks the runner its version:   *)
(* everything below is read through this snapshot.                          *)
Start(l) ==
    /\ lift[l].pc = "idle" /\ started < MaxLifts
    /\ started' = started + 1
    /\ \E known \in {version, 0} :
        /\ IF known = 0 THEN Fails("meta") ELSE UNCHANGED failures
        /\ lift' = [lift EXCEPT ![l] = [NoLift EXCEPT !.pc = "asking", !.code = code,
                                                      !.version = known, !.doc = doc]]
    /\ UNCHANGED <<code, version, hand, doc, memo, answers, settled>>

(* A worker takes a task: the memo answers it, or not.  There is no overview *)
(* of nothing.                                                              *)
Recall(l, t) ==
    /\ Ready(l, t) /\ lift[l].step[t] = "queued"
    /\ lift' = [lift EXCEPT ![l] =
          IF Known(l, t) # {}
          THEN Finished(@, t, {row.answer : row \in Known(l, t)})
          ELSE IF t = Overview /\ Drawn(l) = {} THEN Finished(@, t, {})
          ELSE [@ EXCEPT !.step[t] = "missed"]]
    /\ UNCHANGED <<code, version, hand, doc, memo, answers, started, failures, settled>>

Ask(l, t) ==
    /\ Ready(l, t) /\ lift[l].step[t] = "missed"
    /\ \/ /\ answers[t] < MaxAnswers
          /\ answers' = [answers EXCEPT ![t] = @ + 1]
          /\ lift' = [lift EXCEPT ![l].step[t] = "answered", ![l].got[t] = {answers'[t]}]
          /\ UNCHANGED failures
       \/ /\ Fails("ask")
          /\ lift' = [lift EXCEPT ![l].step[t] = "refused", ![l].failed = TRUE]
          /\ UNCHANGED answers
    /\ UNCHANGED <<code, version, hand, doc, memo, started, settled>>

Remember(l, t) ==
    /\ lift[l].pc = "asking" /\ lift[l].step[t] = "answered"
    /\ memo' = IF lift[l].version = 0 THEN memo
               ELSE [memo EXCEPT ![t] = Put(@, Fingerprint(l, t), CHOOSE n \in lift[l].got[t] : TRUE)]
    /\ lift' = [lift EXCEPT ![l] = Finished(@, t, lift[l].got[t])]
    /\ UNCHANGED <<code, version, hand, doc, answers, started, failures, settled>>

(* The memo cannot be written: for a reading that is nothing lost; an area  *)
(* is taken for one that could not be asked, and its last answer is weighed *)
(* beside the new one.                                                      *)
NotRemembered(l, t) ==
    /\ lift[l].pc = "asking" /\ lift[l].step[t] = "answered" /\ lift[l].version # 0
    /\ Fails("put")
    /\ LET also == IF t \in Areas THEN Latest(t) ELSE {} IN
       lift' = [lift EXCEPT ![l] = [Finished(@, t, @.got[t] \cup also) EXCEPT !.failed = TRUE]]
    /\ UNCHANGED <<code, version, hand, doc, memo, answers, started, settled>>

(* A failed call does not undo what the task was last found to be.          *)
FallBack(t) == Latest(t)

LastStands(l, t) ==
    /\ lift[l].pc = "asking" /\ lift[l].step[t] = "refused"
    /\ lift' = [lift EXCEPT ![l] = Finished(@, t, FallBack(t))]
    /\ UNCHANGED <<code, version, hand, doc, memo, answers, started, failures, settled>>

(* Mutation: claims are weighed as they came.                               *)
WeighedAsTheyCame(record) ==
    [i \in DOMAIN record.raw |-> <<record.raw[i], record.got[record.raw[i]]>>]

(* Claims arrive in completion order and are weighed in the areas' order.   *)
Weighed(record) ==
    [i \in DOMAIN AreaOrder |->
        <<AreaOrder[i], IF Contains(record.raw, AreaOrder[i]) THEN record.got[AreaOrder[i]] ELSE {}>>]

Skeleton(record) == [code |-> record.code, claims |-> Weighed(record)]

(* Mutation: a task without an answer is waited for.                        *)
AllAnswered(l) == \A t \in Tasks : lift[l].got[t] # {}

(* A task without an answer is done too.                                    *)
AllDone(l) == \A t \in Tasks : lift[l].step[t] = "done"

(* Every task is done: the claims are weighed, the documents are read, and  *)
(* the words of the last lift are reused when they were asked for the same. *)
Assemble(l) ==
    /\ lift[l].pc = "asking" /\ AllDone(l)
    /\ LET last == lift[l].doc IN
       lift' = [lift EXCEPT ![l] =
          IF last.words # Nothing /\ last.wordsFor = Skeleton(@)
          THEN [@ EXCEPT !.pc = "land", !.words = last.words, !.wordsFor = last.wordsFor]
          ELSE [@ EXCEPT !.pc = "refine"]]
    /\ UNCHANGED <<code, version, hand, doc, memo, answers, started, failures, settled>>

(* The model gave nothing usable: the words the author reviewed stand, and  *)
(* are recorded under the skeleton they were asked for.                     *)
WordsKept(record) ==
    IF record.doc.words # Nothing
    THEN [words |-> record.doc.words, wordsFor |-> record.doc.wordsFor]
    ELSE [words |-> Nothing, wordsFor |-> Skeleton(record)]

Refine(l) ==
    /\ lift[l].pc = "refine"
    /\ \/ /\ answers[Naming] < MaxAnswers
          /\ answers' = [answers EXCEPT ![Naming] = @ + 1]
          /\ lift' = [lift EXCEPT ![l] = [@ EXCEPT !.pc = "land", !.words = answers'[Naming],
                                                   !.wordsFor = Skeleton(lift[l])]]
          /\ UNCHANGED failures
       \/ /\ Fails("refine")
          /\ lift' = [lift EXCEPT ![l] =
                [@ EXCEPT !.pc = "land", !.words = WordsKept(lift[l]).words,
                          !.wordsFor = WordsKept(lift[l]).wordsFor, !.failed = TRUE]]
          /\ UNCHANGED answers
    /\ UNCHANGED <<code, version, hand, doc, memo, started, settled>>

(* The proposal, merged with the documents as the request read them.        *)
Proposal(record) ==
    [skeleton |-> Skeleton(record),
     readings |-> [r \in Readings \cup {Overview} |-> record.got[r]],
     words |-> record.words, wordsFor |-> record.wordsFor, hand |-> record.doc.hand]

(* One transaction, in which documents that said this when the request read *)
(* them are left alone.                                                     *)
Land(l) ==
    /\ lift[l].pc = "land"
    /\ doc' = IF Proposal(lift[l]) = lift[l].doc THEN doc ELSE Proposal(lift[l])
    /\ settled' = [code |-> lift[l].code, version |-> lift[l].version, clean |-> ~lift[l].failed]
    /\ lift' = [lift EXCEPT ![l] = NoLift]
    /\ UNCHANGED <<code, version, hand, memo, answers, started, failures>>

Next ==
    \/ \E a \in Areas : EditCode(a)
    \/ Upgrade \/ EditByHand
    \/ \E l \in Lifts :
        \/ Start(l) \/ Assemble(l) \/ Refine(l) \/ Land(l)
        \/ \E t \in Tasks : Recall(l, t) \/ Ask(l, t) \/ Remember(l, t) \/ NotRemembered(l, t) \/ LastStands(l, t)

(* A request that began goes on: its workers are driven by the answers.     *)
Progress(l) ==
    \/ Assemble(l) \/ Refine(l) \/ Land(l)
    \/ \E t \in Tasks : Recall(l, t) \/ Ask(l, t) \/ Remember(l, t) \/ NotRemembered(l, t) \/ LastStands(l, t)

Spec == Init /\ [][Next]_vars
FairSpec == Spec /\ \A l \in Lifts : WF_vars(Progress(l))

-----------------------------------------------------------------------------
(* Correctness.                                                             *)

Lands(l) == lift[l].pc = "land" /\ lift'[l].pc = "idle"

(* An Update over unchanged code proposes nothing: whatever the order in    *)
(* which the workers finish, and whatever is asked again, a lift of the     *)
(* code and the version of the last one, in which nothing failed, leaves    *)
(* the documents as they are (areaFingerprint, AreaMemo, liftFingerprint).  *)
UnchangedProposesNothing ==
    [][\A l \in Lifts :
        Lands(l) /\ settled.clean /\ settled.version # 0
        /\ lift[l].code = settled.code /\ lift[l].version = settled.version
        => [doc' EXCEPT !.hand = doc.hand] = doc]_vars

(* A failed call does not undo what an area was last found to be: a task    *)
(* once answered and remembered is never missing from a landing.            *)
LastAnswerStands ==
    [][\A l \in Lifts : Lands(l) =>
        \A t \in Tasks : memo[t].rows # {} /\ (t = Overview => Drawn(l) # {}) =>
            lift[l].got[t] # {}]_vars

(* The words the author reviewed are kept until the model gives others, and *)
(* are never taken for an answer about another skeleton, so that a failed   *)
(* call is made good by the next lift (recordedFingerprint).                *)
WordsAreForTheirSkeleton ==
    [][\A l \in Lifts : Lands(l) =>
        /\ doc.words # Nothing => doc'.words # Nothing
        /\ doc'.words = doc.words /\ doc.words # Nothing => doc'.wordsFor = doc.wordsFor]_vars

(* What the author wrote into the documents survives an Update.             *)
HandEditsSurvive == doc.hand = hand

(* A lift ends, in a landing.                                               *)
LiftEnds == \A l \in Lifts : lift[l].pc # "idle" ~> lift[l].pc = "idle"

(* Over code that is as it was an Update proposes nothing, and a call that  *)
(* fails costs nothing that was found before: an area keeps its last        *)
(* answer, the reviewed words stay under the skeleton they are for.         *)
LiftsSettle ==
    []TypeOK /\ UnchangedProposesNothing /\ LastAnswerStands /\ WordsAreForTheirSkeleton
=============================================================================
